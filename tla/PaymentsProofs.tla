---------------------------- MODULE PaymentsProofs ----------------------------
(***************************************************************************)
(* Proofs about what partners are charged and what it opens to them:       *)
(* Payments, for every set of keys and any number of charge and webhook    *)
(* handlers of the same key or event running at once; the billing of plans *)
(* (PlanBilling), for any plans, lengths of month and year, and any number *)
(* of cycles and requests; the review of a partner (PortalGate), for any   *)
(* invoices and any number of handlers; the modules it may use             *)
(* (Entitlements), for any modules, plans, edits and requests; and what a  *)
(* line, a plan and a module cost (InvoiceMath, PlanPrices, ModulePrices), *)
(* for any limits and prices.                                              *)
(***************************************************************************)
EXTENDS Payments, PlanBilling, PortalGate, Entitlements, MCCommerce, WellFoundedInduction, TLAPS

\* A running webhook handler works on a recorded event, and one that is about
\* to mark it PROCESSED on an event Billing has settled.
HooksAreHonest ==
    \A h \in Hooks :
        /\ hook[h] # IdleHook => inbox[hook[h].event] # "NONE"
        /\ hook[h].pc = "finish" => hook[h].event \in settled

\* Billing knows only recorded events.
SettledIsReceived == \A e \in settled : inbox[e] # "NONE"

\* An attempt shows SUCCEEDED only if its success event is recorded.
ShownIsReceived ==
    \A k \in ChargeKeys : attempt[k] = "SUCCEEDED" => inbox[<<k, "SUCCEEDED">>] # "NONE"

\* A charge handler past its INSERT works on a persisted attempt.
ChargesPersist ==
    \A c \in Chargers :
        charge[c].pc \in {"provider", "update", "failed"} => attempt[charge[c].key] # "ABSENT"

HookInv   == HooksAreHonest /\ SettledIsReceived /\ ShownIsReceived /\ ProcessedIsSettled
ChargeInv == ChargesPersist /\ AttemptBeforeRequest
PayInv    == PayTypeOK /\ HookInv /\ ChargeInv

-----------------------------------------------------------------------------
\* The invariant holds before the first charge.
LEMMA PayInitInv == PayInit => PayInv
BY DEF PayInit, PayInv, HookInv, ChargeInv, PayTypeOK, HooksAreHonest, SettledIsReceived,
       ShownIsReceived, ProcessedIsSettled, ChargesPersist, AttemptBeforeRequest,
       IdleCharge, IdleHook, ChargeStates, HookStates, Statuses, Events

\* What a handler's control location says about the rest of its record.
LEMMA ChargeRecords ==
    ASSUME PayTypeOK, NEW c \in Chargers
    PROVE  /\ charge[c] \in ChargeStates
           /\ charge[c].pc = "idle" <=> charge[c] = IdleCharge
           /\ charge[c].pc # "idle" => charge[c].key \in ChargeKeys
           /\ charge[c].pc = "update" => charge[c].answer \in Answers \ {"declined"}
BY DEF PayTypeOK, ChargeStates, IdleCharge

\* What each program counter of a webhook handler carries.
LEMMA HookRecords ==
    ASSUME PayTypeOK, NEW h \in Hooks
    PROVE  /\ hook[h] \in HookStates
           /\ hook[h].pc = "idle" <=> hook[h] = IdleHook
           /\ hook[h].pc # "idle" => hook[h].event \in Events
BY DEF PayTypeOK, HookStates, IdleHook

\* A charge step leaves the webhook side alone and shows no success of its own.
LEMMA ChargeKeepsHookInv ==
    ASSUME HookInv, UNCHANGED <<inbox, settled, hook>>,
           \A k \in ChargeKeys : attempt'[k] = "SUCCEEDED" => attempt[k] = "SUCCEEDED"
    PROVE  HookInv'
BY DEF HookInv, HooksAreHonest, SettledIsReceived, ShownIsReceived, ProcessedIsSettled

\* A webhook step leaves the charge side alone and removes no attempt.
LEMMA HookKeepsChargeInv ==
    ASSUME ChargeInv, PayTypeOK, UNCHANGED <<intent, charge>>,
           \A k \in ChargeKeys : attempt'[k] = "ABSENT" => attempt[k] = "ABSENT"
    PROVE  ChargeInv'
BY ChargeRecords DEF ChargeInv, ChargesPersist, AttemptBeforeRequest

-----------------------------------------------------------------------------
\* A charge that finds a RETRYABLE attempt goes on with a persisted one.
LEMMA ReadAttemptInv ==
    ASSUME PayInv, NEW c \in Chargers, NEW k \in ChargeKeys, ReadAttempt(c, k)
    PROVE  PayInv'
<1>1. PICK s \in {"insert", "provider"} :
         /\ charge' = [charge EXCEPT ![c] = [pc |-> s, key |-> k]]
         /\ s = "provider" => attempt[k] # "ABSENT"
         /\ UNCHANGED <<attempt, intent, emitted, inbox, settled, hook>>
  BY DEF ReadAttempt, Goto
<1>2. [pc |-> s, key |-> k] \in ChargeStates
  BY DEF ChargeStates
<1>3. PayTypeOK'
  BY <1>1, <1>2 DEF PayInv, PayTypeOK
<1>4. HookInv'
  BY <1>1, ChargeKeepsHookInv DEF PayInv
<1>5. ChargeInv'
  BY <1>1 DEF PayInv, ChargeInv, ChargesPersist, AttemptBeforeRequest, PayTypeOK
<1> QED BY <1>3, <1>4, <1>5 DEF PayInv

\* The attempt exists after the insert, whoever won its race.
LEMMA InsertAttemptInv ==
    ASSUME PayInv, NEW c \in Chargers, InsertAttempt(c)
    PROVE  PayInv'
<1> DEFINE k == charge[c].key
<1>1. /\ k \in ChargeKeys
      /\ attempt' = [attempt EXCEPT ![k] = IF @ = "ABSENT" THEN "PENDING" ELSE @]
      /\ charge' = [charge EXCEPT ![c] = [pc |-> "provider", key |-> k]]
      /\ UNCHANGED <<intent, emitted, inbox, settled, hook>>
  BY ChargeRecords DEF InsertAttempt, Goto, PayInv
<1> HIDE DEF k
<1>2. [pc |-> "provider", key |-> k] \in ChargeStates
  BY <1>1 DEF ChargeStates
<1>3. PayTypeOK'
  BY <1>1, <1>2 DEF PayInv, PayTypeOK, Statuses
<1>4. HookInv'
  BY <1>1, ChargeKeepsHookInv DEF PayInv, PayTypeOK
<1>5. ChargeInv'
  BY <1>1, ChargeRecords DEF PayInv, ChargeInv, ChargesPersist, AttemptBeforeRequest, PayTypeOK
<1> QED BY <1>3, <1>4, <1>5 DEF PayInv

\* Asking the provider is preceded by the attempt.
LEMMA ProviderInv ==
    ASSUME PayInv, NEW c \in Chargers, ProviderAnswers(c) \/ ProviderLost(c)
    PROVE  PayInv'
<1> DEFINE k == charge[c].key
<1>1. /\ charge[c].pc = "provider" /\ k \in ChargeKeys
      /\ UNCHANGED <<attempt, emitted, inbox, settled, hook>>
  BY ChargeRecords DEF ProviderAnswers, ProviderLost, PayInv
<1>2. PICK s \in [pc : {"failed"}, key : {k}]
                  \cup [pc : {"update"}, key : {k}, answer : Answers \ {"declined"}] :
         charge' = [charge EXCEPT ![c] = s]
  BY DEF ProviderAnswers, ProviderLost, Goto
<1>3. \/ intent' = intent
      \/ \E a \in Answers : intent' = [intent EXCEPT ![k] = a]
  BY DEF ProviderAnswers, ProviderLost, ProviderDecides
<1>4. s \in ChargeStates /\ s.key = k
  BY <1>1 DEF ChargeStates
<1> HIDE DEF k
<1>5. PayTypeOK'
  BY <1>1, <1>2, <1>3, <1>4 DEF PayInv, PayTypeOK
<1>6. HookInv'
  BY <1>1, ChargeKeepsHookInv DEF PayInv
<1>7. attempt[k] # "ABSENT"
  BY <1>1 DEF PayInv, ChargeInv, ChargesPersist, k
<1>8. ChargeInv'
  BY <1>1, <1>2, <1>3, <1>4, <1>7 DEF PayInv, ChargeInv, ChargesPersist, AttemptBeforeRequest, PayTypeOK
<1> QED BY <1>5, <1>6, <1>8 DEF PayInv

\* No answer of the provider is stored as a success.
LEMMA StoreAnswerInv ==
    ASSUME PayInv, NEW c \in Chargers, StoreAnswer(c)
    PROVE  PayInv'
<1> DEFINE k == charge[c].key
<1>1. PICK s \in {"RETRYABLE", "PROCESSING", "REQUIRES_ACTION", "FAILED"} :
         attempt' = [attempt EXCEPT ![k] = s]
  BY DEF StoreAnswer, ChargeStatus
<1>2. /\ charge' = [charge EXCEPT ![c] = IdleCharge]
      /\ UNCHANGED <<intent, emitted, inbox, settled, hook>>
  BY DEF StoreAnswer, Goto
<1>3. IdleCharge \in ChargeStates /\ s \in Statuses
  BY DEF ChargeStates, Statuses, Outcomes
<1> HIDE DEF k
<1>4. PayTypeOK'
  BY <1>1, <1>2, <1>3 DEF PayInv, PayTypeOK
<1>5. HookInv'
  BY <1>1, <1>2, ChargeKeepsHookInv DEF PayInv, PayTypeOK
<1>6. ChargeInv'
  BY <1>1, <1>2, ChargeRecords
     DEF PayInv, ChargeInv, ChargesPersist, AttemptBeforeRequest, PayTypeOK, IdleCharge
<1> QED BY <1>4, <1>5, <1>6 DEF PayInv

\* A charge that dies leaves what it has persisted.
LEMMA ChargeDiesInv ==
    ASSUME PayInv, NEW c \in Chargers, ChargeDies(c)
    PROVE  PayInv'
<1>1. /\ charge' = [charge EXCEPT ![c] = IdleCharge]
      /\ UNCHANGED <<attempt, intent, emitted, inbox, settled, hook>>
  BY DEF ChargeDies, Goto
<1>2. PayTypeOK'
  BY <1>1 DEF PayInv, PayTypeOK, ChargeStates
<1>3. HookInv'
  BY <1>1, ChargeKeepsHookInv DEF PayInv
<1>4. ChargeInv'
  BY <1>1 DEF PayInv, ChargeInv, ChargesPersist, AttemptBeforeRequest, PayTypeOK, IdleCharge
<1> QED BY <1>2, <1>3, <1>4 DEF PayInv

-----------------------------------------------------------------------------
\* An event of the provider concerns an intent, not the tables.
LEMMA EmitInv ==
    ASSUME PayInv, NEW k \in ChargeKeys, NEW o \in Outcomes, Emit(k, o)
    PROVE  PayInv'
<1>1. /\ emitted' = emitted \cup {<<k, o>>}
      /\ UNCHANGED <<attempt, intent, inbox, settled, charge, hook>>
  BY DEF Emit
<1>2. PayTypeOK'
  BY <1>1 DEF PayInv, PayTypeOK, Events
<1>3. HookInv' /\ ChargeInv'
  BY <1>1, ChargeKeepsHookInv, HookKeepsChargeInv DEF PayInv
<1> QED BY <1>2, <1>3 DEF PayInv

\* A delivery is recorded before it is applied.
LEMMA ReceiveInv ==
    ASSUME PayInv, NEW h \in Hooks, NEW e \in Events, Receive(h, e)
    PROVE  PayInv'
<1>1. /\ inbox[e] # "PROCESSED"
      /\ inbox' = [inbox EXCEPT ![e] = "RECEIVED"]
      /\ hook' = [hook EXCEPT ![h] = [pc |-> "apply", event |-> e]]
      /\ UNCHANGED <<attempt, intent, emitted, settled, charge>>
  BY DEF Receive, Enter
<1>2. [pc |-> "apply", event |-> e] \in HookStates
  BY DEF HookStates
<1>3. PayTypeOK'
  BY <1>1, <1>2 DEF PayInv, PayTypeOK
<1>4. \A x \in Events : inbox[x] # "NONE" => inbox'[x] # "NONE"
  BY <1>1 DEF PayInv, PayTypeOK
<1>5. HooksAreHonest'
  BY <1>1, <1>4, HookRecords DEF PayInv, HookInv, HooksAreHonest, PayTypeOK
<1>6. SettledIsReceived' /\ ShownIsReceived'
  BY <1>1, <1>4 DEF PayInv, HookInv, SettledIsReceived, ShownIsReceived, PayTypeOK, Events, Outcomes
<1>7. ProcessedIsSettled'
  BY <1>1 DEF PayInv, HookInv, ProcessedIsSettled, PayTypeOK
<1>8. ChargeInv'
  BY <1>1, HookKeepsChargeInv DEF PayInv
<1> QED BY <1>3, <1>5, <1>6, <1>7, <1>8 DEF PayInv, HookInv

\* A success is stored for a recorded event only.
LEMMA ApplyOutcomeInv ==
    ASSUME PayInv, NEW h \in Hooks, ApplyOutcome(h)
    PROVE  PayInv'
<1> DEFINE e == hook[h].event
<1>1. /\ e \in Events /\ inbox[e] # "NONE"
      /\ attempt' = [attempt EXCEPT ![e[1]] = e[2]]
      /\ hook' = [hook EXCEPT ![h] = [pc |-> "settle", event |-> e]]
      /\ UNCHANGED <<intent, emitted, inbox, settled, charge>>
  BY HookRecords DEF ApplyOutcome, Enter, PayInv, HookInv, HooksAreHonest, IdleHook
<1> HIDE DEF e
<1>2. PICK k \in ChargeKeys, o \in Outcomes : e = <<k, o>>
  BY <1>1 DEF Events
<1>3. attempt' = [attempt EXCEPT ![k] = o]
  BY <1>1, <1>2
<1>4. [pc |-> "settle", event |-> e] \in HookStates /\ o \in Statuses
  BY <1>1 DEF HookStates, Statuses
<1>5. PayTypeOK'
  BY <1>1, <1>3, <1>4 DEF PayInv, PayTypeOK
<1>6. HooksAreHonest' /\ SettledIsReceived' /\ ProcessedIsSettled'
  BY <1>1 DEF PayInv, HookInv, HooksAreHonest, SettledIsReceived, ProcessedIsSettled, PayTypeOK
<1>7. ShownIsReceived'
  BY <1>1, <1>2, <1>3 DEF PayInv, HookInv, ShownIsReceived, PayTypeOK
<1>8. ChargeInv'
  BY <1>1, <1>3, HookKeepsChargeInv DEF PayInv, PayTypeOK, Outcomes
<1> QED BY <1>5, <1>6, <1>7, <1>8 DEF PayInv, HookInv

\* Billing settles, or is refused, for an event that is recorded.
LEMMA SettleInv ==
    ASSUME PayInv, NEW h \in Hooks, Settle(h) \/ SettleFails(h)
    PROVE  PayInv'
<1> DEFINE e == hook[h].event
<1>1. /\ e \in Events /\ inbox[e] # "NONE"
      /\ UNCHANGED <<attempt, intent, emitted, inbox, charge>>
  BY HookRecords DEF Settle, SettleFails, PayInv, HookInv, HooksAreHonest, IdleHook
<1>2. settled' = settled \/ settled' = settled \cup {e}
  BY DEF Settle, SettleFails
<1>3. \/ hook' = [hook EXCEPT ![h] = IdleHook]
      \/ /\ hook' = [hook EXCEPT ![h] = [pc |-> "finish", event |-> e]]
         /\ e \in settled'
  BY DEF Settle, SettleFails, Enter
<1>4. IdleHook \in HookStates /\ [pc |-> "finish", event |-> e] \in HookStates
  BY <1>1 DEF HookStates
<1> HIDE DEF e
<1>5. PayTypeOK'
  BY <1>1, <1>2, <1>3, <1>4 DEF PayInv, PayTypeOK
<1>6. HooksAreHonest'
  BY <1>1, <1>2, <1>3 DEF PayInv, HookInv, HooksAreHonest, PayTypeOK, IdleHook
<1>7. SettledIsReceived' /\ ShownIsReceived' /\ ProcessedIsSettled'
  BY <1>1, <1>2 DEF PayInv, HookInv, SettledIsReceived, ShownIsReceived, ProcessedIsSettled
<1>8. ChargeInv'
  BY <1>1, HookKeepsChargeInv DEF PayInv
<1> QED BY <1>5, <1>6, <1>7, <1>8 DEF PayInv, HookInv

\* PROCESSED is written after the settlement; a death writes nothing.
LEMMA FinishInv ==
    ASSUME PayInv, NEW h \in Hooks, MarkProcessed(h) \/ HookDies(h)
    PROVE  PayInv'
<1> DEFINE e == hook[h].event
<1>1. /\ hook' = [hook EXCEPT ![h] = IdleHook]
      /\ UNCHANGED <<attempt, intent, emitted, settled, charge>>
  BY DEF MarkProcessed, HookDies, Enter
<1>2. \/ inbox' = inbox
      \/ /\ inbox' = [inbox EXCEPT ![e] = "PROCESSED"]
         /\ e \in settled
  BY DEF MarkProcessed, HookDies, PayInv, HookInv, HooksAreHonest
<1>3. IdleHook \in HookStates
  BY DEF HookStates
<1> HIDE DEF e
<1>4. PayTypeOK'
  BY <1>1, <1>2, <1>3 DEF PayInv, PayTypeOK
<1>5. \A x \in Events : /\ inbox[x] # "NONE" => inbox'[x] # "NONE"
                        /\ inbox'[x] = "PROCESSED" => inbox[x] = "PROCESSED" \/ x \in settled
  BY <1>2 DEF PayInv, PayTypeOK
<1>6. HooksAreHonest'
  BY <1>1, <1>5, HookRecords DEF PayInv, HookInv, HooksAreHonest, PayTypeOK, IdleHook
<1>7. SettledIsReceived' /\ ShownIsReceived' /\ ProcessedIsSettled'
  BY <1>1, <1>5 DEF PayInv, HookInv, SettledIsReceived, ShownIsReceived,
                    ProcessedIsSettled, PayTypeOK, Events, Outcomes
<1>8. ChargeInv'
  BY <1>1, HookKeepsChargeInv DEF PayInv
<1> QED BY <1>4, <1>6, <1>7, <1>8 DEF PayInv, HookInv

-----------------------------------------------------------------------------
\* Every statement of both handlers preserves the invariant.
LEMMA PayStepInv == PayInv /\ [PayNext]_payVars => PayInv'
<1> SUFFICES ASSUME PayInv, [PayNext]_payVars PROVE PayInv'
  OBVIOUS
<1>1. CASE UNCHANGED payVars
  <2>1. PayTypeOK'
    BY <1>1 DEF payVars, PayInv, PayTypeOK
  <2>2. HookInv' /\ ChargeInv'
    BY <1>1, ChargeKeepsHookInv, HookKeepsChargeInv DEF payVars, PayInv
  <2> QED BY <2>1, <2>2 DEF PayInv
<1>2. CASE PayNext
  BY <1>2, ReadAttemptInv, InsertAttemptInv, ProviderInv, StoreAnswerInv, ChargeDiesInv,
     EmitInv, ReceiveInv, ApplyOutcomeInv, SettleInv, FinishInv
     DEF PayNext, ChargeStep, HookStep
<1> QED BY <1>1, <1>2

\* The invariant of Payments holds in every reachable state.
THEOREM PayInvariant == PaySpec => []PayInv
<1> QED BY PayInitInv, PayStepInv, PTL DEF PaySpec

\* Every reachable state of the tables and of the handlers is well typed.
THEOREM PayTypeCorrect == PaySpec => []PayTypeOK
BY PayInvariant, PTL DEF PayInv

\* No event is marked PROCESSED that Billing has not settled, however many
\* handlers run the same event and whichever of them fail or die.
THEOREM ProcessedEventsAreSettled == PaySpec => []ProcessedIsSettled
<1>1. PayInv => ProcessedIsSettled
  BY DEF PayInv, HookInv
<1> QED BY <1>1, PayInvariant, PTL

\* The provider is never asked about an attempt that is not persisted.
THEOREM RequestsArePersisted == PaySpec => []AttemptBeforeRequest
<1>1. PayInv => AttemptBeforeRequest
  BY DEF PayInv, ChargeInv
<1> QED BY <1>1, PayInvariant, PTL

\* Success is shown to partners and told to Billing only on a success event.
THEOREM SuccessHasEvidence == PaySpec => []SuccessIsEvidenced
<1>1. PayInv => SuccessIsEvidenced
  BY DEF PayInv, HookInv, ShownIsReceived, SettledIsReceived, SuccessIsEvidenced
<1> QED BY <1>1, PayInvariant, PTL
-----------------------------------------------------------------------------
\* What a subscription, an invoice and a handler may be.
PbFreqs == {"MONTHLY", "ANNUAL"}
PbChanges == [plan : PbPlans \cup {0}, freq : PbFreqs, at : Nat]
PbSubs == [plan : PbPlans \cup {0}, freq : PbFreqs, active : BOOLEAN, next : Nat, change : PbChanges]
PbKeys == [kind : {"MONTHLY", "RENEWAL", "PREPAY", "UPGRADE"}, start : Nat, plan : PbPlans]
PbCycles == [at : {"apply", "list"}, now : Nat, change : PbChanges]
PbBillings == [at : {"invoice", "advance"}, paid : BOOLEAN, key : PbKeys, then : {"advance", "idle"}, end : Nat]
PbRequests == [at : {"create", "schedule", "upgrade"}, plan : PbPlans, freq : PbFreqs, now : Nat, paid : BOOLEAN, when : Nat]
PbWorks == {PbIdle} \cup PbCycles \cup [at : {"load"}] \cup PbBillings \cup [at : {"refused"}, key : PbKeys] \cup PbRequests

PbTyped ==
    /\ pbDay \in Nat /\ pbPaid \in BOOLEAN /\ pbSub \in PbSubs
    /\ pbInvoices \subseteq PbKeys /\ pbOwed \subseteq PbKeys /\ pbFirst \in Nat /\ pbExcuse \in BOOLEAN
    /\ pbWork \in [PbWorkers -> PbWorks]

\* The first day after those a key is for, and the key of the period that is next.
PbUntil(k) == PbEnd(IF k.kind = "MONTHLY" THEN "MONTHLY" ELSE "ANNUAL", k.start)
PbDue == PbKey(IF pbSub.freq = "ANNUAL" THEN "RENEWAL" ELSE "MONTHLY", pbSub.next, pbSub.plan)

\* Until there is a plan nothing is billed and nothing is under way but requests for one.
PbBlank ==
    pbSub.plan = 0 =>
        /\ pbInvoices = {} /\ pbOwed = {} /\ pbSub.change.plan = 0
        /\ \A w \in PbWorkers : pbWork[w].at \in {"idle", "list", "create"}

\* What a handler holds that bills: the cycle a period and where it ends, a request what it owes.
PbHeld(r) == r.at \in {"invoice", "advance"}
PbHandlerOk(r) ==
    /\ r.at = "apply" => r.change.plan # 0
    /\ PbHeld(r) /\ r.then = "advance" => r.key.kind \in {"MONTHLY", "RENEWAL"} /\ r.end = PbUntil(r.key)
    /\ PbHeld(r) /\ r.then = "idle" => r.at = "invoice" /\ r.key.kind \in {"PREPAY", "UPGRADE"}
    /\ r.at = "advance" /\ r.paid = TRUE => r.key \in pbInvoices
PbHandlersOk == \A w \in PbWorkers : PbHandlerOk(pbWork[w])

\* The periods billed or being billed lie before the next billing date, but for the one
\* that is due, and apart from each other.
PbAbout(k) == PbRecurs(k) /\ (k \in pbInvoices \/ \E w \in PbWorkers : PbHeld(pbWork[w]) /\ pbWork[w].key = k)
PbOnTime == \A k \in PbKeys : PbAbout(k) => PbUntil(k) <= pbSub.next \/ k = PbDue
PbApart ==
    \A k, l \in PbKeys : PbAbout(k) /\ PbAbout(l) /\ k # l => PbUntil(k) <= l.start \/ PbUntil(l) <= k.start
PbOrderly == pbExcuse = FALSE => PbOnTime /\ PbApart

\* The days before n are charged, to be charged or free: those before the next billing
\* date, and those before any period a cycle is about to pass.
PbCharged(n) ==
    \A d \in pbFirst..(n - 1) :
        d \in pbFree \/ \E k \in pbInvoices \cup pbOwed : PbRecurs(k) /\ d \in PbCovers(k)
PbFilled ==
    pbSub.plan # 0 =>
        /\ PbCharged(pbSub.next)
        /\ \A w \in PbWorkers : PbHeld(pbWork[w]) /\ pbWork[w].then = "advance" => PbCharged(pbWork[w].key.start)

\* What is owed is in the hands of a handler that will charge it.
PbOwedIsHeld ==
    \A k \in pbOwed :
        \/ k \in pbInvoices \/ k \in pbCut
        \/ \E w \in PbWorkers : pbWork[w].at = "invoice" /\ pbWork[w].key = k /\ pbWork[w].paid = TRUE

PbInv == PbTyped /\ PbBlank /\ PbHandlersOk /\ PbOrderly /\ PbFilled /\ PbOwedIsHeld /\ PbBilledIsPassed

-----------------------------------------------------------------------------
\* A month begins after the day it follows.
LEMMA PbNextMonthLater == \A d \in Nat : PbNextMonth(d) \in Nat /\ d < PbNextMonth(d)
<1> SUFFICES ASSUME NEW d \in Nat PROVE PbNextMonth(d) \in Nat /\ d < PbNextMonth(d)
  OBVIOUS
<1> DEFINE q == d \div PbMonth
<1>1. PbMonth \in Nat /\ PbMonth > 0
  BY PbAssumption
<1>2. q \in Nat /\ d = PbMonth * q + (d % PbMonth) /\ (d % PbMonth) \in 0..(PbMonth - 1)
  BY <1>1
<1>3. PbMonth * (q + 1) = PbMonth * q + PbMonth /\ PbMonth * q \in Nat
  BY <1>1, <1>2
<1>4. PbNextMonth(d) = PbMonth * (q + 1)
  BY DEF PbNextMonth
<1> QED BY <1>1, <1>2, <1>3, <1>4

\* A period ends after it begins.
LEMMA PbEndLater ==
    /\ \A f \in PbFreqs, s \in Nat : PbEnd(f, s) \in Nat /\ s < PbEnd(f, s)
    /\ \A k \in PbKeys : k.start \in Nat /\ PbUntil(k) \in Nat /\ k.start < PbUntil(k)
<1>1. PbYear \in Nat /\ PbYear > 0
  BY PbAssumption
<1>2. \A f \in PbFreqs, s \in Nat : PbEnd(f, s) \in Nat /\ s < PbEnd(f, s)
  BY <1>1, PbNextMonthLater DEF PbEnd
<1> QED BY <1>2 DEF PbUntil, PbKeys, PbFreqs

\* What a handler is told by its place.
LEMMA PbWorkOf ==
    ASSUME PbTyped, NEW w \in PbWorkers
    PROVE  /\ pbWork[w] \in PbWorks
           /\ pbWork[w].at \in {"apply", "list"} => pbWork[w] \in PbCycles
           /\ PbHeld(pbWork[w]) => pbWork[w] \in PbBillings
           /\ pbWork[w].at \in {"create", "schedule", "upgrade"} => pbWork[w] \in PbRequests
<1>1. pbWork[w] \in PbWorks
  BY DEF PbTyped
<1> QED BY <1>1 DEF PbWorks, PbIdle, PbCycles, PbBillings, PbRequests, PbHeld

\* The key of the period that is due.
LEMMA PbDueOf ==
    ASSUME PbTyped, pbSub.plan # 0
    PROVE  PbDue \in PbKeys /\ PbRecurs(PbDue) /\ PbDue.start = pbSub.next /\ PbUntil(PbDue) = PbEnd(pbSub.freq, pbSub.next)
BY DEF PbTyped, PbSubs, PbDue, PbKey, PbKeys, PbRecurs, PbUntil, PbFreqs

\* No handler holds a key it did not hold, and none lets one go that nobody has seen to.
PbLetsGo(w) ==
    \/ pbWork'[w] = pbWork[w]
    \/ /\ ~PbHeld(pbWork'[w])
       /\ pbWork'[w].at = "apply" => pbWork'[w].change.plan # 0
       /\ pbSub.plan = 0 => pbWork'[w].at \in {"idle", "list", "create"}
       /\ PbHeld(pbWork[w]) =>
             \/ pbWork[w].key \in pbCut'
             \/ pbWork[w].at = "invoice" /\ (pbWork[w].key \in pbInvoices \/ pbWork[w].paid = FALSE)
PbRests ==
    /\ pbWork' \in [PbWorkers -> PbWorks] /\ \A w \in PbWorkers : PbLetsGo(w)
    /\ pbDay' \in Nat /\ pbPaid' \in BOOLEAN /\ pbSub' \in PbSubs /\ pbCut \subseteq pbCut'
    /\ pbSub'.plan = pbSub.plan /\ pbSub'.freq = pbSub.freq /\ pbSub'.next = pbSub.next
    /\ pbSub.plan = 0 => pbSub'.change.plan = 0
    /\ UNCHANGED <<pbInvoices, pbFirst, pbFree, pbOwed, pbExcuse>>

\* Steps that bill nothing and move no date keep the invariant.
LEMMA PbRestsInv == PbInv /\ PbRests => PbInv'
<1> SUFFICES ASSUME PbInv, PbRests PROVE PbInv'
  OBVIOUS
<1>1. PbTyped'
  BY DEF PbInv, PbTyped, PbRests
<1>2. PbBlank'
  BY DEF PbInv, PbBlank, PbRests, PbLetsGo
<1>3. ASSUME NEW w \in PbWorkers PROVE PbHandlerOk(pbWork[w])'
  <2>1. CASE pbWork'[w] = pbWork[w]
    BY <2>1 DEF PbInv, PbHandlersOk, PbHandlerOk, PbRests
  <2>2. CASE pbWork'[w] # pbWork[w]
    BY <2>2 DEF PbRests, PbLetsGo, PbHandlerOk, PbHeld
  <2> QED BY <2>1, <2>2
<1>4. ASSUME NEW w \in PbWorkers, PbHeld(pbWork'[w]) PROVE pbWork'[w] = pbWork[w]
  BY <1>4 DEF PbRests, PbLetsGo
<1>5. \A k \in PbKeys : PbAbout(k)' => PbAbout(k)
  BY <1>4 DEF PbAbout, PbRests
<1>6. PbDue' = PbDue /\ pbSub'.next = pbSub.next /\ pbExcuse' = pbExcuse
  BY DEF PbRests, PbDue
<1>7. PbOrderly'
  BY <1>5, <1>6 DEF PbInv, PbOrderly, PbOnTime, PbApart
<1>8. ASSUME NEW n, PbCharged(n) PROVE PbCharged(n)'
  BY <1>8 DEF PbCharged, PbRests
<1>9. PbFilled'
  BY <1>4, <1>8 DEF PbInv, PbFilled, PbRests, PbCharged
<1>10. PbOwedIsHeld'
  <2>1. ASSUME NEW k \in pbOwed, NEW w \in PbWorkers,
               pbWork[w].at = "invoice" /\ pbWork[w].key = k /\ pbWork[w].paid = TRUE
        PROVE  k \in pbInvoices \/ k \in pbCut' \/ pbWork'[w] = pbWork[w]
    BY <2>1 DEF PbRests, PbLetsGo, PbHeld
  <2>2. pbOwed' = pbOwed /\ pbInvoices' = pbInvoices /\ pbCut \subseteq pbCut'
    BY DEF PbRests
  <2>3. ASSUME NEW k \in pbOwed
        PROVE  \/ k \in pbInvoices \/ k \in pbCut'
               \/ \E w \in PbWorkers : pbWork'[w].at = "invoice" /\ pbWork'[w].key = k /\ pbWork'[w].paid = TRUE
    <3>1. CASE k \in pbInvoices \/ k \in pbCut
      BY <2>2, <3>1
    <3>2. CASE \E w \in PbWorkers : pbWork[w].at = "invoice" /\ pbWork[w].key = k /\ pbWork[w].paid = TRUE
      <4>1. PICK w \in PbWorkers : pbWork[w].at = "invoice" /\ pbWork[w].key = k /\ pbWork[w].paid = TRUE
        BY <3>2
      <4>2. k \in pbInvoices \/ k \in pbCut' \/ pbWork'[w] = pbWork[w]
        BY <2>1, <4>1
      <4> QED BY <4>1, <4>2
    <3> QED BY <3>1, <3>2 DEF PbInv, PbOwedIsHeld
  <2> QED BY <2>2, <2>3 DEF PbOwedIsHeld
<1>11. PbBilledIsPassed'
  <2>1. ASSUME NEW k \in pbInvoices, NEW w \in PbWorkers, PbAt(w, "advance") /\ pbWork[w].key = k
        PROVE  k \in pbCut' \/ pbWork'[w] = pbWork[w]
    BY <2>1 DEF PbRests, PbLetsGo, PbHeld, PbAt
  <2>2. pbExcuse' = pbExcuse /\ pbInvoices' = pbInvoices /\ pbCut \subseteq pbCut' /\ pbSub'.next = pbSub.next
    BY DEF PbRests
  <2> QED BY <2>1, <2>2 DEF PbInv, PbBilledIsPassed, PbAt
<1> QED BY <1>1, <1>2, <1>3, <1>7, <1>9, <1>10, <1>11 DEF PbInv, PbHandlersOk

\* A handler that goes on leaves the others where they are.
LEMMA PbMoved ==
    ASSUME PbTyped, NEW w \in PbWorkers, NEW r \in PbWorks, PbGo(w, r)
    PROVE  /\ pbWork' \in [PbWorkers -> PbWorks] /\ pbWork'[w] = r
           /\ \A v \in PbWorkers : v # w => pbWork'[v] = pbWork[v]
BY DEF PbTyped, PbGo

\* A handler that goes on to hold nothing rests.
LEMMA PbRestsAt ==
    ASSUME PbInv, NEW w \in PbWorkers, NEW r \in PbWorks, PbGo(w, r),
           ~PbHeld(r), r.at = "apply" => r.change.plan # 0, pbSub.plan = 0 => r.at \in {"idle", "list", "create"},
           PbHeld(pbWork[w]) =>
              \/ pbWork[w].key \in pbCut'
              \/ pbWork[w].at = "invoice" /\ (pbWork[w].key \in pbInvoices \/ pbWork[w].paid = FALSE),
           pbSub' \in PbSubs, pbSub'.plan = pbSub.plan, pbSub'.freq = pbSub.freq, pbSub'.next = pbSub.next,
           pbSub.plan = 0 => pbSub'.change.plan = 0, pbCut \subseteq pbCut',
           UNCHANGED <<pbDay, pbPaid, pbInvoices, pbFirst, pbFree, pbOwed, pbExcuse>>
    PROVE  PbInv'
<1>1. /\ PbTyped /\ pbWork' \in [PbWorkers -> PbWorks] /\ pbWork'[w] = r
      /\ \A v \in PbWorkers : v # w => pbWork'[v] = pbWork[v]
  BY PbMoved DEF PbInv
<1>2. \A v \in PbWorkers : PbLetsGo(v)
  BY <1>1 DEF PbLetsGo
<1>3. PbRests
  BY <1>1, <1>2 DEF PbRests, PbTyped
<1> QED BY <1>3, PbRestsInv

\* Time, the mode and the standing of the partner bill nothing.
LEMMA PbAroundInv == ASSUME PbInv, PbTomorrow \/ PbMode \/ PbStanding PROVE PbInv'
<1>1. PbTyped /\ PbBlank
  BY DEF PbInv
<1>2. pbWork' = pbWork /\ UNCHANGED <<pbInvoices, pbFirst, pbFree, pbOwed, pbCut, pbExcuse>>
  BY DEF PbTomorrow, PbMode, PbStanding, pbHistory
<1>3. pbDay' \in Nat /\ pbPaid' \in BOOLEAN
  <2>1. pbDay' \in Nat
    BY <1>1 DEF PbTomorrow, PbMode, PbStanding, PbTyped
  <2>2. pbPaid' = pbPaid \/ pbPaid' = ~pbPaid
    BY DEF PbTomorrow, PbMode, PbStanding
  <2>3. pbPaid' \in BOOLEAN
    BY <1>1, <2>2 DEF PbTyped
  <2> QED BY <2>1, <2>3
<1>4. /\ pbSub' \in PbSubs /\ pbSub'.plan = pbSub.plan /\ pbSub'.freq = pbSub.freq /\ pbSub'.next = pbSub.next
      /\ pbSub'.change = pbSub.change
  <2>1. CASE pbSub' = pbSub
    BY <1>1, <2>1 DEF PbTyped
  <2>2. CASE pbSub' = [pbSub EXCEPT !.active = ~@]
    BY <1>1, <2>2 DEF PbTyped, PbSubs
  <2> QED BY <2>1, <2>2 DEF PbTomorrow, PbMode, PbStanding
<1>5. PbRests
  BY <1>1, <1>2, <1>3, <1>4 DEF PbRests, PbLetsGo, PbTyped, PbBlank
<1> QED BY <1>5, PbRestsInv

\* Nothing happens.
LEMMA PbStutterInv == ASSUME PbInv, UNCHANGED pbVars PROVE PbInv'
BY PbRestsInv DEF PbRests, PbLetsGo, PbInv, PbTyped, PbBlank, pbVars

\* A cycle reads the day, and who is due ...
LEMMA PbBeginInv == ASSUME PbInv, NEW w \in PbWorkers, PbBegin(w) PROVE PbInv'
<1> DEFINE due == pbSub.active /\ pbSub.change.plan # 0 /\ pbSub.change.at <= pbDay
<1> DEFINE r == [at |-> IF due THEN "apply" ELSE "list", now |-> pbDay, change |-> pbSub.change]
<1>1. PbTyped /\ PbBlank /\ pbWork[w].at = "idle" /\ PbGo(w, r)
      /\ UNCHANGED <<pbDay, pbPaid, pbSub, pbInvoices, pbFirst, pbFree, pbOwed, pbCut, pbExcuse>>
  BY DEF PbInv, PbBegin, PbAt, pbHistory
<1>2. pbSub \in PbSubs /\ pbSub.change \in PbChanges /\ pbDay \in Nat
  BY <1>1 DEF PbTyped, PbSubs
<1>3. /\ r \in PbCycles /\ ~PbHeld(r)
      /\ r.at = "apply" => r.change.plan # 0
      /\ pbSub.change.plan = 0 => r.at = "list"
  BY <1>2 DEF PbCycles, PbHeld
<1> HIDE DEF r
<1>4. r \in PbWorks
  BY <1>3 DEF PbWorks
<1>5. ~PbHeld(pbWork[w])
  BY <1>1 DEF PbHeld
<1> QED BY <1>1, <1>2, <1>3, <1>4, <1>5, PbRestsAt DEF PbBlank

\* ... of which a partner that has no plan is not one ...
LEMMA PbListInv == ASSUME PbInv, NEW w \in PbWorkers, PbList(w) PROVE PbInv'
<1>1. /\ PbTyped /\ PbBlank /\ pbWork[w].at = "list"
      /\ UNCHANGED <<pbDay, pbPaid, pbSub, pbInvoices, pbFirst, pbFree, pbOwed, pbCut, pbExcuse>>
  BY DEF PbInv, PbList, PbAt, pbHistory
<1>2. PICK r \in {[at |-> "load"], PbIdle} : PbGo(w, r) /\ (pbSub.plan = 0 => r = PbIdle)
  BY DEF PbList
<1>3. r \in PbWorks /\ ~PbHeld(r) /\ r.at \in {"load", "idle"} /\ (pbSub.plan = 0 => r.at = "idle")
  BY <1>2 DEF PbWorks, PbIdle, PbHeld
<1>4. ~PbHeld(pbWork[w]) /\ pbSub \in PbSubs
  BY <1>1 DEF PbHeld, PbTyped
<1> QED BY <1>1, <1>2, <1>3, <1>4, PbRestsAt DEF PbBlank

\* ... a request what it is about ...
LEMMA PbAskInv ==
    ASSUME PbInv, NEW w \in PbWorkers, NEW plan \in PbPlans, NEW freq \in PbFreqs, PbAsk(w, plan, freq) PROVE PbInv'
<1> DEFINE d == PbDecision(plan, freq)
<1> DEFINE r == [at |-> d.at, plan |-> plan, freq |-> freq, now |-> pbDay, paid |-> pbPaid,
                 when |-> IF d.at = "schedule" THEN d.when ELSE 0]
<1>1. /\ PbTyped /\ PbBlank /\ pbWork[w].at = "idle" /\ PbGo(w, r)
      /\ UNCHANGED <<pbDay, pbPaid, pbSub, pbInvoices, pbFirst, pbFree, pbOwed, pbCut, pbExcuse>>
  BY DEF PbInv, PbAsk, PbAt, pbHistory
<1>2. pbSub \in PbSubs /\ pbSub.next \in Nat /\ pbDay \in Nat /\ pbPaid \in BOOLEAN /\ PbNextMonth(pbDay) \in Nat
  BY <1>1, PbNextMonthLater DEF PbTyped, PbSubs
<1>3. /\ d.at \in {"create", "schedule", "upgrade"} /\ (pbSub.plan = 0 => d.at = "create")
      /\ d.at = "schedule" => d.when \in Nat
  BY <1>2 DEF PbDecision
<1> HIDE DEF d
<1>4. r \in PbRequests /\ ~PbHeld(r) /\ r.at = d.at
  BY <1>2, <1>3 DEF PbRequests, PbHeld
<1> HIDE DEF r
<1>5. r \in PbWorks /\ ~PbHeld(pbWork[w])
  BY <1>1, <1>4 DEF PbWorks, PbHeld
<1> QED BY <1>1, <1>2, <1>3, <1>4, <1>5, PbRestsAt DEF PbBlank

\* ... which may be to change the plan later ...
LEMMA PbScheduleInv == ASSUME PbInv, NEW w \in PbWorkers, PbSchedule(w) PROVE PbInv'
<1> DEFINE r == pbWork[w]
<1> DEFINE change == [plan |-> r.plan, freq |-> r.freq, at |-> r.when]
<1>1. /\ PbTyped /\ PbBlank /\ r.at = "schedule" /\ PbGo(w, PbIdle) /\ pbSub' = [pbSub EXCEPT !.change = change]
      /\ UNCHANGED <<pbDay, pbPaid, pbInvoices, pbFirst, pbFree, pbOwed, pbCut, pbExcuse>>
  BY DEF PbInv, PbSchedule, PbAt, pbHistory
<1>2. r \in PbRequests /\ pbSub \in PbSubs
  BY <1>1, PbWorkOf DEF PbTyped
<1>3. change \in PbChanges
  BY <1>2 DEF PbRequests, PbChanges
<1>4. pbSub' \in PbSubs /\ pbSub'.plan = pbSub.plan /\ pbSub'.freq = pbSub.freq /\ pbSub'.next = pbSub.next
  BY <1>1, <1>2, <1>3 DEF PbSubs
<1>5. PbIdle \in PbWorks /\ ~PbHeld(PbIdle) /\ PbIdle.at = "idle" /\ ~PbHeld(pbWork[w]) /\ pbSub.plan # 0
  BY <1>1 DEF PbIdle, PbWorks, PbHeld, PbBlank
<1> QED BY <1>1, <1>4, <1>5, PbRestsAt

\* ... and one that was refused or is stopped holds nothing any more.
LEMMA PbEndInv == ASSUME PbInv, NEW w \in PbWorkers, PbRefuse(w) \/ PbStop(w) PROVE PbInv'
<1>1. /\ PbTyped /\ PbBlank /\ PbGo(w, PbIdle)
      /\ UNCHANGED <<pbDay, pbPaid, pbSub, pbInvoices, pbFirst, pbFree, pbOwed, pbExcuse>>
  BY DEF PbInv, PbRefuse, PbStop, pbHistory
<1>2. pbCut \subseteq pbCut' /\ (PbHeld(pbWork[w]) => pbWork[w].key \in pbCut')
  BY DEF PbRefuse, PbStop, PbAt, PbHeld, pbHistory
<1>3. PbIdle \in PbWorks /\ ~PbHeld(PbIdle) /\ PbIdle.at = "idle" /\ pbSub \in PbSubs
  BY <1>1 DEF PbIdle, PbWorks, PbHeld, PbTyped
<1> QED BY <1>1, <1>2, <1>3, PbRestsAt DEF PbBlank

\* Days that are charged stay charged.
LEMMA PbChargedStays ==
    ASSUME pbFirst' = pbFirst, pbFree \subseteq pbFree', pbInvoices \subseteq pbInvoices', pbOwed \subseteq pbOwed',
           NEW n, PbCharged(n)
    PROVE  PbCharged(n)'
BY DEF PbCharged

\* A cycle takes up the period that is due.
LEMMA PbLoadInv == ASSUME PbInv, NEW w \in PbWorkers, PbLoad(w) PROVE PbInv'
<1> DEFINE r == [at |-> "invoice", paid |-> pbPaid, key |-> PbDue, then |-> "advance", end |-> PbEnd(pbSub.freq, pbSub.next)]
<1>1. /\ PbTyped /\ PbBlank /\ PbHandlersOk /\ PbOrderly /\ PbFilled /\ PbOwedIsHeld /\ PbBilledIsPassed
      /\ pbWork[w].at = "load" /\ pbSub.plan # 0
  BY DEF PbInv, PbLoad, PbAt, PbBlank
<1>2. PbGo(w, r) /\ UNCHANGED <<pbDay, pbPaid, pbSub, pbInvoices, pbFirst, pbFree, pbOwed, pbCut, pbExcuse>>
  BY DEF PbLoad, pbHistory, PbDue
<1>3. PbDue \in PbKeys /\ PbRecurs(PbDue) /\ PbDue.start = pbSub.next /\ PbUntil(PbDue) = PbEnd(pbSub.freq, pbSub.next)
  BY <1>1, PbDueOf
<1>4. pbSub.next \in Nat /\ pbSub.freq \in PbFreqs /\ pbPaid \in BOOLEAN /\ PbEnd(pbSub.freq, pbSub.next) \in Nat
  BY <1>1, PbEndLater DEF PbTyped, PbSubs
<1>5. r \in PbBillings /\ r \in PbWorks /\ r.at = "invoice" /\ r.key = PbDue /\ r.then = "advance" /\ r.end = PbUntil(PbDue)
  BY <1>3, <1>4 DEF PbBillings, PbWorks
<1> HIDE DEF r
<1>6. /\ pbWork' \in [PbWorkers -> PbWorks] /\ pbWork'[w] = r
      /\ \A v \in PbWorkers : v # w => pbWork'[v] = pbWork[v]
  BY <1>1, <1>2, <1>5, PbMoved
<1>7. PbTyped' /\ PbBlank'
  BY <1>1, <1>2, <1>6 DEF PbTyped, PbBlank
<1>8. PbHandlersOk'
  <2>1. PbDue.kind \in {"MONTHLY", "RENEWAL"}
    BY DEF PbDue, PbKey
  <2> QED BY <1>1, <1>2, <1>5, <1>6, <2>1 DEF PbHandlersOk, PbHandlerOk, PbHeld
<1>9. \A k \in PbKeys : PbAbout(k)' => PbAbout(k) \/ k = PbDue
  BY <1>2, <1>5, <1>6 DEF PbAbout
<1>10. PbDue' = PbDue /\ pbSub' = pbSub /\ pbExcuse' = pbExcuse
  BY <1>2 DEF PbDue
<1>11. PbOrderly'
  BY <1>1, <1>3, <1>9, <1>10, PbEndLater DEF PbOrderly, PbOnTime, PbApart
<1>12. PbFilled'
  <2>1. ASSUME NEW n, PbCharged(n) PROVE PbCharged(n)'
    BY <1>2, <2>1, PbChargedStays
  <2>2. ASSUME NEW v \in PbWorkers, PbHeld(pbWork'[v]), pbWork'[v].then = "advance", NEW n, n = pbWork'[v].key.start
        PROVE  PbCharged(n)
    BY <1>1, <1>3, <1>5, <1>6, <2>2 DEF PbFilled
  <2> QED BY <1>1, <1>2, <2>1, <2>2 DEF PbFilled, PbCharged
<1>13. PbOwedIsHeld'
  BY <1>1, <1>2, <1>6 DEF PbOwedIsHeld
<1>14. PbBilledIsPassed'
  BY <1>1, <1>2, <1>6 DEF PbBilledIsPassed, PbAt
<1> QED BY <1>7, <1>8, <1>11, <1>12, <1>13, <1>14 DEF PbInv

\* An invoice that is made: its handler goes on to move the date, or ends.
LEMMA PbMakesInv ==
    ASSUME PbInv, NEW w \in PbWorkers, PbAt(w, "invoice"), pbWork[w].paid = FALSE \/ pbWork[w].key \notin pbInvoices,
           NEW r \in PbWorks, PbGo(w, r),
           r = IF pbWork[w].then = "advance" THEN [pbWork[w] EXCEPT !.at = "advance"] ELSE PbIdle,
           pbInvoices' = IF pbWork[w].paid = TRUE THEN pbInvoices \cup {pbWork[w].key} ELSE pbInvoices,
           UNCHANGED <<pbDay, pbPaid, pbSub, pbFirst, pbFree, pbOwed, pbCut, pbExcuse>>
    PROVE  PbInv'
<1> DEFINE key == pbWork[w].key
<1>1. /\ PbTyped /\ PbBlank /\ PbHandlersOk /\ PbOrderly /\ PbFilled /\ PbOwedIsHeld /\ PbBilledIsPassed
      /\ pbWork[w].at = "invoice" /\ PbHeld(pbWork[w]) /\ pbSub.plan # 0
  BY DEF PbInv, PbAt, PbBlank, PbHeld
<1>2. pbWork[w] \in PbBillings /\ key \in PbKeys /\ pbWork[w].paid \in BOOLEAN
  BY <1>1, PbWorkOf DEF PbBillings
<1>3. /\ pbWork' \in [PbWorkers -> PbWorks] /\ pbWork'[w] = r
      /\ \A v \in PbWorkers : v # w => pbWork'[v] = pbWork[v]
  BY <1>1, PbMoved
<1>4. \/ /\ pbWork[w].then = "advance" /\ r.at = "advance" /\ r.key = key /\ r.then = "advance"
         /\ r.end = pbWork[w].end /\ r.paid = pbWork[w].paid
      \/ r = PbIdle /\ pbWork[w].then = "idle" /\ r.at = "idle" /\ ~PbHeld(r)
  BY <1>2 DEF PbBillings, PbIdle, PbHeld
<1>5. pbInvoices \subseteq pbInvoices' /\ pbInvoices' \subseteq pbInvoices \cup {key} /\ (pbWork[w].paid = TRUE => key \in pbInvoices')
  BY <1>2
<1>6. PbTyped' /\ PbBlank'
  BY <1>1, <1>2, <1>3, <1>5 DEF PbTyped, PbBlank
<1>7. PbHandlersOk'
  <2>1. PbHandlerOk(pbWork[w])
    BY <1>1 DEF PbHandlersOk
  <2>2. PbHandlerOk(pbWork[w])'
    BY <1>1, <1>3, <1>4, <1>5, <2>1 DEF PbHandlerOk, PbHeld
  <2>3. ASSUME NEW v \in PbWorkers, v # w PROVE PbHandlerOk(pbWork[v])'
    BY <1>1, <1>3, <1>5, <2>3 DEF PbHandlersOk, PbHandlerOk
  <2> QED BY <2>2, <2>3 DEF PbHandlersOk
<1>8. \A k \in PbKeys : PbAbout(k)' => PbAbout(k)
  BY <1>1, <1>3, <1>4, <1>5 DEF PbAbout
<1>9. PbDue' = PbDue /\ pbSub' = pbSub /\ pbExcuse' = pbExcuse
  BY DEF PbDue
<1>10. PbOrderly'
  BY <1>1, <1>8, <1>9 DEF PbOrderly, PbOnTime, PbApart
<1>11. PbFilled'
  <2>1. ASSUME NEW n, PbCharged(n) PROVE PbCharged(n)'
    BY <1>5, <2>1, PbChargedStays
  <2>2. ASSUME NEW v \in PbWorkers, PbHeld(pbWork'[v]), pbWork'[v].then = "advance", NEW n, n = pbWork'[v].key.start
        PROVE  PbCharged(n)
    BY <1>1, <1>3, <1>4, <2>2 DEF PbFilled
  <2> QED BY <1>1, <2>1, <2>2 DEF PbFilled, PbCharged
<1>12. PbOwedIsHeld'
  <2>1. ASSUME NEW k \in pbOwed, NEW v \in PbWorkers,
               pbWork[v].at = "invoice" /\ pbWork[v].key = k /\ pbWork[v].paid = TRUE
        PROVE  k \in pbInvoices' \/ pbWork'[v] = pbWork[v]
    BY <1>3, <1>5, <2>1
  <2>2. ASSUME NEW k \in pbOwed
        PROVE  \/ k \in pbInvoices' \/ k \in pbCut
               \/ \E v \in PbWorkers : pbWork'[v].at = "invoice" /\ pbWork'[v].key = k /\ pbWork'[v].paid = TRUE
    <3>1. CASE k \in pbInvoices \/ k \in pbCut
      BY <1>5, <3>1
    <3>2. CASE \E v \in PbWorkers : pbWork[v].at = "invoice" /\ pbWork[v].key = k /\ pbWork[v].paid = TRUE
      <4>1. PICK v \in PbWorkers : pbWork[v].at = "invoice" /\ pbWork[v].key = k /\ pbWork[v].paid = TRUE
        BY <3>2
      <4>2. k \in pbInvoices' \/ pbWork'[v] = pbWork[v]
        BY <2>1, <4>1
      <4> QED BY <4>1, <4>2
    <3> QED BY <1>1, <3>1, <3>2 DEF PbOwedIsHeld
  <2> QED BY <2>2 DEF PbOwedIsHeld
<1>13. PbBilledIsPassed'
  <2>1. ASSUME pbExcuse = FALSE, NEW k \in pbInvoices', PbRecurs(k), k.start >= pbSub.next
        PROVE  k \in pbCut \/ \E v \in PbWorkers : pbWork'[v].at = "advance" /\ pbWork'[v].key = k
    <3>1. CASE k \in pbInvoices
      <4>1. CASE k \in pbCut
        BY <4>1
      <4>2. CASE \E v \in PbWorkers : PbAt(v, "advance") /\ pbWork[v].key = k
        BY <1>1, <1>3, <4>2 DEF PbAt
      <4> QED BY <1>1, <2>1, <3>1, <4>1, <4>2 DEF PbBilledIsPassed
    <3>2. CASE k \notin pbInvoices
      <4>1. k = key /\ PbAbout(k)
        BY <1>1, <1>5, <2>1, <3>2 DEF PbAbout
      <4>2. k = PbDue
        <5>1. PbUntil(k) <= pbSub.next \/ k = PbDue
          BY <1>1, <1>2, <2>1, <4>1 DEF PbOrderly, PbOnTime
        <5> QED BY <1>1, <1>2, <2>1, <4>1, <5>1, PbEndLater DEF PbTyped, PbSubs
      <4>3. pbWork[w].then = "advance"
        <5>1. PbDue.kind \in {"MONTHLY", "RENEWAL"}
          BY DEF PbDue, PbKey
        <5>2. pbWork[w].then = "idle" => key.kind \in {"PREPAY", "UPGRADE"}
          BY <1>1 DEF PbHandlersOk, PbHandlerOk
        <5>3. pbWork[w].then \in {"advance", "idle"}
          BY <1>2 DEF PbBillings
        <5> QED BY <4>1, <4>2, <5>1, <5>2, <5>3
      <4> QED BY <1>3, <1>4, <4>1, <4>3
    <3> QED BY <3>1, <3>2
  <2>2. (~pbExcuse' => pbExcuse = FALSE) /\ pbSub' = pbSub /\ pbCut' = pbCut
    BY <1>1 DEF PbTyped
  <2> QED BY <2>1, <2>2 DEF PbBilledIsPassed, PbAt
<1> QED BY <1>6, <1>7, <1>10, <1>11, <1>12, <1>13 DEF PbInv

\* So does any handler that comes to its invoice.
LEMMA PbInvoiceInv == ASSUME PbInv, NEW w \in PbWorkers, PbInvoice(w) PROVE PbInv'
<1> DEFINE r == pbWork[w]
<1> DEFINE refused == [at |-> "refused", key |-> r.key]
<1> DEFINE next == IF r.then = "advance" THEN [r EXCEPT !.at = "advance"] ELSE PbIdle
<1>1. PbTyped /\ r.at = "invoice" /\ PbHeld(r) /\ PbAt(w, "invoice") /\ PbBlank
  BY DEF PbInv, PbInvoice, PbAt, PbHeld
<1>2. r \in PbBillings /\ r.key \in PbKeys /\ r.paid \in BOOLEAN /\ pbSub.plan # 0 /\ pbSub \in PbSubs
  BY <1>1, PbWorkOf DEF PbBillings, PbBlank, PbTyped
<1>3. (r.paid <=> r.paid = TRUE) /\ (~r.paid <=> r.paid = FALSE)
  BY <1>2
<1>4. UNCHANGED <<pbDay, pbPaid, pbSub, pbFirst, pbFree, pbOwed, pbCut, pbExcuse>>
  BY DEF PbInvoice, pbHistory
<1>5. CASE r.paid = TRUE /\ r.key \in pbInvoices
  <2>1. PbGo(w, refused) /\ pbInvoices' = pbInvoices
    BY <1>3, <1>5 DEF PbInvoice, PbOnce
  <2>2. refused \in PbWorks /\ ~PbHeld(refused) /\ refused.at = "refused"
    BY <1>2 DEF PbWorks, PbHeld
  <2> HIDE DEF refused
  <2> QED BY <1>1, <1>2, <1>4, <1>5, <2>1, <2>2, PbRestsAt DEF PbBlank
<1>6. CASE ~(r.paid = TRUE /\ r.key \in pbInvoices)
  <2>1. PbGo(w, next) /\ pbInvoices' = IF r.paid = TRUE THEN pbInvoices \cup {r.key} ELSE pbInvoices
    BY <1>3, <1>6 DEF PbInvoice, PbOnce
  <2>2. next \in PbWorks
    BY <1>2 DEF PbBillings, PbWorks
  <2>3. r.paid = FALSE \/ r.key \notin pbInvoices
    BY <1>2, <1>6
  <2> QED BY <1>1, <1>4, <2>1, <2>2, <2>3, PbMakesInv
<1> QED BY <1>5, <1>6

\* The date moves to the end of the period that was billed or passed free.
LEMMA PbAdvanceInv == ASSUME PbInv, NEW w \in PbWorkers, PbAdvance(w) PROVE PbInv'
<1> DEFINE r == pbWork[w]
<1> DEFINE key == pbWork[w].key
<1>1. /\ PbTyped /\ PbBlank /\ PbHandlersOk /\ PbOrderly /\ PbFilled /\ PbOwedIsHeld /\ PbBilledIsPassed
      /\ r.at = "advance" /\ PbHeld(r) /\ pbSub.plan # 0
  BY DEF PbInv, PbAdvance, PbAt, PbBlank, PbHeld
<1>2. r \in PbBillings /\ key \in PbKeys /\ r.paid \in BOOLEAN /\ r.then \in {"advance", "idle"} /\ r.end \in Nat
  BY <1>1, PbWorkOf DEF PbBillings
<1>3. /\ r.then = "advance" /\ r.end = PbUntil(key) /\ PbRecurs(key)
      /\ r.paid = TRUE => key \in pbInvoices
  BY <1>1, <1>2 DEF PbHandlersOk, PbHandlerOk, PbRecurs
<1>4. /\ PbGo(w, PbIdle) /\ pbSub' = [pbSub EXCEPT !.next = r.end]
      /\ UNCHANGED <<pbDay, pbPaid, pbInvoices, pbFirst, pbOwed, pbCut>>
      /\ pbFree' = IF r.paid THEN pbFree ELSE pbFree \cup PbCovers(key)
      /\ pbExcuse' = (pbExcuse \/ pbSub.next # key.start)
  BY DEF PbAdvance, PbNextDate
<1>5. pbFree \subseteq pbFree' /\ (r.paid = TRUE \/ PbCovers(key) \subseteq pbFree')
  BY <1>2, <1>4
<1>6. pbExcuse' \in BOOLEAN /\ (pbExcuse' = FALSE => pbExcuse = FALSE /\ pbSub.next = key.start)
  BY <1>1, <1>4 DEF PbTyped
<1>7. /\ pbSub \in PbSubs /\ pbSub' \in PbSubs /\ pbSub'.plan = pbSub.plan /\ pbSub'.freq = pbSub.freq
      /\ pbSub'.next = PbUntil(key) /\ pbSub'.change = pbSub.change /\ pbSub.next \in Nat
  BY <1>1, <1>2, <1>3, <1>4 DEF PbTyped, PbSubs
<1>8. PbIdle \in PbWorks /\ ~PbHeld(PbIdle) /\ PbIdle.at = "idle"
  BY DEF PbWorks, PbIdle, PbHeld
<1>9. /\ pbWork' \in [PbWorkers -> PbWorks] /\ pbWork'[w] = PbIdle
      /\ \A v \in PbWorkers : v # w => pbWork'[v] = pbWork[v]
  BY <1>1, <1>4, <1>8, PbMoved
<1>10. PbTyped' /\ PbBlank'
  BY <1>1, <1>4, <1>6, <1>7, <1>9 DEF PbTyped, PbBlank
<1>11. PbHandlersOk'
  <2>1. ASSUME NEW v \in PbWorkers PROVE PbHandlerOk(pbWork[v])'
    BY <1>1, <1>4, <1>8, <1>9 DEF PbHandlersOk, PbHandlerOk
  <2> QED BY <2>1 DEF PbHandlersOk
<1>12. \A k \in PbKeys : PbAbout(k)' => PbAbout(k)
  BY <1>4, <1>8, <1>9 DEF PbAbout
<1>13. ASSUME pbExcuse' = FALSE
       PROVE  /\ PbOnTime /\ PbApart /\ PbDue.start = pbSub.next /\ pbSub.next < pbSub'.next /\ key = PbDue
              /\ \A k \in PbKeys : PbAbout(k) => PbUntil(k) <= pbSub'.next /\ k.start < pbSub'.next
  <2>1. PbOnTime /\ PbApart /\ pbSub.next = key.start
    BY <1>1, <1>6, <1>13 DEF PbOrderly
  <2>2. PbAbout(key)
    BY <1>1, <1>3 DEF PbAbout
  <2>3. pbSub.next < PbUntil(key) /\ PbUntil(key) \in Nat
    BY <1>2, <2>1, PbEndLater
  <2>4. key = PbDue
    BY <1>2, <1>7, <2>1, <2>2, <2>3 DEF PbOnTime
  <2>5. ASSUME NEW k \in PbKeys, PbAbout(k) PROVE PbUntil(k) <= pbSub'.next /\ k.start < pbSub'.next
    <3>1. PbUntil(k) <= pbSub.next \/ k = key
      BY <2>1, <2>4, <2>5 DEF PbOnTime
    <3> QED BY <1>7, <2>3, <3>1, PbEndLater
  <2> QED BY <1>7, <2>1, <2>3, <2>4, <2>5
<1>14. PbOrderly'
  <2>1. ASSUME pbExcuse' = FALSE PROVE PbOnTime' /\ PbApart'
    BY <1>12, <1>13, <2>1 DEF PbOnTime, PbApart
  <2> QED BY <2>1 DEF PbOrderly
<1>15. PbFilled'
  <2>1. ASSUME NEW n, PbCharged(n) PROVE PbCharged(n)'
    BY <1>4, <1>5, <2>1, PbChargedStays
  <2>2. PbCharged(key.start)
    BY <1>1, <1>3 DEF PbFilled
  <2>3. ASSUME NEW d \in pbFirst..(PbUntil(key) - 1)
        PROVE  d \in pbFree' \/ \E k \in pbInvoices \cup pbOwed : PbRecurs(k) /\ d \in PbCovers(k)
    <3>1. key.start \in Nat /\ PbUntil(key) \in Nat /\ pbFirst \in Nat
      BY <1>1, <1>2, PbEndLater DEF PbTyped
    <3>2. CASE d < key.start
      BY <1>5, <2>2, <3>1, <3>2 DEF PbCharged
    <3>3. CASE d >= key.start
      <4>1. d \in PbCovers(key)
        BY <3>1, <3>3 DEF PbCovers, PbUntil
      <4> QED BY <1>2, <1>3, <1>5, <4>1
    <3> QED BY <3>1, <3>2, <3>3
  <2>4. PbCharged(pbSub.next)'
    BY <1>4, <1>7, <2>3 DEF PbCharged
  <2>5. ASSUME NEW v \in PbWorkers, PbHeld(pbWork'[v]), pbWork'[v].then = "advance", NEW n, n = pbWork'[v].key.start
        PROVE  PbCharged(n)
    BY <1>1, <1>8, <1>9, <2>5 DEF PbFilled
  <2> QED BY <2>1, <2>4, <2>5 DEF PbFilled, PbCharged
<1>16. PbOwedIsHeld'
  BY <1>1, <1>4, <1>9 DEF PbOwedIsHeld
<1>17. PbBilledIsPassed'
  <2>1. ASSUME pbExcuse' = FALSE, NEW k \in pbInvoices, PbRecurs(k) PROVE k.start < pbSub'.next
    <3>1. k \in PbKeys /\ PbAbout(k)
      BY <1>1, <2>1 DEF PbTyped, PbAbout
    <3> QED BY <1>13, <2>1, <3>1
  <2>2. \A k \in pbInvoices : k.start \in Nat
    BY <1>1 DEF PbTyped, PbKeys
  <2>3. pbSub'.next \in Nat /\ pbInvoices' = pbInvoices /\ (~pbExcuse' => pbExcuse' = FALSE)
    BY <1>2, <1>3, <1>4, <1>6, <1>7
  <2>4. ASSUME pbExcuse' = FALSE, NEW k \in pbInvoices', PbRecurs(k) PROVE ~(k.start >= pbSub'.next)
    <3>1. k \in pbInvoices
      BY <2>3, <2>4
    <3>2. k.start < pbSub'.next /\ k.start \in Nat
      BY <2>1, <2>2, <2>4, <3>1
    <3> QED BY <2>3, <3>2
  <2> QED BY <2>3, <2>4 DEF PbBilledIsPassed
<1> QED BY <1>10, <1>11, <1>14, <1>15, <1>16, <1>17 DEF PbInv

\* A plan that changes when nothing of it is being billed leaves the periods in order.
LEMMA PbReplanOrderly ==
    ASSUME PbInv, NEW plan \in PbPlans, NEW freq \in PbFreqs, PbReplan(plan, freq),
           \A k \in PbKeys : PbAbout(k)' => PbAbout(k)
    PROVE  /\ pbSub' \in PbSubs /\ pbSub'.plan = plan /\ pbSub'.next = pbSub.next /\ pbSub'.change.plan = 0
           /\ pbExcuse' \in BOOLEAN /\ (pbExcuse' = FALSE => pbExcuse = FALSE) /\ PbOrderly'
<1>1. PbTyped /\ PbOrderly /\ pbSub \in PbSubs /\ pbExcuse \in BOOLEAN /\ pbSub.next \in Nat
  BY DEF PbInv, PbTyped, PbSubs
<1>2. /\ pbSub' \in PbSubs /\ pbSub'.plan = plan /\ pbSub'.freq = freq /\ pbSub'.next = pbSub.next /\ pbSub'.change.plan = 0
  BY <1>1 DEF PbReplan, PbSubs, PbNoChange, PbChanges, PbFreqs
<1>3. /\ pbExcuse' \in BOOLEAN
      /\ pbExcuse' = FALSE => pbExcuse = FALSE /\ (~PbMidway \/ (plan = pbSub.plan /\ freq = pbSub.freq))
  BY <1>1 DEF PbReplan
<1>4. ASSUME ~PbMidway, NEW k \in PbKeys, PbAbout(k) PROVE k.start < pbSub.next
  <2>1. ~\E v \in PbWorkers : PbHeld(pbWork[v]) /\ PbRecurs(pbWork[v].key)
    BY <1>4 DEF PbMidway, PbHeld
  <2>2. k \in pbInvoices /\ PbRecurs(k)
    BY <1>4, <2>1 DEF PbAbout
  <2>3. ~(k.start >= pbSub.next)
    BY <1>4, <2>2 DEF PbMidway
  <2> QED BY <1>1, <2>3, PbEndLater
<1>5. ASSUME pbExcuse' = FALSE PROVE PbOnTime' /\ PbApart'
  <2>1. PbOnTime /\ PbApart
    BY <1>1, <1>3, <1>5 DEF PbOrderly
  <2>2. CASE plan = pbSub.plan /\ freq = pbSub.freq
    <3>1. PbDue' = PbDue
      BY <1>2, <2>2 DEF PbDue
    <3> QED BY <1>2, <2>1, <3>1 DEF PbOnTime, PbApart
  <2>3. CASE ~PbMidway
    <3>1. ASSUME NEW k \in PbKeys, PbAbout(k) PROVE PbUntil(k) <= pbSub.next
      <4>1. k.start < pbSub.next /\ k.start \in Nat /\ (PbUntil(k) <= pbSub.next \/ k = PbDue)
        BY <1>4, <2>1, <2>3, <3>1, PbEndLater DEF PbOnTime
      <4>2. PbDue.start = pbSub.next
        BY DEF PbDue, PbKey
      <4> QED BY <1>1, <4>1, <4>2
    <3> QED BY <1>2, <2>1, <3>1 DEF PbOnTime, PbApart
  <2> QED BY <1>3, <1>5, <2>2, <2>3
<1> QED BY <1>2, <1>3, <1>5 DEF PbOrderly

\* A change that was due is made, whatever the subscription has become ...
LEMMA PbApplyInv == ASSUME PbInv, NEW w \in PbWorkers, PbApply(w) PROVE PbInv'
<1> DEFINE r == pbWork[w]
<1> DEFINE after == [r EXCEPT !.at = "list"]
<1>1. /\ PbTyped /\ PbBlank /\ PbHandlersOk /\ PbFilled /\ PbOwedIsHeld /\ PbBilledIsPassed
      /\ r.at = "apply" /\ ~PbHeld(r) /\ pbSub.plan # 0
  BY DEF PbInv, PbApply, PbAt, PbBlank, PbHeld
<1>2. r \in PbCycles /\ r.change \in PbChanges /\ r.change.plan # 0
  BY <1>1, PbWorkOf DEF PbCycles, PbHandlersOk, PbHandlerOk
<1>3. r.change.plan \in PbPlans /\ r.change.freq \in PbFreqs
  BY <1>2 DEF PbChanges
<1>4. /\ PbGo(w, after) /\ PbReplan(r.change.plan, r.change.freq)
      /\ UNCHANGED <<pbDay, pbPaid, pbInvoices, pbFirst, pbFree, pbOwed, pbCut>>
  BY DEF PbApply
<1>5. after \in PbCycles /\ after \in PbWorks /\ after.at = "list" /\ ~PbHeld(after)
  BY <1>2 DEF PbCycles, PbWorks, PbHeld
<1> HIDE DEF after
<1>6. /\ pbWork' \in [PbWorkers -> PbWorks] /\ pbWork'[w] = after
      /\ \A v \in PbWorkers : v # w => pbWork'[v] = pbWork[v]
  BY <1>1, <1>4, <1>5, PbMoved
<1>7. \A k \in PbKeys : PbAbout(k)' => PbAbout(k)
  BY <1>4, <1>5, <1>6 DEF PbAbout
<1>8. /\ pbSub' \in PbSubs /\ pbSub'.plan # 0 /\ pbSub'.next = pbSub.next
      /\ pbExcuse' \in BOOLEAN /\ (pbExcuse' = FALSE => pbExcuse = FALSE) /\ PbOrderly'
  BY <1>3, <1>4, <1>7, PbReplanOrderly, PbAssumption
<1>9. PbTyped' /\ PbBlank'
  BY <1>1, <1>4, <1>6, <1>8 DEF PbTyped, PbBlank
<1>10. PbHandlersOk'
  <2>1. ASSUME NEW v \in PbWorkers PROVE PbHandlerOk(pbWork[v])'
    BY <1>1, <1>4, <1>5, <1>6 DEF PbHandlersOk, PbHandlerOk, PbHeld
  <2> QED BY <2>1 DEF PbHandlersOk
<1>11. PbFilled'
  <2>1. ASSUME NEW n, PbCharged(n) PROVE PbCharged(n)'
    BY <1>4, <2>1, PbChargedStays
  <2>2. ASSUME NEW v \in PbWorkers, PbHeld(pbWork'[v]), pbWork'[v].then = "advance", NEW n, n = pbWork'[v].key.start
        PROVE  PbCharged(n)
    BY <1>1, <1>5, <1>6, <2>2 DEF PbFilled
  <2>3. PbCharged(pbSub.next)
    BY <1>1 DEF PbFilled
  <2> QED BY <1>8, <2>1, <2>2, <2>3 DEF PbFilled, PbCharged
<1>12. PbOwedIsHeld'
  BY <1>1, <1>4, <1>6 DEF PbOwedIsHeld
<1>13. PbBilledIsPassed'
  <2>1. (~pbExcuse' => ~pbExcuse) /\ pbSub'.next = pbSub.next /\ pbInvoices' = pbInvoices /\ pbCut' = pbCut
    BY <1>1, <1>4, <1>8 DEF PbTyped
  <2> QED BY <1>1, <1>6, <2>1 DEF PbBilledIsPassed, PbAt
<1> QED BY <1>8, <1>9, <1>10, <1>11, <1>12, <1>13 DEF PbInv

\* ... and an upgrade at once; its handler holds what it owes.
LEMMA PbUpgradeInv == ASSUME PbInv, NEW w \in PbWorkers, PbUpgrade(w) PROVE PbInv'
<1> DEFINE r == pbWork[w]
<1> DEFINE key == PbKey("UPGRADE", r.now, r.plan)
<1> DEFINE after == [at |-> "invoice", paid |-> r.paid, key |-> key, then |-> "idle", end |-> 0]
<1>1. /\ PbTyped /\ PbBlank /\ PbHandlersOk /\ PbFilled /\ PbOwedIsHeld /\ PbBilledIsPassed
      /\ r.at = "upgrade" /\ ~PbHeld(r) /\ pbSub.plan # 0
  BY DEF PbInv, PbUpgrade, PbAt, PbBlank, PbHeld
<1>2. /\ r \in PbRequests /\ r.plan \in PbPlans /\ r.now \in Nat /\ r.paid \in BOOLEAN
      /\ pbSub.freq \in PbFreqs
  BY <1>1, PbWorkOf DEF PbRequests, PbTyped, PbSubs
<1>3. key \in PbKeys /\ ~PbRecurs(key) /\ key.kind = "UPGRADE"
  BY <1>2 DEF PbKey, PbKeys, PbRecurs
<1>4. /\ PbGo(w, after) /\ PbReplan(r.plan, pbSub.freq)
      /\ pbOwed' = IF r.paid THEN pbOwed \cup {key} ELSE pbOwed
      /\ UNCHANGED <<pbDay, pbPaid, pbInvoices, pbFirst, pbFree, pbCut>>
  BY DEF PbUpgrade, PbCharge
<1> HIDE DEF key
<1>5. after \in PbBillings /\ after \in PbWorks
  BY <1>2, <1>3 DEF PbBillings, PbWorks
<1>6. after.at = "invoice" /\ after.key = key /\ after.then = "idle" /\ after.paid = r.paid
  OBVIOUS
<1> HIDE DEF after
<1>7. /\ pbWork' \in [PbWorkers -> PbWorks] /\ pbWork'[w] = after
      /\ \A v \in PbWorkers : v # w => pbWork'[v] = pbWork[v]
  BY <1>1, <1>4, <1>5, PbMoved
<1>8. \A k \in PbKeys : PbAbout(k)' => PbAbout(k)
  BY <1>3, <1>4, <1>6, <1>7 DEF PbAbout
<1>9. /\ pbSub' \in PbSubs /\ pbSub'.plan # 0 /\ pbSub'.next = pbSub.next
      /\ pbExcuse' \in BOOLEAN /\ (pbExcuse' = FALSE => pbExcuse = FALSE) /\ PbOrderly'
  BY <1>2, <1>4, <1>8, PbReplanOrderly, PbAssumption
<1>10. pbOwed \subseteq pbOwed' /\ pbOwed' \subseteq pbOwed \cup {key} /\ (key \in pbOwed' /\ key \notin pbOwed => r.paid = TRUE)
  BY <1>2, <1>4
<1>11. PbTyped' /\ PbBlank'
  BY <1>1, <1>3, <1>4, <1>7, <1>9, <1>10 DEF PbTyped, PbBlank
<1>12. PbHandlersOk'
  <2>1. ASSUME NEW v \in PbWorkers PROVE PbHandlerOk(pbWork[v])'
    BY <1>1, <1>3, <1>4, <1>6, <1>7 DEF PbHandlersOk, PbHandlerOk, PbHeld
  <2> QED BY <2>1 DEF PbHandlersOk
<1>13. PbFilled'
  <2>1. ASSUME NEW n, PbCharged(n) PROVE PbCharged(n)'
    BY <1>4, <1>10, <2>1, PbChargedStays
  <2>2. ASSUME NEW v \in PbWorkers, PbHeld(pbWork'[v]), pbWork'[v].then = "advance", NEW n, n = pbWork'[v].key.start
        PROVE  PbCharged(n)
    BY <1>1, <1>6, <1>7, <2>2 DEF PbFilled
  <2>3. PbCharged(pbSub.next)
    BY <1>1 DEF PbFilled
  <2> QED BY <1>9, <2>1, <2>2, <2>3 DEF PbFilled, PbCharged
<1>14. PbOwedIsHeld'
  <2>1. ASSUME NEW k \in pbOwed
        PROVE  \/ k \in pbInvoices \/ k \in pbCut
               \/ \E v \in PbWorkers : pbWork'[v].at = "invoice" /\ pbWork'[v].key = k /\ pbWork'[v].paid = TRUE
    BY <1>1, <1>7 DEF PbOwedIsHeld
  <2>2. ASSUME key \in pbOwed', key \notin pbOwed
        PROVE  \E v \in PbWorkers : pbWork'[v].at = "invoice" /\ pbWork'[v].key = key /\ pbWork'[v].paid = TRUE
    BY <1>6, <1>7, <1>10, <2>2
  <2> QED BY <1>4, <1>10, <2>1, <2>2 DEF PbOwedIsHeld
<1>15. PbBilledIsPassed'
  <2>1. (~pbExcuse' => ~pbExcuse) /\ pbSub'.next = pbSub.next /\ pbInvoices' = pbInvoices /\ pbCut' = pbCut
    BY <1>1, <1>4, <1>9 DEF PbTyped
  <2> QED BY <1>1, <1>7, <2>1 DEF PbBilledIsPassed, PbAt
<1> QED BY <1>9, <1>11, <1>12, <1>13, <1>14, <1>15 DEF PbInv

\* The first subscription begins where nothing was billed; a year is owed, or free, at once.
LEMMA PbCreateInv == ASSUME PbInv, NEW w \in PbWorkers, PbCreate(w) PROVE PbInv'
<1> DEFINE r == pbWork[w]
<1> DEFINE key == PbKey("PREPAY", r.now, r.plan)
<1> DEFINE after == [at |-> "invoice", paid |-> r.paid, key |-> key, then |-> "idle", end |-> 0]
<1>1. PbTyped /\ PbBlank /\ PbHandlersOk /\ PbOrderly /\ PbOwedIsHeld /\ r.at = "create" /\ ~PbHeld(r)
  BY DEF PbInv, PbCreate, PbAt, PbHeld
<1>2. /\ r \in PbRequests /\ r.plan \in PbPlans /\ r.plan # 0 /\ r.freq \in PbFreqs /\ r.now \in Nat /\ r.paid \in BOOLEAN
      /\ pbSub \in PbSubs
  BY <1>1, PbWorkOf, PbAssumption DEF PbRequests, PbTyped
<1>3. UNCHANGED <<pbDay, pbPaid, pbInvoices, pbCut, pbExcuse>>
  BY DEF PbCreate
<1>4. PbIdle \in PbWorks /\ ~PbHeld(PbIdle) /\ PbIdle.at = "idle"
  BY DEF PbWorks, PbIdle, PbHeld
<1>5. CASE pbSub.plan # 0
  <2>1. PbGo(w, PbIdle) /\ UNCHANGED <<pbSub, pbFirst, pbFree, pbOwed>>
    BY <1>5 DEF PbCreate
  <2> QED BY <1>1, <1>2, <1>3, <1>4, <1>5, <2>1, PbRestsAt
<1>6. CASE pbSub.plan = 0
  <2>1. /\ pbSub' = PbSub(r.plan, r.freq, PbEnd(r.freq, r.now)) /\ PbEnd(r.freq, r.now) \in Nat
        /\ pbInvoices = {} /\ pbOwed = {} /\ \A v \in PbWorkers : ~PbHeld(pbWork[v]) /\ pbWork[v].at \in {"idle", "list", "create"}
    BY <1>1, <1>2, <1>6, PbEndLater DEF PbCreate, PbBlank, PbHeld
  <2>2. pbSub' \in PbSubs /\ pbSub'.plan # 0 /\ pbSub'.next = PbEnd(r.freq, r.now) /\ pbSub'.next \in Nat
    BY <1>2, <2>1 DEF PbSub, PbSubs, PbNoChange, PbChanges, PbFreqs
  <2>3. CASE r.freq # "ANNUAL"
    <3>1. PbGo(w, PbIdle) /\ pbFirst' = PbNextMonth(r.now) /\ UNCHANGED <<pbFree, pbOwed>>
      BY <1>6, <2>3 DEF PbCreate
    <3>2. /\ pbWork' \in [PbWorkers -> PbWorks] /\ pbWork'[w] = PbIdle
          /\ \A v \in PbWorkers : v # w => pbWork'[v] = pbWork[v]
      BY <1>1, <1>4, <3>1, PbMoved
    <3>3. \A v \in PbWorkers : ~PbHeld(pbWork'[v]) /\ pbWork'[v].at \in {"idle", "list", "create"}
      BY <1>4, <2>1, <3>2
    <3>4. pbFirst' = pbSub'.next /\ pbFirst' \in Nat
      BY <1>2, <2>2, <2>3, <3>1 DEF PbEnd
    <3>5. PbTyped' /\ PbBlank'
      BY <1>1, <1>3, <2>2, <3>1, <3>2, <3>4 DEF PbTyped, PbBlank
    <3>6. PbHandlersOk'
      BY <3>3 DEF PbHandlersOk, PbHandlerOk, PbHeld
    <3>7. \A k \in PbKeys : ~PbAbout(k)'
      BY <1>3, <2>1, <3>3 DEF PbAbout
    <3>8. PbOrderly' /\ PbOwedIsHeld' /\ PbBilledIsPassed'
      BY <1>3, <2>1, <3>1, <3>7 DEF PbOrderly, PbOnTime, PbApart, PbOwedIsHeld, PbBilledIsPassed
    <3>9. PbCharged(pbSub.next)'
      BY <2>2, <3>4 DEF PbCharged
    <3> QED BY <3>3, <3>5, <3>6, <3>8, <3>9 DEF PbInv, PbFilled
  <2>4. CASE r.freq = "ANNUAL"
    <3>1. /\ PbGo(w, after) /\ pbFirst' = r.now
          /\ pbOwed' = IF r.paid THEN {key} ELSE {}
          /\ pbFree' = IF r.paid THEN pbFree ELSE PbCovers(key)
      BY <1>6, <2>1, <2>4 DEF PbCreate, PbCharge
    <3>2. /\ key \in PbKeys /\ PbRecurs(key) /\ key.kind = "PREPAY" /\ key.start = r.now
          /\ PbUntil(key) = pbSub'.next
      BY <1>2, <2>2, <2>4 DEF PbKey, PbKeys, PbRecurs, PbUntil
    <3> HIDE DEF key
    <3>3. after \in PbBillings /\ after \in PbWorks
      BY <1>2, <3>2 DEF PbBillings, PbWorks
    <3>4. after.at = "invoice" /\ after.key = key /\ after.then = "idle" /\ after.paid = r.paid
      OBVIOUS
    <3> HIDE DEF after
    <3>5. /\ pbWork' \in [PbWorkers -> PbWorks] /\ pbWork'[w] = after
          /\ \A v \in PbWorkers : v # w => pbWork'[v] = pbWork[v]
      BY <1>1, <3>1, <3>3, PbMoved
    <3>6. \A v \in PbWorkers : v # w => ~PbHeld(pbWork'[v]) /\ pbWork'[v].at \in {"idle", "list", "create"}
      BY <2>1, <3>5
    <3>7. pbOwed' \subseteq {key} /\ (key \in pbOwed' => r.paid = TRUE) /\ (r.paid = TRUE => key \in pbOwed')
      BY <1>2, <3>1
    <3>8. r.paid = TRUE \/ PbCovers(key) \subseteq pbFree'
      BY <1>2, <3>1
    <3>9. PbTyped' /\ PbBlank'
      BY <1>1, <1>2, <1>3, <2>2, <3>1, <3>2, <3>5, <3>7 DEF PbTyped, PbBlank
    <3>10. PbHandlersOk'
      <4>1. ASSUME NEW v \in PbWorkers PROVE PbHandlerOk(pbWork[v])'
        BY <3>2, <3>4, <3>5, <3>6 DEF PbHandlerOk, PbHeld
      <4> QED BY <4>1 DEF PbHandlersOk
    <3>11. \A k \in PbKeys : PbAbout(k)' => k = key
      BY <1>3, <2>1, <3>4, <3>5, <3>6 DEF PbAbout
    <3>12. PbOrderly'
      BY <2>2, <3>2, <3>11 DEF PbOrderly, PbOnTime, PbApart
    <3>13. PbCharged(pbSub.next)'
      <4>1. ASSUME NEW d \in pbFirst'..(pbSub'.next - 1)
            PROVE  d \in pbFree' \/ \E k \in pbInvoices' \cup pbOwed' : PbRecurs(k) /\ d \in PbCovers(k)
        <5>1. d \in PbCovers(key)
          BY <2>2, <3>1, <3>2 DEF PbCovers, PbUntil
        <5> QED BY <1>2, <3>2, <3>7, <3>8, <5>1
      <4> QED BY <4>1 DEF PbCharged
    <3>14. PbFilled'
      <4>1. \A v \in PbWorkers : ~(PbHeld(pbWork'[v]) /\ pbWork'[v].then = "advance")
        BY <3>4, <3>5, <3>6
      <4> QED BY <3>13, <4>1 DEF PbFilled
    <3>15. PbOwedIsHeld'
      BY <3>4, <3>5, <3>7 DEF PbOwedIsHeld
    <3>16. PbBilledIsPassed'
      BY <1>3, <2>1 DEF PbBilledIsPassed
    <3> QED BY <3>9, <3>10, <3>12, <3>14, <3>15, <3>16 DEF PbInv
  <2> QED BY <2>3, <2>4
<1> QED BY <1>5, <1>6

\* Every step keeps it.
LEMMA PbStepInv == PbInv /\ [PbNext]_pbVars => PbInv'
<1> SUFFICES ASSUME PbInv, [PbNext]_pbVars PROVE PbInv'
  OBVIOUS
<1>1. CASE PbTomorrow \/ PbMode \/ PbStanding
  BY <1>1, PbAroundInv
<1>2. ASSUME NEW w \in PbWorkers, PbBegin(w) \/ PbApply(w) \/ PbList(w) \/ PbLoad(w) PROVE PbInv'
  BY <1>2, PbBeginInv, PbApplyInv, PbListInv, PbLoadInv
<1>3. ASSUME NEW w \in PbWorkers, PbInvoice(w) \/ PbAdvance(w) \/ PbRefuse(w) \/ PbStop(w) PROVE PbInv'
  BY <1>3, PbInvoiceInv, PbAdvanceInv, PbEndInv
<1>4. ASSUME NEW w \in PbWorkers, NEW plan \in PbPlans, NEW freq \in {"MONTHLY", "ANNUAL"}, PbAsk(w, plan, freq) PROVE PbInv'
  BY <1>4, PbAskInv DEF PbFreqs
<1>5. ASSUME NEW w \in PbWorkers, PbCreate(w) \/ PbSchedule(w) \/ PbUpgrade(w) PROVE PbInv'
  BY <1>5, PbCreateInv, PbScheduleInv, PbUpgradeInv
<1>6. CASE UNCHANGED pbVars
  BY <1>6, PbStutterInv
<1> QED BY <1>1, <1>2, <1>3, <1>4, <1>5, <1>6 DEF PbNext

\* It holds of a partner with a plan that was never billed, and of one without.
LEMMA PbInitInv == PbInit => PbInv
<1> SUFFICES ASSUME PbInit PROVE PbInv
  OBVIOUS
<1>1. /\ pbDay = 0 /\ pbPaid = TRUE /\ pbInvoices = {} /\ pbWork = [w \in PbWorkers |-> PbIdle]
      /\ pbFirst = PbMonth /\ pbFree = {} /\ pbOwed = {} /\ pbExcuse = FALSE
  BY DEF PbInit
<1>2. PbMonth \in Nat /\ PbIdle \in PbWorks /\ PbIdle.at = "idle" /\ ~PbHeld(PbIdle)
  BY PbAssumption DEF PbWorks, PbIdle, PbHeld
<1>3. PICK p \in PbPlans \cup {0}, f \in PbFreqs, n \in {0, PbMonth} :
         pbSub = PbSub(p, f, n) /\ (p # 0 => n = PbMonth)
  <2>1. CASE pbSub = PbNone
    BY <2>1 DEF PbNone, PbFreqs
  <2>2. CASE pbSub \in {PbSub(p, f, PbMonth) : p \in PbPlans, f \in {"MONTHLY", "ANNUAL"}}
    BY <2>2 DEF PbFreqs
  <2> QED BY <2>1, <2>2 DEF PbInit
<1>4. /\ pbSub \in PbSubs /\ pbSub.change.plan = 0 /\ pbSub.plan = p /\ pbSub.next = n
  BY <1>2, <1>3 DEF PbSub, PbSubs, PbNoChange, PbChanges, PbFreqs
<1>5. PbTyped /\ PbBlank
  BY <1>1, <1>2, <1>4 DEF PbTyped, PbBlank
<1>6. PbHandlersOk /\ \A k \in PbKeys : ~PbAbout(k)
  BY <1>1, <1>2 DEF PbHandlersOk, PbHandlerOk, PbHeld, PbAbout
<1>7. PbOrderly /\ PbOwedIsHeld /\ PbBilledIsPassed
  BY <1>1, <1>6 DEF PbOrderly, PbOnTime, PbApart, PbOwedIsHeld, PbBilledIsPassed
<1>8. PbFilled
  BY <1>1, <1>2, <1>3, <1>4 DEF PbFilled, PbCharged
<1> QED BY <1>5, <1>6, <1>7, <1>8 DEF PbInv

(* What the plans' billing answers for, for any plans, lengths of month and *)
(* year and numbers of cycles and requests at once: no day is charged       *)
(* twice, none before the next billing date is left out however late the    *)
(* cycles come, what a subscription or an upgrade owes is charged, and what *)
(* was billed is passed, but for the exceptions named there                 *)
(* (runPlanBillingCycle, partnerPlan, createPlanInvoice).                   *)
THEOREM PeriodsAreBilledOnce == PbSpec => []PlanBillingSafe
<1>1. PbInv => PlanBillingSafe
  <2> SUFFICES ASSUME PbInv PROVE PlanBillingSafe
    OBVIOUS
  <2>1. PbTyped /\ pbInvoices \subseteq PbKeys /\ pbExcuse \in BOOLEAN
    BY DEF PbInv, PbTyped
  <2>2. PbBilledOnce
    <3>1. ASSUME pbExcuse = FALSE, NEW k \in pbInvoices, NEW l \in pbInvoices, PbRecurs(k), PbRecurs(l), k # l
          PROVE  PbCovers(k) \cap PbCovers(l) = {}
      <4>1. PbAbout(k) /\ PbAbout(l) /\ k \in PbKeys /\ l \in PbKeys
        BY <2>1, <3>1 DEF PbAbout
      <4>2. PbUntil(k) <= l.start \/ PbUntil(l) <= k.start
        BY <3>1, <4>1 DEF PbInv, PbOrderly, PbApart
      <4>3. PbUntil(k) \in Nat /\ PbUntil(l) \in Nat /\ k.start \in Nat /\ l.start \in Nat
        BY <4>1, PbEndLater
      <4>4. PbCovers(k) = k.start..(PbUntil(k) - 1) /\ PbCovers(l) = l.start..(PbUntil(l) - 1)
        BY DEF PbCovers, PbUntil
      <4> QED BY <4>2, <4>3, <4>4
    <3> QED BY <2>1, <3>1 DEF PbBilledOnce
  <2>3. PbNoGap
    <3>1. ASSUME pbSub.plan # 0, NEW d \in pbFirst..(pbSub.next - 1)
          PROVE  d \in pbFree \cup UNION {PbCovers(k) : k \in {i \in pbInvoices \cup pbOwed : PbRecurs(i)}}
      <4>1. d \in pbFree \/ \E k \in pbInvoices \cup pbOwed : PbRecurs(k) /\ d \in PbCovers(k)
        BY <3>1 DEF PbInv, PbFilled, PbCharged
      <4> QED BY <4>1
    <3> QED BY <3>1 DEF PbNoGap
  <2>4. PbOwedIsMade
    BY DEF PbInv, PbOwedIsHeld, PbOwedIsMade, PbAt
  <2> QED BY <2>2, <2>3, <2>4 DEF PlanBillingSafe, PbInv
<1> QED BY <1>1, PbInitInv, PbStepInv, PTL DEF PbSpec
-------------------------------------------------------------------------------
(* PortalGate: the review of a partner *)

\* What the row, the invoices and a handler may be.
PgEveryState ==
    {"REGISTERED", "PENDING_REVIEW", "CLASSIFIED", "INVOICE_PENDING", "PAYMENT_PENDING", "ADMIN_APPROVAL", "ACTIVE"}
PgTargets == {"INVOICE_PENDING", "PAYMENT_PENDING", "ADMIN_APPROVAL"}
PgRows == [state : PgEveryState, class : PgClasses, portal : BOOLEAN]
PgTos == {"APPROVED", "SENT", "PAID", "CANCELLED"}
PgFlowRows == [flow : {"NONE", "DRAFT"} \cup PgTos, entries : SUBSET PgTos]
PgPatches == [at : {"check", "write"}, next : PgEveryState, class : PgClasses, stale : BOOLEAN]
PgAdvances == [at : {"require", "move"}, next : PgTargets, stale : BOOLEAN]
PgDrafts == [at : {"create"}, stale : BOOLEAN, moves : BOOLEAN]
PgOperations == [at : {"flow"}, invoice : PgInvoices, from : {"DRAFT", "APPROVED", "SENT"}, to : PgTos]
PgWorks == {PgIdle} \cup PgPatches \cup [at : {"advance"}, next : PgTargets] \cup PgAdvances \cup PgDrafts \cup PgOperations

PgTyped ==
    /\ pgRow \in PgRows /\ pgWaiver \in BOOLEAN /\ pgOverlap \in BOOLEAN
    /\ pgInvoice \in [PgInvoices -> PgFlowRows] /\ pgWork \in [PgWorkers -> PgWorks]

\* An invoice that is sent was entered as sent, which is never taken back.
PgSentIsEntered == \A i \in PgInvoices : pgInvoice[i].flow = "SENT" => PgSent(i)
PgAnySent == \E i \in PgInvoices : PgSent(i)

\* What a handler may rely on: of the row, while nobody has written it since; of what it has
\* asked the tables, always or unless a payment was written over.
PgFresh(r) ==
    /\ r.at \in {"check", "write", "require", "move"} => PgAllowed(pgRow.state, r.next)
    /\ r.at \in {"require", "move"} => pgRow.class = "PAID"
    /\ r.at = "create" /\ r.moves = TRUE => pgRow.state = "CLASSIFIED"
PgAsked(r) ==
    /\ r.at \in {"write", "move"} /\ r.next = "PAYMENT_PENDING" => PgAnySent
    /\ r.at = "write" /\ r.next = "ADMIN_APPROVAL" /\ r.class = "CHARITY" => pgWaiver = TRUE
    /\ r.at = "write" /\ r.next = "ADMIN_APPROVAL" /\ r.class = "PAID" => pgOverlap = TRUE \/ PgHas("PAID")
    /\ r.at = "move" /\ r.next = "ADMIN_APPROVAL" => pgOverlap = TRUE \/ PgHas("PAID")
PgHandlerOk(w) ==
    /\ pgWork[w].at \in PgHolds /\ pgWork[w].stale = FALSE => PgFresh(pgWork[w])
    /\ PgAsked(pgWork[w])
PgHandlersOk == \A w \in PgWorkers : PgHandlerOk(w)

\* What the row may say.
PgRowOk(row) ==
    /\ row.state = "ACTIVE" => row.portal = TRUE
    /\ row.state = "PAYMENT_PENDING" => PgAnySent
    /\ pgOverlap = FALSE =>
          /\ row.portal = TRUE => row.state = "ACTIVE"
          /\ row.state = "ADMIN_APPROVAL" /\ row.class = "PAID" => PgHas("PAID")
          /\ row.state = "ADMIN_APPROVAL" /\ row.class = "CHARITY" => pgWaiver = TRUE

PgInv == PgTyped /\ PgSentIsEntered /\ PgHandlersOk /\ PgRowOk(pgRow)

\* What a step may do to what the review relies on: only a payment that is written over is lost.
PgGrows ==
    /\ PgAnySent => PgAnySent'
    /\ pgWaiver = TRUE => pgWaiver' = TRUE
    /\ pgOverlap = TRUE => pgOverlap' = TRUE
    /\ PgHas("PAID") => pgOverlap' = TRUE \/ PgHas("PAID")'
\* A step that keeps the row, and moves one worker.
PgMovesOne(w) ==
    /\ pgRow' = pgRow /\ pgWork' \in [PgWorkers -> PgWorks]
    /\ \A v \in PgWorkers : v # w => pgWork'[v] = pgWork[v]

\* The table of transitions mentions every state.
LEMMA PgStatesAreAll == PgStates = PgEveryState
BY DEF PgStates, PgMoves, PgEveryState

\* What the table says of the ways an invoice can take.
LEMMA PgTable ==
    ASSUME NEW next \in PgTargets
    PROVE  /\ ~PgAllowed("ACTIVE", next) /\ PgAllowed("CLASSIFIED", "INVOICE_PENDING")
           /\ \A s : PgAllowed(s, s)
           /\ next \in PgEveryState /\ next # "ACTIVE"
BY DEF PgTargets, PgAllowed, PgMoves, PgEveryState

\* A worker's record is one of a few kinds.
LEMMA PgWorkKinds ==
    ASSUME NEW r \in PgWorks
    PROVE  /\ r.at \in {"idle", "check", "write", "advance", "require", "move", "create", "flow"}
           /\ r.at \in {"check", "write"} => r \in PgPatches
           /\ r.at = "advance" => r \in [at : {"advance"}, next : PgTargets]
           /\ r.at \in {"require", "move"} => r \in PgAdvances
           /\ r.at = "create" => r \in PgDrafts
           /\ r.at = "flow" => r \in PgOperations
BY DEF PgWorks, PgIdle, PgPatches, PgAdvances, PgDrafts, PgOperations

\* An invoice that was sent shows that one was.
LEMMA PgSentShows == ASSUME PgInv, PgHas("SENT") PROVE PgAnySent
BY DEF PgInv, PgSentIsEntered, PgHas, PgAnySent

\* What is true of a worker stays so while the row and the worker do not change.
LEMMA PgHandlerStays ==
    ASSUME NEW v \in PgWorkers, PgHandlerOk(v), PgGrows, pgRow' = pgRow, pgWork'[v] = pgWork[v]
    PROVE  PgHandlerOk(v)'
<1> DEFINE r == pgWork[v]
<1>1. PICK s : s = pgWork[v] OBVIOUS
<1>2. s = pgWork'[v] BY <1>1
<1>3. s.at \in PgHolds /\ s.stale = FALSE => PgFresh(s)' BY <1>1 DEF PgHandlerOk, PgFresh
<1>4. PgAsked(s)' BY <1>1 DEF PgHandlerOk, PgAsked, PgGrows
<1> QED BY <1>2, <1>3, <1>4 DEF PgHandlerOk

\* What the row says stays true.
LEMMA PgRowStays ==
    ASSUME PgRowOk(pgRow), PgGrows, pgRow' = pgRow, pgOverlap' \in BOOLEAN, pgOverlap \in BOOLEAN
    PROVE  PgRowOk(pgRow)'
BY DEF PgRowOk, PgGrows

\* A step that keeps the row keeps the invariant if the worker it moves may rely on what it relies on.
LEMMA PgQuietStep ==
    ASSUME PgInv, NEW w \in PgWorkers, PgMovesOne(w), PgGrows, PgSentIsEntered', PgHandlerOk(w)',
           pgInvoice' \in [PgInvoices -> PgFlowRows], pgWaiver' \in BOOLEAN, pgOverlap' \in BOOLEAN
    PROVE  PgInv'
<1>1. PgTyped' BY DEF PgInv, PgTyped, PgMovesOne
<1>2. PgRowOk(pgRow)' BY PgRowStays DEF PgInv, PgTyped, PgMovesOne
<1>3. ASSUME NEW v \in PgWorkers PROVE PgHandlerOk(v)'
    BY <1>3, PgHandlerStays DEF PgInv, PgHandlersOk, PgMovesOne
<1> QED BY <1>1, <1>2, <1>3 DEF PgInv, PgHandlersOk

\* The end of a handler tells whoever has read the row that it has changed.
LEMMA PgEndKeeps ==
    ASSUME PgInv, NEW w \in PgWorkers, NEW row \in PgRows, PgEnd(w, row), PgGrows
    PROVE  PgHandlersOk' /\ pgWork' \in [PgWorkers -> PgWorks] /\ pgOverlap' \in BOOLEAN /\ pgRow' \in PgRows
<1>t. pgWork \in [PgWorkers -> PgWorks] /\ pgOverlap \in BOOLEAN BY DEF PgInv, PgTyped
<1>1. \A v \in PgWorkers :
          pgWork'[v] = IF v = w THEN PgIdle
                       ELSE IF row # pgRow /\ pgWork[v].at \in PgHolds THEN [pgWork[v] EXCEPT !.stale = TRUE]
                       ELSE pgWork[v]
    BY DEF PgEnd
<1>2. ASSUME NEW v \in PgWorkers, v # w, row # pgRow, pgWork[v].at \in PgHolds
      PROVE  PgHandlerOk(v)' /\ pgWork'[v] \in PgWorks
    <2>1. PICK r : r = pgWork[v] OBVIOUS
    <2>2. r \in PgWorks BY <2>1, <1>t
    <2>3. r \in PgPatches \cup PgAdvances \cup PgDrafts BY <2>1, <2>2, <1>2, PgWorkKinds DEF PgHolds
    <2>4. PICK s : s = pgWork'[v] OBVIOUS
    <2>5. s = [r EXCEPT !.stale = TRUE] BY <1>1, <1>2, <2>1, <2>4
    <2>6. s \in PgPatches \cup PgAdvances \cup PgDrafts /\ s.stale = TRUE
        BY <2>3, <2>5 DEF PgPatches, PgAdvances, PgDrafts
    <2>7. s.at = r.at BY <2>3, <2>5 DEF PgPatches, PgAdvances, PgDrafts
    <2>8. PgAsked(r) BY <2>1 DEF PgInv, PgHandlersOk, PgHandlerOk
    <2>9. PgAsked(s)'
        <3>1. CASE r \in PgPatches
            <4>1. s.next = r.next /\ s.class = r.class BY <2>5, <3>1 DEF PgPatches
            <4> QED BY <2>7, <2>8, <4>1 DEF PgAsked, PgGrows
        <3>2. CASE r \in PgAdvances
            <4>1. s.next = r.next /\ r.at # "write" BY <2>5, <3>2 DEF PgAdvances
            <4> QED BY <2>7, <2>8, <4>1 DEF PgAsked, PgGrows
        <3>3. CASE r \in PgDrafts BY <2>7, <3>3 DEF PgAsked, PgDrafts
        <3> QED BY <2>3, <3>1, <3>2, <3>3
    <2> QED BY <2>4, <2>6, <2>9 DEF PgHandlerOk, PgWorks
<1>3. ASSUME NEW v \in PgWorkers, v # w, ~(row # pgRow /\ pgWork[v].at \in PgHolds)
      PROVE  PgHandlerOk(v)' /\ pgWork'[v] \in PgWorks
    <2>1. pgWork'[v] = pgWork[v] /\ pgWork[v] \in PgWorks BY <1>1, <1>3, <1>t
    <2>2. CASE row = pgRow BY <2>1, <2>2, PgHandlerStays DEF PgEnd, PgInv, PgHandlersOk
    <2>3. CASE pgWork[v].at \notin PgHolds
        <3>1. PICK r : r = pgWork[v] OBVIOUS
        <3>2. r.at \notin PgHolds /\ r = pgWork'[v] BY <3>1, <2>1, <2>3
        <3>3. PgAsked(r)' BY <3>2 DEF PgAsked, PgHolds
        <3> QED BY <3>2, <3>3, <2>1 DEF PgHandlerOk
    <2> QED BY <1>3, <2>2, <2>3
<1>4. PgHandlerOk(w)' /\ pgWork'[w] \in PgWorks
    <2>1. pgWork'[w] = PgIdle BY <1>1
    <2> QED BY <2>1 DEF PgHandlerOk, PgIdle, PgAsked, PgHolds, PgWorks
<1>5. pgWork' \in [PgWorkers -> PgWorks]
    <2>1. \A v \in PgWorkers : pgWork'[v] \in PgWorks BY <1>2, <1>3, <1>4
    <2> QED BY <2>1 DEF PgEnd
<1>6. pgOverlap' \in BOOLEAN /\ pgRow' \in PgRows BY <1>t DEF PgEnd
<1> QED BY <1>2, <1>3, <1>4, <1>5, <1>6 DEF PgHandlersOk

\* The end of a handler keeps the invariant if the row it writes says what is so.
LEMMA PgEndStep ==
    ASSUME PgInv, NEW w \in PgWorkers, NEW row \in PgRows, PgEnd(w, row), PgGrows, PgSentIsEntered',
           PgRowOk(row)', pgInvoice' \in [PgInvoices -> PgFlowRows], pgWaiver' \in BOOLEAN
    PROVE  PgInv'
<1>1. PgTyped' /\ PgHandlersOk' BY PgEndKeeps DEF PgTyped
<1>2. PgRowOk(pgRow)'
    <2>1. PgRowOk(row)' /\ pgRow' = row BY DEF PgEnd
    <2> QED BY <2>1 DEF PgRowOk
<1> QED BY <1>1, <1>2 DEF PgInv

\* While nobody has overlapped, a handler that changes the row has read what it is.
LEMMA PgEndIsFresh ==
    ASSUME PgInv, NEW w \in PgWorkers, NEW row, PgEnd(w, row), pgWork[w].at \in PgHolds,
           pgOverlap' = FALSE, row # pgRow
    PROVE  PgFresh(pgWork[w])
<1>1. pgWork[w].stale = FALSE
    <2>1. pgWork[w] \in PgWorks BY DEF PgInv, PgTyped
    <2>2. pgWork[w] \in PgPatches \cup PgAdvances \cup PgDrafts BY <2>1, PgWorkKinds DEF PgHolds
    <2>3. pgWork[w].stale \in BOOLEAN BY <2>2 DEF PgPatches, PgAdvances, PgDrafts
    <2>4. ~(row # pgRow /\ pgWork[w].stale) BY DEF PgEnd
    <2> QED BY <2>3, <2>4
<1> QED BY <1>1 DEF PgInv, PgHandlersOk, PgHandlerOk

\* A PATCH begins on a transition the table allows.
LEMMA PgPatchStep ==
    ASSUME PgInv, NEW w \in PgWorkers, NEW next \in PgStates, NEW class \in PgClasses, PgPatch(w, next, class)
    PROVE  PgInv'
<1>1. PICK r : r = [at |-> "check", next |-> next, class |-> class, stale |-> FALSE] OBVIOUS
<1>2. r \in PgPatches BY <1>1, PgStatesAreAll DEF PgPatches
<1>3. pgWork' = [pgWork EXCEPT ![w] = r] BY <1>1 DEF PgPatch, PgGo
<1>4. PgMovesOne(w) /\ pgWork'[w] = r
    BY <1>2, <1>3 DEF PgMovesOne, PgInv, PgTyped, PgPatch, PgWorks
<1>5. PgGrows /\ PgSentIsEntered' BY DEF PgPatch, PgGrows, PgAnySent, PgSent, PgHas, PgInv, PgSentIsEntered
<1>6. PgHandlerOk(w)'
    <2>1. PgAllowed(pgRow.state, next)' BY DEF PgPatch, PgAllowed
    <2>2. PgFresh(r)' BY <1>1, <2>1 DEF PgFresh
    <2>3. PgAsked(r)' BY <1>1 DEF PgAsked
    <2> QED BY <1>4, <2>2, <2>3 DEF PgHandlerOk
<1> QED BY <1>4, <1>5, <1>6, PgQuietStep DEF PgPatch, PgInv, PgTyped

\* A worker that is idle or has only begun relies on nothing.
LEMMA PgNothingAsked ==
    ASSUME NEW r, r.at \in {"idle", "advance", "flow"}
    PROVE  PgAsked(r) /\ r.at \notin PgHolds
BY DEF PgAsked, PgHolds

\* A PATCH asks the tables for what the transition requires.
LEMMA PgCheckStep ==
    ASSUME PgInv, NEW w \in PgWorkers, PgCheck(w)
    PROVE  PgInv'
<1>1. PICK r : r = pgWork[w] OBVIOUS
<1>2. r \in PgPatches /\ r.at = "check" BY <1>1, PgWorkKinds DEF PgCheck, PgAt, PgInv, PgTyped
<1>3. PICK s : s = IF PgPrerequisite(r.next, r.class) THEN [r EXCEPT !.at = "write"] ELSE PgIdle OBVIOUS
<1>4. pgWork' = [pgWork EXCEPT ![w] = s] BY <1>1, <1>3 DEF PgCheck, PgGo
<1>5. s \in PgWorks BY <1>2, <1>3 DEF PgWorks, PgPatches
<1>6. PgMovesOne(w) /\ pgWork'[w] = s BY <1>4, <1>5 DEF PgMovesOne, PgInv, PgTyped, PgCheck
<1>7. PgGrows /\ PgSentIsEntered' BY DEF PgCheck, PgGrows, PgAnySent, PgSent, PgHas, PgInv, PgSentIsEntered
<1>8. PgHandlerOk(w)'
    <2>1. CASE PgPrerequisite(r.next, r.class)
        <3>1. s.at = "write" /\ s.next = r.next /\ s.class = r.class /\ s.stale = r.stale
            BY <1>2, <1>3, <2>1 DEF PgPatches
        <3>2. r.stale = FALSE => PgAllowed(pgRow.state, r.next)
            BY <1>1, <1>2 DEF PgInv, PgHandlersOk, PgHandlerOk, PgFresh, PgHolds
        <3>3. s.stale = FALSE => PgFresh(s)' BY <3>1, <3>2 DEF PgFresh, PgCheck, PgAllowed
        <3>4. PgAsked(s)
            <4>1. r.next = "PAYMENT_PENDING" => PgAnySent BY <2>1, PgSentShows DEF PgPrerequisite
            <4>2. pgWaiver \in BOOLEAN BY DEF PgInv, PgTyped
            <4> QED BY <2>1, <3>1, <4>1, <4>2 DEF PgAsked, PgPrerequisite, PgPaid
        <3>5. PgAsked(s)' BY <1>7, <3>4 DEF PgAsked, PgGrows
        <3> QED BY <1>6, <3>3, <3>5 DEF PgHandlerOk
    <2>2. CASE ~PgPrerequisite(r.next, r.class)
        <3>1. s.at = "idle" BY <1>3, <2>2 DEF PgIdle
        <3>2. PgAsked(s)' /\ s.at \notin PgHolds BY <3>1 DEF PgAsked, PgHolds
        <3> QED BY <1>6, <3>2 DEF PgHandlerOk
    <2> QED BY <2>1, <2>2
<1> QED BY <1>6, <1>7, <1>8, PgQuietStep DEF PgCheck, PgInv, PgTyped

\* A PATCH writes the row, and what a supported partner's classification documents.
LEMMA PgWriteStep ==
    ASSUME PgInv, NEW w \in PgWorkers, PgWrite(w)
    PROVE  PgInv'
<1>1. PICK r : r = pgWork[w] OBVIOUS
<1>2. r \in PgPatches /\ r.at = "write" BY <1>1, PgWorkKinds DEF PgWrite, PgAt, PgInv, PgTyped
<1>3. PICK row : row = [state |-> r.next, class |-> r.class, portal |-> r.next = "ACTIVE"] OBVIOUS
<1>4. row \in PgRows BY <1>2, <1>3 DEF PgRows, PgPatches
<1>5. PgEnd(w, row) /\ pgWaiver' = (pgWaiver \/ (r.next = "CLASSIFIED" /\ r.class = "CHARITY")) /\ pgInvoice' = pgInvoice
    BY <1>1, <1>3 DEF PgWrite
<1>6. pgWaiver' \in BOOLEAN /\ (pgWaiver = TRUE => pgWaiver' = TRUE) BY <1>5 DEF PgInv, PgTyped
<1>7. pgOverlap = TRUE => pgOverlap' = TRUE BY <1>5 DEF PgEnd
<1>8. PgGrows /\ PgSentIsEntered' BY <1>5, <1>6, <1>7 DEF PgGrows, PgAnySent, PgSent, PgHas, PgInv, PgSentIsEntered
<1>9. PgAsked(r) BY <1>1 DEF PgInv, PgHandlersOk, PgHandlerOk
<1>10. PgAsked(r)' BY <1>8, <1>9 DEF PgAsked, PgGrows
<1>11. PgRowOk(row)'
    <2>1. row.state = r.next /\ row.class = r.class /\ (row.portal = TRUE <=> r.next = "ACTIVE") BY <1>3
    <2> QED BY <1>2, <1>10, <2>1 DEF PgRowOk, PgAsked
<1> QED BY <1>4, <1>5, <1>6, <1>8, <1>11, PgEndStep DEF PgInv, PgTyped

\* An invoice's step looks at whether it may move the review.
LEMMA PgLookStep ==
    ASSUME PgInv, NEW w \in PgWorkers, PgLook(w)
    PROVE  PgInv'
<1>1. PICK r : r = pgWork[w] OBVIOUS
<1>2. r.next \in PgTargets /\ r.at = "advance"
    BY <1>1, PgWorkKinds DEF PgLook, PgAt, PgInv, PgTyped
<1> DEFINE may == pgRow.class = "PAID" /\ PgAllowed(pgRow.state, r.next)
<1>3. PICK s : s = IF may THEN [at |-> "require", next |-> r.next, stale |-> FALSE] ELSE PgIdle OBVIOUS
<1>4. pgWork' = [pgWork EXCEPT ![w] = s] BY <1>1, <1>3 DEF PgLook, PgGo
<1>5. s \in PgWorks BY <1>2, <1>3 DEF PgWorks, PgAdvances
<1>6. PgMovesOne(w) /\ pgWork'[w] = s BY <1>4, <1>5 DEF PgMovesOne, PgInv, PgTyped, PgLook
<1>7. PgGrows /\ PgSentIsEntered' BY DEF PgLook, PgGrows, PgAnySent, PgSent, PgHas, PgInv, PgSentIsEntered
<1>8. PgHandlerOk(w)'
    <2>1. CASE may
        <3>1. s.at = "require" /\ s.next = r.next BY <1>3, <2>1
        <3>2. PgFresh(s)' BY <3>1, <2>1 DEF PgFresh, PgLook, PgAllowed
        <3>3. PgAsked(s)' BY <3>1 DEF PgAsked
        <3> QED BY <1>6, <3>2, <3>3 DEF PgHandlerOk
    <2>2. CASE ~may
        <3>1. s.at = "idle" BY <1>3, <2>2 DEF PgIdle
        <3>2. PgAsked(s)' /\ s.at \notin PgHolds BY <3>1 DEF PgAsked, PgHolds
        <3> QED BY <1>6, <3>2 DEF PgHandlerOk
    <2> QED BY <2>1, <2>2
<1> QED BY <1>6, <1>7, <1>8, PgQuietStep DEF PgLook, PgInv, PgTyped

\* It asks the tables for what the move requires.
LEMMA PgRequireStep ==
    ASSUME PgInv, NEW w \in PgWorkers, PgRequire(w)
    PROVE  PgInv'
<1>1. PICK r : r = pgWork[w] OBVIOUS
<1>2. r \in PgAdvances /\ r.at = "require" BY <1>1, PgWorkKinds DEF PgRequire, PgAt, PgInv, PgTyped
<1>3. PICK s : s = IF PgPrerequisite(r.next, "PAID") THEN [r EXCEPT !.at = "move"] ELSE PgIdle OBVIOUS
<1>4. pgWork' = [pgWork EXCEPT ![w] = s] BY <1>1, <1>3 DEF PgRequire, PgGo
<1>5. s \in PgWorks BY <1>2, <1>3 DEF PgWorks, PgAdvances
<1>6. PgMovesOne(w) /\ pgWork'[w] = s BY <1>4, <1>5 DEF PgMovesOne, PgInv, PgTyped, PgRequire
<1>7. PgGrows /\ PgSentIsEntered' BY DEF PgRequire, PgGrows, PgAnySent, PgSent, PgHas, PgInv, PgSentIsEntered
<1>8. PgHandlerOk(w)'
    <2>1. CASE PgPrerequisite(r.next, "PAID")
        <3>1. s.at = "move" /\ s.next = r.next /\ s.stale = r.stale BY <1>2, <1>3, <2>1 DEF PgAdvances
        <3>2. r.stale = FALSE => PgAllowed(pgRow.state, r.next) /\ pgRow.class = "PAID"
            BY <1>1, <1>2 DEF PgInv, PgHandlersOk, PgHandlerOk, PgFresh, PgHolds
        <3>3. s.stale = FALSE => PgFresh(s)' BY <3>1, <3>2 DEF PgFresh, PgRequire, PgAllowed
        <3>4. PgAsked(s)
            <4>1. r.next = "PAYMENT_PENDING" => PgAnySent BY <2>1, PgSentShows DEF PgPrerequisite
            <4> QED BY <2>1, <3>1, <4>1 DEF PgAsked, PgPrerequisite, PgPaid
        <3>5. PgAsked(s)' BY <1>7, <3>4 DEF PgAsked, PgGrows
        <3> QED BY <1>6, <3>3, <3>5 DEF PgHandlerOk
    <2>2. CASE ~PgPrerequisite(r.next, "PAID")
        <3>1. s.at = "idle" BY <1>3, <2>2 DEF PgIdle
        <3>2. PgAsked(s)' /\ s.at \notin PgHolds BY <3>1 DEF PgAsked, PgHolds
        <3> QED BY <1>6, <3>2 DEF PgHandlerOk
    <2> QED BY <2>1, <2>2
<1> QED BY <1>6, <1>7, <1>8, PgQuietStep DEF PgRequire, PgInv, PgTyped

\* It moves the review, and nothing but its state.
LEMMA PgMoveStep ==
    ASSUME PgInv, NEW w \in PgWorkers, PgMove(w)
    PROVE  PgInv'
<1>1. PICK r : r = pgWork[w] OBVIOUS
<1>2. r \in PgAdvances /\ r.at = "move" /\ r.next \in PgTargets
    <2>1. r \in PgAdvances /\ r.at = "move" BY <1>1, PgWorkKinds DEF PgMove, PgAt, PgInv, PgTyped
    <2> QED BY <2>1 DEF PgAdvances
<1>3. PICK row : row = [pgRow EXCEPT !.state = r.next] OBVIOUS
<1>4. row \in PgRows /\ row.state = r.next /\ row.class = pgRow.class /\ row.portal = pgRow.portal /\ pgRow \in PgRows
    <2>1. pgRow \in PgRows BY DEF PgInv, PgTyped
    <2>2. r.next \in PgEveryState BY <1>2, PgTable
    <2> QED BY <1>3, <2>1, <2>2 DEF PgRows
<1>5. PgEnd(w, row) /\ pgWaiver' = pgWaiver /\ pgInvoice' = pgInvoice
    BY <1>1, <1>3 DEF PgMove
<1>6. pgOverlap = TRUE => pgOverlap' = TRUE BY <1>5 DEF PgEnd
<1>7. PgGrows /\ PgSentIsEntered' BY <1>5, <1>6 DEF PgGrows, PgAnySent, PgSent, PgHas, PgInv, PgSentIsEntered
<1>8. PgAsked(r) /\ PgAsked(r)'
    <2>1. PgAsked(r) BY <1>1 DEF PgInv, PgHandlersOk, PgHandlerOk
    <2> QED BY <1>7, <2>1 DEF PgAsked, PgGrows
<1>9. r.next # "ACTIVE" /\ ~PgAllowed("ACTIVE", r.next) BY <1>2, PgTable
<1>10. pgOverlap' = FALSE /\ row # pgRow => PgAllowed(pgRow.state, r.next) /\ pgRow.class = "PAID"
    <2>1. ASSUME pgOverlap' = FALSE, row # pgRow PROVE PgFresh(r)
        BY <1>1, <1>2, <1>5, <2>1, PgEndIsFresh DEF PgHolds
    <2> QED BY <1>2, <2>1 DEF PgFresh
<1>11. PgRowOk(pgRow) /\ (pgOverlap' = FALSE => pgOverlap = FALSE)
    BY <1>6 DEF PgInv, PgTyped
<1>12. PgRowOk(row)'
    <2>1. row.state # "ACTIVE" BY <1>4, <1>9
    <2>2. row.state = "PAYMENT_PENDING" => PgAnySent' BY <1>2, <1>4, <1>8 DEF PgAsked
    <2>3. ASSUME pgOverlap' = FALSE
          PROVE  /\ row.portal # TRUE
                 /\ row.state = "ADMIN_APPROVAL" /\ row.class = "PAID" => PgHas("PAID")'
                 /\ row.state = "ADMIN_APPROVAL" /\ row.class = "CHARITY" => pgWaiver' = TRUE
        <3>1. CASE row = pgRow
            <4>1. PgRowOk(row) /\ pgOverlap = FALSE BY <1>11, <2>3, <3>1
            <4> QED BY <2>1, <2>3, <4>1, <1>7 DEF PgRowOk, PgGrows
        <3>2. CASE row # pgRow
            <4>1. PgAllowed(pgRow.state, r.next) /\ pgRow.class = "PAID" BY <1>10, <2>3, <3>2
            <4>2. pgRow.state # "ACTIVE" BY <4>1, <1>9
            <4>3. row.portal # TRUE BY <4>2, <1>4, <1>11, <2>3 DEF PgRowOk
            <4>4. row.state = "ADMIN_APPROVAL" => PgHas("PAID")' BY <1>2, <1>4, <1>8, <2>3 DEF PgAsked
            <4> QED BY <4>1, <4>3, <4>4, <1>4
        <3> QED BY <3>1, <3>2
    <2>4. PICK over : over = pgOverlap' OBVIOUS
    <2> QED BY <2>1, <2>2, <2>3 DEF PgRowOk
<1> QED BY <1>4, <1>5, <1>7, <1>12, PgEndStep DEF PgInv, PgTyped

\* An invoice is drafted for a partner that is not supported.
LEMMA PgDraftStep ==
    ASSUME PgInv, NEW w \in PgWorkers, PgDraft(w)
    PROVE  PgInv'
<1> DEFINE moving == pgRow.state = "CLASSIFIED" /\ pgRow.class = "PAID"
<1>1. PICK s : s = [at |-> "create", stale |-> FALSE, moves |-> moving] OBVIOUS
<1>2. s \in PgDrafts /\ s.at = "create" /\ (s.moves = TRUE => pgRow.state = "CLASSIFIED")
    BY <1>1 DEF PgDrafts
<1>3. pgWork' = [pgWork EXCEPT ![w] = s] BY <1>1 DEF PgDraft, PgGo
<1>4. PgMovesOne(w) /\ pgWork'[w] = s BY <1>2, <1>3 DEF PgMovesOne, PgInv, PgTyped, PgDraft, PgWorks
<1>5. PgGrows /\ PgSentIsEntered' BY DEF PgDraft, PgGrows, PgAnySent, PgSent, PgHas, PgInv, PgSentIsEntered
<1>6. PgHandlerOk(w)'
    <2>1. PgFresh(s)' BY <1>2 DEF PgFresh, PgDraft
    <2>2. PgAsked(s)' BY <1>2 DEF PgAsked
    <2> QED BY <1>4, <2>1, <2>2 DEF PgHandlerOk
<1> QED BY <1>4, <1>5, <1>6, PgQuietStep DEF PgDraft, PgInv, PgTyped

\* An invoice whose workflow is set, and was not paid or is now, takes nothing back.
LEMMA PgSetGrows ==
    ASSUME PgInv, NEW i \in PgInvoices, NEW flow \in {"DRAFT", "PAID"}, PgSet(i, flow),
           pgInvoice[i].flow = "NONE" \/ flow = "PAID",
           pgWaiver' = pgWaiver, pgOverlap = TRUE => pgOverlap' = TRUE
    PROVE  PgGrows /\ PgSentIsEntered' /\ pgInvoice' \in [PgInvoices -> PgFlowRows]
<1>t. pgInvoice \in [PgInvoices -> PgFlowRows] BY DEF PgInv, PgTyped
<1>1. PICK old : old = pgInvoice[i] OBVIOUS
<1>2. old \in PgFlowRows BY <1>1, <1>t
<1>3. PICK new : new = [old EXCEPT !.flow = flow] OBVIOUS
<1>4. new \in PgFlowRows /\ new.flow = flow /\ new.entries = old.entries BY <1>2, <1>3 DEF PgFlowRows, PgTos
<1>5. pgInvoice' = [pgInvoice EXCEPT ![i] = new] BY <1>1, <1>3, <1>t DEF PgSet
<1>6. pgInvoice'[i] = new /\ \A j \in PgInvoices : j # i => pgInvoice'[j] = pgInvoice[j] BY <1>5, <1>t
<1>7. pgInvoice' \in [PgInvoices -> PgFlowRows] BY <1>4, <1>5, <1>t
<1>8. \A j \in PgInvoices : pgInvoice'[j].entries = pgInvoice[j].entries BY <1>1, <1>4, <1>6
<1>9. \A j \in PgInvoices : pgInvoice[j].flow = "PAID" => pgInvoice'[j].flow = "PAID" BY <1>1, <1>4, <1>6
<1>10. PgSentIsEntered' BY <1>4, <1>6, <1>8 DEF PgInv, PgSentIsEntered, PgSent
<1>11. PgAnySent => PgAnySent' BY <1>8 DEF PgAnySent, PgSent
<1>12. PgHas("PAID") => PgHas("PAID")' BY <1>9 DEF PgHas
<1> QED BY <1>7, <1>10, <1>11, <1>12 DEF PgGrows

\* An invoice made by hand moves a classified partner on.
LEMMA PgCreateStep ==
    ASSUME PgInv, NEW w \in PgWorkers, NEW i \in PgInvoices, PgCreate(w, i)
    PROVE  PgInv'
<1>1. PICK r : r = pgWork[w] OBVIOUS
<1>2. r \in PgDrafts /\ r.at = "create" BY <1>1, PgWorkKinds DEF PgCreate, PgAt, PgInv, PgTyped
<1>3. PICK row : row = IF r.moves THEN [pgRow EXCEPT !.state = "INVOICE_PENDING"] ELSE pgRow OBVIOUS
<1>4. PgEnd(w, row) /\ pgWaiver' = pgWaiver /\ PgSet(i, "DRAFT") BY <1>1, <1>3 DEF PgCreate
<1>5. pgOverlap = TRUE => pgOverlap' = TRUE BY <1>4 DEF PgEnd
<1>6. PgGrows /\ PgSentIsEntered' /\ pgInvoice' \in [PgInvoices -> PgFlowRows]
    BY <1>4, <1>5, PgSetGrows DEF PgCreate
<1>7. pgRow \in PgRows /\ PgRowOk(pgRow) /\ (pgOverlap' = FALSE => pgOverlap = FALSE) BY <1>5 DEF PgInv, PgTyped
<1>8. row \in PgRows BY <1>3, <1>7 DEF PgRows, PgEveryState
<1>9. PgRowOk(row)'
    <2>1. CASE row = pgRow
        <3>1. PgRowOk(row) BY <1>7, <2>1
        <3> QED BY <1>6, <1>7, <3>1 DEF PgRowOk, PgGrows
    <2>2. CASE row # pgRow
        <3>1. r.moves = TRUE BY <1>2, <1>3, <2>2 DEF PgDrafts
        <3>2. row.state = "INVOICE_PENDING" /\ row.portal = pgRow.portal BY <1>3, <1>7, <3>1 DEF PgRows
        <3>3. pgOverlap' = FALSE => row.portal # TRUE
            <4>1. SUFFICES ASSUME pgOverlap' = FALSE PROVE row.portal # TRUE OBVIOUS
            <4>2. PgFresh(r) BY <1>1, <1>2, <1>4, <2>2, <4>1, PgEndIsFresh DEF PgHolds
            <4>3. pgRow.state = "CLASSIFIED" BY <1>2, <3>1, <4>2 DEF PgFresh
            <4> QED BY <1>7, <3>2, <4>1, <4>3 DEF PgRowOk
        <3> QED BY <3>2, <3>3 DEF PgRowOk
    <2> QED BY <2>1, <2>2
<1> QED BY <1>4, <1>6, <1>8, <1>9, PgEndStep DEF PgInv, PgTyped

\* A step that sends a worker on to where it relies on nothing keeps the invariant.
LEMMA PgLightStep ==
    ASSUME PgInv, NEW w \in PgWorkers, NEW s \in PgWorks, s.at \in {"idle", "advance", "flow"}, PgGo(w, s),
           pgRow' = pgRow, pgWaiver' = pgWaiver, pgOverlap' \in BOOLEAN, PgGrows, PgSentIsEntered',
           pgInvoice' \in [PgInvoices -> PgFlowRows]
    PROVE  PgInv'
<1>1. PgMovesOne(w) /\ pgWork'[w] = s BY DEF PgMovesOne, PgInv, PgTyped, PgGo
<1>2. PgHandlerOk(w)'
    <2>1. PgAsked(s)' /\ s.at \notin PgHolds BY DEF PgAsked, PgHolds
    <2> QED BY <1>1, <2>1 DEF PgHandlerOk
<1> QED BY <1>1, <1>2, PgQuietStep DEF PgInv, PgTyped

\* What a worker does after an invoice's step.
LEMMA PgAfterIsLight ==
    ASSUME NEW to \in PgTos
    PROVE  /\ PgAfter(to) \in PgWorks /\ PgAfter(to).at \in {"idle", "advance", "flow"}
           /\ PgAdvance("INVOICE_PENDING") \in PgWorks /\ PgAdvance("INVOICE_PENDING").at = "advance"
BY DEF PgAfter, PgAdvance, PgWorks, PgTargets, PgIdle, PgTos

\* A cycle makes an invoice.
LEMMA PgGenerateStep ==
    ASSUME PgInv, NEW w \in PgWorkers, NEW i \in PgInvoices, PgGenerate(w, i)
    PROVE  PgInv'
<1>1. PgGrows /\ PgSentIsEntered' /\ pgInvoice' \in [PgInvoices -> PgFlowRows] BY PgSetGrows DEF PgGenerate
<1>2. PICK s : s = PgAdvance("INVOICE_PENDING") OBVIOUS
<1>3. s \in PgWorks /\ s.at = "advance" BY <1>2, PgAfterIsLight DEF PgTos
<1>4. PgGo(w, s) BY <1>2 DEF PgGenerate
<1> QED BY <1>1, <1>3, <1>4, PgLightStep DEF PgGenerate, PgInv, PgTyped

\* A provider settles an invoice that was sent.
LEMMA PgSettleStep ==
    ASSUME PgInv, NEW w \in PgWorkers, NEW i \in PgInvoices, PgSettle(w, i)
    PROVE  PgInv'
<1>1. PgGrows /\ PgSentIsEntered' /\ pgInvoice' \in [PgInvoices -> PgFlowRows] BY PgSetGrows DEF PgSettle
<1>2. PICK s : s = PgAfter("PAID") OBVIOUS
<1>3. s \in PgWorks /\ s.at \in {"idle", "advance", "flow"} BY <1>2, PgAfterIsLight DEF PgTos
<1>4. PgGo(w, s) BY <1>2 DEF PgSettle
<1> QED BY <1>1, <1>3, <1>4, PgLightStep DEF PgSettle, PgInv, PgTyped

\* An operator's step reads the workflow.
LEMMA PgOperateStep ==
    ASSUME PgInv, NEW w \in PgWorkers, NEW i \in PgInvoices, PgOperate(w, i)
    PROVE  PgInv'
<1>1. PICK f \in PgFlows :
          f.from = pgInvoice[i].flow /\ PgGo(w, [at |-> "flow", invoice |-> i, from |-> f.from, to |-> f.to])
    BY DEF PgOperate
<1>2. f.from \in {"DRAFT", "APPROVED", "SENT"} /\ f.to \in PgTos BY DEF PgFlows, PgTos
<1>3. PICK s : s = [at |-> "flow", invoice |-> i, from |-> f.from, to |-> f.to] OBVIOUS
<1>4. s \in PgWorks /\ s.at = "flow" BY <1>2, <1>3 DEF PgWorks, PgOperations
<1>5. PgGrows /\ PgSentIsEntered' BY DEF PgOperate, PgGrows, PgAnySent, PgSent, PgHas, PgInv, PgSentIsEntered
<1> QED BY <1>1, <1>3, <1>4, <1>5, PgLightStep DEF PgOperate, PgInv, PgTyped

\* A handler may stop anywhere.
LEMMA PgStopStep ==
    ASSUME PgInv, NEW w \in PgWorkers, PgStop(w)
    PROVE  PgInv'
<1>1. PICK s : s = PgIdle OBVIOUS
<1>2. s \in PgWorks /\ s.at = "idle" BY <1>1 DEF PgWorks, PgIdle
<1>3. PgGrows /\ PgSentIsEntered' BY DEF PgStop, PgGrows, PgAnySent, PgSent, PgHas, PgInv, PgSentIsEntered
<1> QED BY <1>1, <1>2, <1>3, PgLightStep DEF PgStop, PgInv, PgTyped

\* It writes the workflow, and what it writes over is known.
LEMMA PgFlowStep ==
    ASSUME PgInv, NEW w \in PgWorkers, PgFlow(w)
    PROVE  PgInv'
<1>1. PICK r : r = pgWork[w] OBVIOUS
<1>2. r \in PgOperations BY <1>1, PgWorkKinds DEF PgFlow, PgAt, PgInv, PgTyped
<1>3. r.invoice \in PgInvoices /\ r.from \in {"DRAFT", "APPROVED", "SENT"} /\ r.to \in PgTos BY <1>2 DEF PgOperations
<1>4. PICK i : i = r.invoice OBVIOUS
<1>t. pgInvoice \in [PgInvoices -> PgFlowRows] /\ pgOverlap \in BOOLEAN BY DEF PgInv, PgTyped
<1>5. CASE r.to \in pgInvoice[r.invoice].entries
    <2>1. PgGo(w, PgIdle) /\ UNCHANGED <<pgInvoice, pgOverlap, pgRow, pgWaiver>> BY <1>1, <1>5 DEF PgFlow
    <2>2. PICK s : s = PgIdle OBVIOUS
    <2>3. s \in PgWorks /\ s.at = "idle" BY <2>2 DEF PgWorks, PgIdle
    <2>4. PgGrows /\ PgSentIsEntered' BY <2>1 DEF PgGrows, PgAnySent, PgSent, PgHas, PgInv, PgSentIsEntered
    <2> QED BY <1>t, <2>1, <2>2, <2>3, <2>4, PgLightStep
<1>6. CASE r.to \notin pgInvoice[r.invoice].entries
    <2>1. PICK old : old = pgInvoice[i] OBVIOUS
    <2>2. old \in PgFlowRows BY <2>1, <1>3, <1>4, <1>t
    <2>3. PICK new : new = [flow |-> r.to, entries |-> old.entries \cup {r.to}] OBVIOUS
    <2>4. new \in PgFlowRows /\ new.flow = r.to /\ new.entries = old.entries \cup {r.to}
        BY <1>3, <2>2, <2>3 DEF PgFlowRows
    <2>5. pgInvoice' = [pgInvoice EXCEPT ![i] = new] BY <1>1, <1>4, <1>6, <2>1, <2>3, <1>t DEF PgFlow
    <2>6. /\ pgOverlap' = (pgOverlap \/ old.flow # r.from) /\ pgRow' = pgRow /\ pgWaiver' = pgWaiver
          /\ PgGo(w, PgAfter(r.to))
        BY <1>1, <1>4, <1>6, <2>1 DEF PgFlow
    <2>7. pgInvoice'[i] = new /\ \A j \in PgInvoices : j # i => pgInvoice'[j] = pgInvoice[j]
        BY <2>5, <1>3, <1>4, <1>t
    <2>8. pgInvoice' \in [PgInvoices -> PgFlowRows] BY <2>4, <2>5, <1>t
    <2>9. pgOverlap' \in BOOLEAN /\ (pgOverlap = TRUE => pgOverlap' = TRUE) BY <2>6, <1>t
    <2>10. PgSentIsEntered' BY <2>4, <2>7 DEF PgInv, PgSentIsEntered, PgSent
    <2>11. PgAnySent => PgAnySent'
        <3>1. \A j \in PgInvoices : "SENT" \in pgInvoice[j].entries => "SENT" \in pgInvoice'[j].entries
            BY <2>1, <2>4, <2>7
        <3> QED BY <3>1 DEF PgAnySent, PgSent
    <2>12. PgHas("PAID") => pgOverlap' = TRUE \/ PgHas("PAID")'
        <3>1. SUFFICES ASSUME NEW j \in PgInvoices, pgInvoice[j].flow = "PAID"
                       PROVE  pgOverlap' = TRUE \/ PgHas("PAID")'
            BY DEF PgHas
        <3>2. CASE j = i
            <4>1. old.flow # r.from BY <1>3, <2>1, <3>1, <3>2
            <4> QED BY <4>1, <2>6
        <3>3. CASE j # i BY <2>7, <3>1, <3>3 DEF PgHas
        <3> QED BY <3>2, <3>3
    <2>13. PgGrows BY <2>6, <2>9, <2>11, <2>12 DEF PgGrows
    <2>14. PICK s : s = PgAfter(r.to) OBVIOUS
    <2>15. s \in PgWorks /\ s.at \in {"idle", "advance", "flow"} BY <1>3, <2>14, PgAfterIsLight
    <2> QED BY <2>6, <2>8, <2>9, <2>10, <2>13, <2>14, <2>15, PgLightStep
<1> QED BY <1>5, <1>6

\* A step of the review, by its action.
PgSteps(w) ==
    \/ \E next \in PgStates, class \in PgClasses : PgPatch(w, next, class)
    \/ PgCheck(w) \/ PgWrite(w) \/ PgLook(w) \/ PgRequire(w) \/ PgMove(w) \/ PgDraft(w)
    \/ \E i \in PgInvoices : PgCreate(w, i) \/ PgGenerate(w, i) \/ PgOperate(w, i) \/ PgSettle(w, i)
    \/ PgFlow(w) \/ PgStop(w)

\* The next-state relation is a step of some worker.
LEMMA PgNextSteps == PgNext <=> \E w \in PgWorkers : PgSteps(w)
BY DEF PgNext, PgSteps

\* A step that is none keeps the invariant.
LEMMA PgStutter == ASSUME PgInv, UNCHANGED pgVars PROVE PgInv'
BY DEF PgInv, PgTyped, PgSentIsEntered, PgSent, PgHandlersOk, PgHandlerOk, PgFresh, PgAsked, PgAllowed, PgAnySent, PgHas,
       PgRowOk, pgVars

\* A partner that registered, and one an administrator created, are in order.
LEMMA PgInitInv == PgInit => PgInv
<1> SUFFICES ASSUME PgInit PROVE PgInv OBVIOUS
<1>1. PgTyped
    <2>1. PgIdle \in PgWorks BY DEF PgWorks
    <2>2. [flow |-> "NONE", entries |-> {}] \in PgFlowRows BY DEF PgFlowRows
    <2>3. pgRow \in PgRows
        <3>1. \A s \in {"REGISTERED", "ACTIVE"}, c \in {"UNCLASSIFIED", "PAID"}, p \in BOOLEAN :
                  [state |-> s, class |-> c, portal |-> p] \in PgRows
            BY DEF PgRows, PgEveryState, PgClasses
        <3> QED BY <3>1 DEF PgInit
    <2> QED BY <2>1, <2>2, <2>3 DEF PgInit, PgTyped
<1>2. PgSentIsEntered BY DEF PgInit, PgSentIsEntered
<1>3. PgHandlersOk BY DEF PgInit, PgHandlersOk, PgHandlerOk, PgAsked, PgHolds, PgIdle
<1>4. PgRowOk(pgRow) BY DEF PgInit, PgRowOk
<1> QED BY <1>1, <1>2, <1>3, <1>4 DEF PgInv

\* Every step keeps the invariant.
LEMMA PgStepInv == PgInv /\ [PgNext]_pgVars => PgInv'
<1> SUFFICES ASSUME PgInv, [PgNext]_pgVars PROVE PgInv' OBVIOUS
<1>1. ASSUME NEW w \in PgWorkers, PgSteps(w) PROVE PgInv'
    BY <1>1, PgPatchStep, PgCheckStep, PgWriteStep, PgLookStep, PgRequireStep, PgMoveStep, PgDraftStep,
       PgCreateStep, PgGenerateStep, PgOperateStep, PgSettleStep, PgFlowStep, PgStopStep DEF PgSteps
<1> QED BY <1>1, PgNextSteps, PgStutter

\* PgInv is an invariant of the review.
LEMMA PgInvariant == PgSpec => []PgInv
BY PgInitInv, PgStepInv, PTL DEF PgSpec

\* The invariant says what is promised of every state.
LEMMA PgInvIsSafe == PgInv => PgColumnsAgree /\ PgApprovalIsEarned /\ PgPendingWasSent
BY DEF PgInv, PgTyped, PgRows, PgRowOk, PgColumnsAgree, PgApprovalIsEarned, PgPendingWasSent, PgAnySent

\* A handler that nobody wrote over moves the review along its table.
LEMMA PgStepIsLegal == PgInv /\ [PgNext]_pgVars => PgMovesAreLegal
<1> SUFFICES ASSUME PgInv, [PgNext]_pgVars, ~pgOverlap' PROVE PgAllowed(pgRow.state, pgRow'.state)
    BY DEF PgMovesAreLegal
<1>s. \A s : PgAllowed(s, s) BY DEF PgAllowed
<1>0. PgInv' BY PgStepInv
<1>1. pgOverlap' = FALSE BY <1>0 DEF PgInv, PgTyped
<1>2. CASE pgRow' = pgRow BY <1>s, <1>2
<1>3. CASE pgRow' # pgRow
    <2>1. PICK w \in PgWorkers : PgSteps(w) BY <1>3, PgNextSteps DEF pgVars
    <2>2. PICK r : r = pgWork[w] OBVIOUS
    <2>3. r \in PgWorks BY <2>2 DEF PgInv, PgTyped
    <2>4. PgWrite(w) \/ PgMove(w) \/ \E i \in PgInvoices : PgCreate(w, i)
        BY <1>3, <2>1 DEF PgSteps, PgPatch, PgCheck, PgLook, PgRequire, PgDraft, PgGenerate, PgOperate, PgSettle, PgFlow, PgStop
    <2>5. CASE PgWrite(w)
        <3>1. PICK row : row = [state |-> r.next, class |-> r.class, portal |-> r.next = "ACTIVE"] OBVIOUS
        <3>2. PgEnd(w, row) BY <2>2, <2>5, <3>1 DEF PgWrite
        <3>3. pgRow' = row BY <3>2 DEF PgEnd
        <3>4. PgFresh(r) /\ r.at = "write" BY <1>1, <1>3, <2>2, <2>5, <3>2, <3>3, PgEndIsFresh DEF PgWrite, PgAt, PgHolds
        <3> QED BY <3>1, <3>3, <3>4 DEF PgFresh
    <2>6. CASE PgMove(w)
        <3>1. PICK row : row = [pgRow EXCEPT !.state = r.next] OBVIOUS
        <3>2. PgEnd(w, row) BY <2>2, <2>6, <3>1 DEF PgMove
        <3>3. pgRow' = row BY <3>2 DEF PgEnd
        <3>4. PgFresh(r) /\ r.at = "move" BY <1>1, <1>3, <2>2, <2>6, <3>2, <3>3, PgEndIsFresh DEF PgMove, PgAt, PgHolds
        <3>5. row.state = r.next BY <3>1 DEF PgInv, PgTyped, PgRows
        <3> QED BY <3>3, <3>4, <3>5 DEF PgFresh
    <2>7. ASSUME NEW i \in PgInvoices, PgCreate(w, i) PROVE PgAllowed(pgRow.state, pgRow'.state)
        <3>1. PICK row : row = IF r.moves THEN [pgRow EXCEPT !.state = "INVOICE_PENDING"] ELSE pgRow OBVIOUS
        <3>2. PgEnd(w, row) BY <2>2, <2>7, <3>1 DEF PgCreate
        <3>3. pgRow' = row BY <3>2 DEF PgEnd
        <3>4. PgFresh(r) /\ r.at = "create" BY <1>1, <1>3, <2>2, <2>7, <3>2, <3>3, PgEndIsFresh DEF PgCreate, PgAt, PgHolds
        <3>5. r.moves = TRUE BY <1>3, <2>3, <3>1, <3>3, <3>4, PgWorkKinds DEF PgDrafts
        <3>6. row.state = "INVOICE_PENDING" BY <3>1, <3>5 DEF PgInv, PgTyped, PgRows
        <3>7. pgRow.state = "CLASSIFIED" BY <3>4, <3>5 DEF PgFresh
        <3> QED BY <3>3, <3>6, <3>7 DEF PgAllowed, PgMoves
    <2> QED BY <2>4, <2>5, <2>6, <2>7
<1> QED BY <1>2, <1>3

\* Only an operator's step that had read the invoice before its payment forgets it.
LEMMA PgStepKeepsPaid == PgInv /\ [PgNext]_pgVars => PgPaidStays
<1> SUFFICES ASSUME PgInv, [PgNext]_pgVars, NEW i \in PgInvoices, pgInvoice[i].flow = "PAID", pgInvoice'[i].flow # "PAID"
             PROVE  \E w \in PgWorkers : PgFlow(w) /\ pgWork[w].from # "PAID"
    BY DEF PgPaidStays
<1>1. PICK w \in PgWorkers : PgSteps(w) BY PgNextSteps DEF pgVars
<1>2. PgFlow(w)
    <2>1. ASSUME NEW j \in PgInvoices, NEW flow, PgSet(j, flow), pgInvoice[j].flow = "NONE" \/ flow = "PAID"
          PROVE  FALSE
        <3>1. pgInvoice \in [PgInvoices -> PgFlowRows] BY DEF PgInv, PgTyped
        <3>2. CASE j = i BY <2>1, <3>1, <3>2 DEF PgSet, PgFlowRows
        <3>3. CASE j # i BY <2>1, <3>1, <3>3 DEF PgSet
        <3> QED BY <3>2, <3>3
    <2>2. \A j \in PgInvoices : ~PgCreate(w, j) /\ ~PgGenerate(w, j) /\ ~PgSettle(w, j)
        BY <2>1 DEF PgCreate, PgGenerate, PgSettle
    <2> QED BY <1>1, <2>2 DEF PgSteps, PgPatch, PgCheck, PgWrite, PgLook, PgRequire, PgMove, PgDraft, PgOperate, PgStop
<1>3. pgWork[w] \in PgOperations BY <1>2, PgWorkKinds DEF PgFlow, PgAt, PgInv, PgTyped
<1> QED BY <1>2, <1>3 DEF PgOperations

\* PgInv shows what the review answers for (PortalGateSafe): the portal is open exactly to the
\* approved, an approval is earned by a payment or documented support, and the review moves
\* along its table, unless one handler wrote over another; nobody is waited for to pay without
\* having been sent an invoice.
THEOREM ApprovalsAreEarned == PgSpec => PortalGateSafe
BY PgInvariant, PgInvIsSafe, PgStepIsLegal, PgStepKeepsPaid, PTL DEF PgSpec, PortalGateSafe
-------------------------------------------------------------------------------
(* Entitlements: which modules the partner may use *)

\* What a request may be.
CtFields == {"status", "entitlement", "included", "priced", "planned", "plan"}
CtSettable == {"NOT_LICENSED", "ACTIVE", "MAINTENANCE"}
CtEntitlements == {"INACTIVE", "ACTIVE", "CANCEL_PENDING"}
CtReadyModules == {m \in CtModule : m.published = TRUE => m.ready = TRUE}
CtStates == {s \in [status : CtSettable, entitlement : CtEntitlements] : s.status = "ACTIVE" => s.entitlement # "INACTIVE"}
CtTermSets == UNION {[S -> BOOLEAN] : S \in SUBSET {"included", "priced"}}
CtChoices == CtPlans \cup {"FLEX", "NO_PLAN"}
CtPatchesOfModules == [at : {"module"}, key : CtKeys, row : CtReadyModules]
CtEnsuring == [at : {"ensure", "legacy", "reinstate", "reconcile", "serve"}, for : {"list", "patch", "plan", "activate"}]
CtPatchesOfRows == [at : {"row"}, key : CtKeys, state : {<<>>} \cup CtStates, terms : CtTermSets]
CtChosen == [at : {"keys"}, plan : CtChoices, target : SUBSET CtKeys]
CtApplications ==
    [at : {"apply"}, plan : CtChoices, target : SUBSET CtKeys, read : [CtKeys -> CtRow], revoke : SUBSET CtKeys,
     holds : BOOLEAN, alone : BOOLEAN]
CtActivations == [at : {"relations", "activate"}, key : CtKeys]
CtWorks ==
    {CtIdle} \cup CtPatchesOfModules \cup CtEnsuring \cup CtPatchesOfRows \cup CtChosen \cup CtApplications \cup CtActivations

CtTyped == CtTypeOK /\ ctWork \in [CtWorkers -> CtWorks] /\ ctExcuse \in BOOLEAN

\* What a row says of itself: who may use a module is entitled to it, and what a plan granted
\* is marked as planned.
CtRowOk(row) ==
    /\ row.status = "ACTIVE" => row.entitlement # "INACTIVE"
    /\ row.plan # "" => row.planned = TRUE
CtRowsOk == \A k \in CtKeys : CtRowOk(ctRows[k])
\* Whoever works on the partner's modules found or made all of its rows.
CtMade == \A k \in CtKeys : ctRows[k].status # "ABSENT"
CtRowsAreMade ==
    CtMade \/ ((\A k \in CtKeys : ctRows[k] = CtAbsent) /\ (\A w \in CtWorkers : ctWork[w].at \in {"idle", "module"}))

\* An application knows which rows lose what they had.
CtLost(row) == row.status = "ACTIVE" \/ row.entitlement = "ACTIVE" \/ row.planned = TRUE
CtApplicationOk(r) ==
    /\ r.plan = "NO_PLAN" => r.target = {}
    /\ r.at = "apply" => r.revoke = {k \in CtKeys \ r.target : CtLost(r.read[k])}
CtApplicationsOk ==
    \A w \in CtWorkers : ctWork[w].at \in {"keys", "apply"} => CtApplicationOk(ctWork[w])

\* An activation has its module to itself, and what it has checked of it holds.
CtHolds(w) == ctWork[w].at \in {"relations", "activate"}
CtLockedOk(k) ==
    /\ ctModules[k].published = TRUE /\ ctModules[k].available = TRUE
    /\ ctRows[k].included = TRUE \/ ctRows[k].priced = TRUE
    /\ ctRows[k].status = "NOT_LICENSED"
CtLocksHold ==
    /\ \A w \in CtWorkers : CtHolds(w) => CtLockedOk(ctWork[w].key)
    /\ \A u, w \in CtWorkers : CtHolds(u) /\ CtHolds(w) /\ u # w => ctWork[u].key # ctWork[w].key

CtInv ==
    /\ CtTyped /\ CtRowsOk /\ CtRowsAreMade /\ CtApplicationsOk /\ CtLocksHold
    /\ CtPublishedIsReady /\ CtPlanIsPolicy

\* Nothing is in the empty list.
LEMMA CtEmptyDomain == DOMAIN <<>> = {}
OBVIOUS

\* Merging keeps what the fields do not carry.
LEMMA CtMergeIs ==
    ASSUME NEW row \in CtRow, NEW fields, NEW new, new = CtMerge(row, fields)
    PROVE  /\ new = [f \in CtFields |-> new[f]]
           /\ new.status = IF "status" \in DOMAIN fields THEN fields.status ELSE row.status
           /\ new.entitlement = IF "entitlement" \in DOMAIN fields THEN fields.entitlement ELSE row.entitlement
           /\ new.included = IF "included" \in DOMAIN fields THEN fields.included ELSE row.included
           /\ new.priced = IF "priced" \in DOMAIN fields THEN fields.priced ELSE row.priced
           /\ new.planned = IF "planned" \in DOMAIN fields THEN fields.planned ELSE row.planned
           /\ new.plan = IF "plan" \in DOMAIN fields THEN fields.plan ELSE row.plan
<1>1. new = [f \in CtFields |-> new[f]] BY DEF CtMerge, CtRow, CtFields
<1>2. \A f \in CtFields : new[f] = IF f \in DOMAIN fields THEN fields[f] ELSE row[f]
    BY DEF CtMerge, CtRow, CtFields
<1> QED BY <1>1, <1>2 DEF CtFields

\* What makes a row.
LEMMA CtRowAlike ==
    ASSUME NEW new, new = [f \in CtFields |-> new[f]],
           new.status \in {"ABSENT"} \cup CtSettable, new.entitlement \in CtEntitlements, new.included \in BOOLEAN,
           new.priced \in BOOLEAN, new.planned \in BOOLEAN, new.plan \in CtPlans \cup {"", "FLEX"}
    PROVE  new \in CtRow
BY DEF CtRow, CtFields, CtSettable, CtEntitlements

\* A merged module is a module.
LEMMA CtModuleMerge ==
    ASSUME NEW m \in CtModule, NEW edit \in CtModuleEdits, CtAssumption, NEW new,
           new = [f \in DOMAIN m |-> IF f \in DOMAIN edit THEN edit[f] ELSE m[f]]
    PROVE  new \in CtModule
BY DEF CtModule, CtAssumption

\* An edit of a row's state sets a consistent pair; its terms are the terms.
LEMMA CtStateMerge ==
    ASSUME NEW row \in CtRow, row.status # "ABSENT", CtRowOk(row), NEW state \in {<<>>} \cup CtStates,
           NEW new, new = CtMerge(row, state)
    PROVE  new \in CtRow /\ CtRowOk(new) /\ new.status # "ABSENT" /\ new.plan = row.plan
<1>r. /\ row.status \in CtSettable /\ row.entitlement \in CtEntitlements /\ row.included \in BOOLEAN
      /\ row.priced \in BOOLEAN /\ row.planned \in BOOLEAN /\ row.plan \in CtPlans \cup {"", "FLEX"}
    BY DEF CtRow, CtSettable, CtEntitlements
<1>1. /\ new = [f \in CtFields |-> new[f]] /\ new.included = row.included /\ new.priced = row.priced
      /\ new.planned = row.planned /\ new.plan = row.plan
    <2>1. DOMAIN state \subseteq {"status", "entitlement"} BY CtEmptyDomain DEF CtStates
    <2> QED BY <2>1, CtMergeIs
<1>2. CASE state = <<>>
    <2>1. new.status = row.status /\ new.entitlement = row.entitlement BY <1>2, CtEmptyDomain, CtMergeIs
    <2> QED BY <1>r, <1>1, <2>1, CtRowAlike DEF CtRowOk, CtSettable
<1>3. CASE state \in CtStates
    <2>1. DOMAIN state = {"status", "entitlement"} BY <1>3 DEF CtStates
    <2>2. new.status = state.status /\ new.entitlement = state.entitlement BY <2>1, CtMergeIs
    <2>3. state.status \in CtSettable /\ state.entitlement \in CtEntitlements
          /\ (state.status = "ACTIVE" => state.entitlement # "INACTIVE")
        BY <1>3 DEF CtStates
    <2> QED BY <1>r, <1>1, <2>2, <2>3, CtRowAlike DEF CtRowOk, CtSettable
<1> QED BY <1>2, <1>3

\* An edit of a row's terms changes whether it is included and priced, and nothing else.
LEMMA CtTermsMerge ==
    ASSUME NEW row \in CtRow, row.status # "ABSENT", CtRowOk(row), NEW terms \in CtTermSets,
           NEW new, new = CtMerge(row, terms)
    PROVE  new \in CtRow /\ CtRowOk(new) /\ new.status # "ABSENT" /\ new.plan = row.plan
<1>r. /\ row.status \in CtSettable /\ row.entitlement \in CtEntitlements /\ row.included \in BOOLEAN
      /\ row.priced \in BOOLEAN /\ row.planned \in BOOLEAN /\ row.plan \in CtPlans \cup {"", "FLEX"}
    BY DEF CtRow, CtSettable, CtEntitlements
<1>1. PICK S \in SUBSET {"included", "priced"} : terms \in [S -> BOOLEAN] BY DEF CtTermSets
<1>2. DOMAIN terms \subseteq {"included", "priced"} /\ \A f \in DOMAIN terms : terms[f] \in BOOLEAN BY <1>1
<1>3. /\ new = [f \in CtFields |-> new[f]] /\ new.status = row.status /\ new.entitlement = row.entitlement
      /\ new.planned = row.planned /\ new.plan = row.plan
    BY <1>2, CtMergeIs
<1>4. new.included \in BOOLEAN
    <2>1. CASE "included" \in DOMAIN terms
        <3>1. new.included = terms.included BY <2>1, CtMergeIs
        <3> QED BY <1>2, <2>1, <3>1
    <2>2. CASE "included" \notin DOMAIN terms
        <3>1. new.included = row.included BY <2>2, CtMergeIs
        <3> QED BY <1>r, <3>1
    <2> QED BY <2>1, <2>2
<1>5. new.priced \in BOOLEAN
    <2>1. CASE "priced" \in DOMAIN terms
        <3>1. new.priced = terms.priced BY <2>1, CtMergeIs
        <3> QED BY <1>2, <2>1, <3>1
    <2>2. CASE "priced" \notin DOMAIN terms
        <3>1. new.priced = row.priced BY <2>2, CtMergeIs
        <3> QED BY <1>r, <3>1
    <2> QED BY <2>1, <2>2
<1> QED BY <1>r, <1>3, <1>4, <1>5, CtRowAlike DEF CtRowOk, CtSettable

\* What a plan grants or revokes leaves a row in order.
LEMMA CtGrantedIs ==
    ASSUME NEW row \in CtRow, NEW plan \in CtPlans \cup {"FLEX"}, NEW new, new = CtGranted(row, plan)
    PROVE  /\ new \in CtRow /\ CtRowOk(new) /\ new.status = "ACTIVE" /\ new.plan = plan
BY DEF CtRow, CtGranted, CtRowOk

\* What is revoked keeps what it says of its plan.
LEMMA CtRevokedIs ==
    ASSUME NEW row \in CtRow, NEW new, new = CtRevoked(row)
    PROVE  /\ new \in CtRow /\ new.status = "NOT_LICENSED" /\ new.plan = row.plan /\ new.planned = row.planned
BY DEF CtRow, CtRevoked

\* A worker's record is one of a few kinds.
LEMMA CtWorkKinds ==
    ASSUME NEW r \in CtWorks
    PROVE  /\ r.at = "module" => r \in CtPatchesOfModules
           /\ r.at \in {"ensure", "legacy", "reinstate", "reconcile", "serve"} => r \in CtEnsuring
           /\ r.at = "row" => r \in CtPatchesOfRows
           /\ r.at = "keys" => r \in CtChosen
           /\ r.at = "apply" => r \in CtApplications
           /\ r.at \in {"relations", "activate"} => r \in CtActivations
BY DEF CtWorks, CtIdle, CtPatchesOfModules, CtEnsuring, CtPatchesOfRows, CtChosen, CtApplications, CtActivations

\* A holder's module is one, and it is not among what another finds unlocked.
LEMMA CtHeldIsLocked ==
    ASSUME CtInv, NEW u \in CtWorkers, CtHolds(u)
    PROVE  ctWork[u].key \in CtKeys /\ \A K : CtUnlocked(K) => ctWork[u].key \notin K
<1>1. ctWork[u] \in CtWorks BY DEF CtInv, CtTyped
<1>2. ctWork[u] \in CtActivations BY <1>1, CtWorkKinds DEF CtHolds
<1> QED BY <1>2 DEF CtActivations, CtUnlocked, CtHolds

\* What is rigid of a worker's record.
CtKeyOf(u, k) == CtHolds(u) /\ ctWork[u].key = k
\* A step that is right about what it does to the rows, the modules and the worker it moves.
CtStepOk(w, s) ==
    /\ CtGo(w, s) /\ CtTypeOK' /\ ctExcuse' \in BOOLEAN
    /\ CtRowsOk' /\ CtPublishedIsReady' /\ CtPlanIsPolicy'
    /\ CtMade' \/ (ctRows' = ctRows /\ ~CtMade /\ s.at \in {"idle", "module"})
    /\ s.at \in {"keys", "apply"} => CtApplicationOk(s)
    /\ \A k : \A u \in CtWorkers : u # w /\ CtKeyOf(u, k) => CtLockedOk(k)'
    /\ s.at \in {"relations", "activate"} =>
          CtLockedOk(s.key)' /\ \A u \in CtWorkers : u # w => ~CtKeyOf(u, s.key)

\* Such a step keeps the invariant.
LEMMA CtGoodStep ==
    ASSUME CtInv, NEW w \in CtWorkers, NEW s \in CtWorks, CtStepOk(w, s)
    PROVE  CtInv'
<1>t. ctWork \in [CtWorkers -> CtWorks] BY DEF CtInv, CtTyped
<1>1. ctWork' \in [CtWorkers -> CtWorks] /\ ctWork'[w] = s /\ \A u \in CtWorkers : u # w => ctWork'[u] = ctWork[u]
    BY <1>t DEF CtStepOk, CtGo
<1>2. CtTyped' BY <1>1 DEF CtStepOk, CtTyped
<1>3. CtRowsAreMade'
    <2>1. CASE CtMade' BY <2>1 DEF CtRowsAreMade
    <2>2. CASE ctRows' = ctRows /\ ~CtMade /\ s.at \in {"idle", "module"}
        BY <1>1, <2>2 DEF CtRowsAreMade, CtInv
    <2> QED BY <2>1, <2>2 DEF CtStepOk
<1>4. CtApplicationsOk'
    <2>1. ASSUME NEW u \in CtWorkers, NEW r, r = ctWork'[u], r.at \in {"keys", "apply"} PROVE CtApplicationOk(r)
        BY <1>1, <2>1 DEF CtStepOk, CtInv, CtApplicationsOk
    <2>2. ASSUME NEW u \in CtWorkers, ctWork'[u].at \in {"keys", "apply"} PROVE CtApplicationOk(ctWork[u])'
        <3>1. PICK r : r = ctWork'[u] OBVIOUS
        <3>2. CtApplicationOk(r) BY <2>1, <2>2, <3>1
        <3> QED BY <3>1, <3>2 DEF CtApplicationOk, CtLost
    <2> QED BY <2>2 DEF CtApplicationsOk
<1>5. CtLocksHold'
    <2>1. ASSUME NEW u \in CtWorkers, CtHolds(u)' PROVE CtLockedOk(ctWork[u].key)'
        <3>1. PICK k : k = ctWork'[u].key OBVIOUS
        <3>2. CtLockedOk(k)'
            <4>1. CASE u = w BY <1>1, <2>1, <3>1, <4>1 DEF CtStepOk, CtHolds
            <4>2. CASE u # w BY <1>1, <2>1, <3>1, <4>2 DEF CtStepOk, CtHolds, CtKeyOf
            <4> QED BY <4>1, <4>2
        <3> QED BY <3>1, <3>2 DEF CtLockedOk
    <2>2. ASSUME NEW u \in CtWorkers, NEW v \in CtWorkers, CtHolds(u)', CtHolds(v)', u # v
          PROVE  ctWork'[u].key # ctWork'[v].key
        <3>1. CASE u = w BY <1>1, <2>2, <3>1 DEF CtStepOk, CtHolds, CtKeyOf
        <3>2. CASE v = w BY <1>1, <2>2, <3>2 DEF CtStepOk, CtHolds, CtKeyOf
        <3>3. CASE u # w /\ v # w BY <1>1, <2>2, <3>3 DEF CtHolds, CtInv, CtLocksHold
        <3> QED BY <3>1, <3>2, <3>3
    <2> QED BY <2>1, <2>2 DEF CtLocksHold
<1> QED BY <1>2, <1>3, <1>4, <1>5 DEF CtInv, CtStepOk

\* A step that only moves a worker keeps the invariant.
LEMMA CtQuietStep ==
    ASSUME CtInv, NEW w \in CtWorkers, NEW s \in CtWorks, CtGo(w, s),
           UNCHANGED <<ctModules, ctRelated, ctRows, ctPolicy, ctExcuse>>,
           CtMade \/ s.at \in {"idle", "module"},
           s.at \in {"keys", "apply"} => CtApplicationOk(s),
           s.at \in {"relations", "activate"} =>
               CtLockedOk(s.key) /\ \A u \in CtWorkers : u # w => ~CtKeyOf(u, s.key)
    PROVE  CtInv'
<1>1. CtTypeOK' /\ ctExcuse' \in BOOLEAN BY DEF CtInv, CtTyped, CtTypeOK
<1>2. CtRowsOk' BY DEF CtInv, CtRowsOk, CtRowOk
<1>3. CtPublishedIsReady' BY DEF CtInv, CtPublishedIsReady
<1>4. CtPlanIsPolicy' BY DEF CtInv, CtPlanIsPolicy
<1>5. CtMade' \/ (ctRows' = ctRows /\ ~CtMade /\ s.at \in {"idle", "module"}) BY DEF CtMade
<1>6. \A k : CtLockedOk(k) => CtLockedOk(k)' BY DEF CtLockedOk
<1>7. \A k : \A u \in CtWorkers : u # w /\ CtKeyOf(u, k) => CtLockedOk(k)'
    BY <1>6 DEF CtInv, CtLocksHold, CtKeyOf
<1>8. CtStepOk(w, s) BY <1>1, <1>2, <1>3, <1>4, <1>5, <1>6, <1>7 DEF CtStepOk
<1> QED BY <1>8, CtGoodStep

\* A step that writes rows keeps the invariant if it leaves those alone that activations hold.
LEMMA CtRowsStep ==
    ASSUME CtInv, NEW w \in CtWorkers, NEW s \in CtWorks, CtGo(w, s), s.at \in {"idle", "ensure", "reconcile", "serve"},
           UNCHANGED <<ctModules, ctRelated>>,
           ctRows' \in [CtKeys -> CtRow], ctPolicy' \in CtPlans \cup {CtNone, "FLEX"}, ctExcuse' \in BOOLEAN,
           CtRowsOk', CtMade', CtPlanIsPolicy',
           \A k \in CtKeys : \A u \in CtWorkers : u # w /\ CtKeyOf(u, k) => ctRows'[k] = ctRows[k]
    PROVE  CtInv'
<1>1. CtTypeOK' BY DEF CtInv, CtTyped, CtTypeOK
<1>2. CtPublishedIsReady' BY DEF CtInv, CtPublishedIsReady
<1>3. ASSUME NEW k, NEW u \in CtWorkers, u # w, CtKeyOf(u, k) PROVE CtLockedOk(k)'
    <2>1. k \in CtKeys BY <1>3, CtHeldIsLocked DEF CtKeyOf
    <2>2. CtLockedOk(k) BY <1>3 DEF CtInv, CtLocksHold, CtKeyOf
    <2>3. ctRows'[k] = ctRows[k] BY <1>3, <2>1
    <2> QED BY <2>2, <2>3 DEF CtLockedOk
<1>4. CtStepOk(w, s) BY <1>1, <1>2, <1>3 DEF CtStepOk
<1> QED BY <1>4, CtGoodStep

\* Being idle is something a worker may do.
LEMMA CtIdleIsWork == CtIdle \in CtWorks /\ CtIdle.at = "idle"
BY DEF CtWorks, CtIdle

\* A worker that is past the beginning found every row.
LEMMA CtWorkerFoundRows ==
    ASSUME CtInv, NEW w \in CtWorkers, ctWork[w].at \notin {"idle", "module"}
    PROVE  CtMade
BY DEF CtInv, CtRowsAreMade

\* A module's PATCH reads the module.
LEMMA CtReadModuleStep ==
    ASSUME CtInv, CtAssumption, NEW w \in CtWorkers, NEW k \in CtKeys, NEW edit \in CtModuleEdits, CtReadModule(w, k, edit)
    PROVE  CtInv'
<1>1. PICK m : m = ctModules[k] OBVIOUS
<1>2. m \in CtModule BY <1>1 DEF CtInv, CtTyped, CtTypeOK
<1>3. PICK merged : merged = [f \in DOMAIN m |-> IF f \in DOMAIN edit THEN edit[f] ELSE m[f]] OBVIOUS
<1>4. merged \in CtModule BY <1>2, <1>3, CtModuleMerge
<1>5. PICK s : s = IF merged.published /\ ~merged.ready THEN CtIdle ELSE [at |-> "module", key |-> k, row |-> merged]
    OBVIOUS
<1>6. CtGo(w, s) BY <1>1, <1>3, <1>5 DEF CtReadModule
<1>7. s \in CtWorks /\ s.at \in {"idle", "module"}
    <2>1. CASE merged.published /\ ~merged.ready BY <1>5, <2>1, CtIdleIsWork
    <2>2. CASE ~(merged.published /\ ~merged.ready)
        <3>1. merged.published \in BOOLEAN /\ merged.ready \in BOOLEAN BY <1>4 DEF CtModule
        <3>2. merged \in CtReadyModules BY <1>4, <2>2, <3>1 DEF CtReadyModules
        <3> QED BY <1>5, <2>2, <3>2 DEF CtWorks, CtPatchesOfModules
    <2> QED BY <2>1, <2>2
<1> QED BY <1>6, <1>7, CtQuietStep DEF CtReadModule

\* It writes all of it, and not while an activation holds the module.
LEMMA CtWriteModuleStep ==
    ASSUME CtInv, NEW w \in CtWorkers, CtWriteModule(w)
    PROVE  CtInv'
<1>1. PICK r : r = ctWork[w] OBVIOUS
<1>2. r \in CtPatchesOfModules BY <1>1, CtWorkKinds DEF CtWriteModule, CtAt, CtInv, CtTyped
<1>3. PICK key, row : key = r.key /\ row = r.row OBVIOUS
<1>4. key \in CtKeys /\ row \in CtModule /\ (row.published = TRUE => row.ready = TRUE)
    BY <1>2, <1>3 DEF CtPatchesOfModules, CtReadyModules
<1>5. ctModules' = [ctModules EXCEPT ![key] = row] BY <1>1, <1>3 DEF CtWriteModule
<1>t. ctModules \in [CtKeys -> CtModule] BY DEF CtInv, CtTyped, CtTypeOK
<1>6. ctModules' \in [CtKeys -> CtModule] /\ ctModules'[key] = row /\ \A k \in CtKeys : k # key => ctModules'[k] = ctModules[k]
    BY <1>4, <1>5, <1>t
<1>7. CtTypeOK' /\ ctExcuse' \in BOOLEAN BY <1>6 DEF CtInv, CtTyped, CtTypeOK, CtWriteModule
<1>8. CtRowsOk' BY DEF CtInv, CtRowsOk, CtRowOk, CtWriteModule
<1>9. CtPlanIsPolicy' BY DEF CtInv, CtPlanIsPolicy, CtWriteModule
<1>10. CtPublishedIsReady'
    <2>1. row.published \in BOOLEAN /\ row.ready \in BOOLEAN BY <1>4 DEF CtModule
    <2> QED BY <1>4, <1>6, <2>1 DEF CtInv, CtPublishedIsReady
<1>11. ASSUME NEW k, NEW u \in CtWorkers, u # w, CtKeyOf(u, k) PROVE CtLockedOk(k)'
    <2>1. k \in CtKeys /\ k # key
        <3>1. CtUnlocked({key}) BY <1>1, <1>3 DEF CtWriteModule
        <3> QED BY <1>11, <3>1, CtHeldIsLocked DEF CtKeyOf
    <2>2. CtLockedOk(k) BY <1>11 DEF CtInv, CtLocksHold, CtKeyOf
    <2> QED BY <1>6, <2>1, <2>2 DEF CtLockedOk, CtWriteModule
<1>12. PICK s : s = CtIdle OBVIOUS
<1>13. s \in CtWorks /\ s.at = "idle" BY <1>12, CtIdleIsWork
<1>14. CtMade' \/ (ctRows' = ctRows /\ ~CtMade) BY DEF CtWriteModule, CtMade
<1>15. CtGo(w, s) BY <1>12 DEF CtWriteModule
<1>16. CtStepOk(w, s) BY <1>7, <1>8, <1>9, <1>10, <1>11, <1>13, <1>14, <1>15 DEF CtStepOk
<1> QED BY <1>13, <1>16, CtGoodStep

\* A relationship is set or removed.
LEMMA CtRelateStep ==
    ASSUME CtInv, NEW w \in CtWorkers, NEW r \in CtRelations, CtRelate(w, r)
    PROVE  CtInv'
<1>1. ctRelated' \subseteq CtRelations BY DEF CtRelate, CtInv, CtTyped, CtTypeOK
<1>2. UNCHANGED <<ctModules, ctRows, ctPolicy, ctWork, ctExcuse>> BY DEF CtRelate
<1>3. CtTyped' BY <1>1, <1>2 DEF CtInv, CtTyped, CtTypeOK
<1>4. CtRowsOk' /\ CtRowsAreMade' BY <1>2 DEF CtInv, CtRowsOk, CtRowOk, CtRowsAreMade, CtMade
<1>5. CtApplicationsOk' BY <1>2 DEF CtInv, CtApplicationsOk, CtApplicationOk, CtLost
<1>6. CtLocksHold' BY <1>2 DEF CtInv, CtLocksHold, CtLockedOk, CtHolds
<1>7. CtPublishedIsReady' /\ CtPlanIsPolicy' BY <1>2 DEF CtInv, CtPublishedIsReady, CtPlanIsPolicy
<1> QED BY <1>3, <1>4, <1>5, <1>6, <1>7 DEF CtInv

\* A request makes the missing rows.
LEMMA CtBeginStep ==
    ASSUME CtInv, NEW w \in CtWorkers, NEW request \in {"list", "patch", "plan", "activate"}, CtBegin(w, request)
    PROVE  CtInv'
<1>t. ctRows \in [CtKeys -> CtRow] BY DEF CtInv, CtTyped, CtTypeOK
<1>1. PICK s : s = [at |-> "ensure", for |-> request] OBVIOUS
<1>2. s \in CtWorks /\ s.at = "ensure" /\ CtGo(w, s) BY <1>1 DEF CtBegin, CtWorks, CtEnsuring
<1>3. ctRows' = [k \in CtKeys |-> IF ctRows[k] = CtAbsent THEN CtFresh ELSE ctRows[k]] BY DEF CtBegin
<1>4. PICK fresh : fresh = CtFresh OBVIOUS
<1>5. /\ fresh \in CtRow /\ CtRowOk(fresh) /\ fresh.status = "NOT_LICENSED" /\ fresh.plan = ""
    BY <1>4 DEF CtFresh, CtRow, CtRowOk
<1>6. CtAbsent.status = "ABSENT" BY DEF CtAbsent, CtFresh
<1>7. \A k \in CtKeys : ctRows'[k] = fresh \/ (ctRows'[k] = ctRows[k] /\ ctRows[k] # CtAbsent) BY <1>3, <1>4
<1>8. ctRows' \in [CtKeys -> CtRow] BY <1>t, <1>3, <1>4, <1>5
<1>9. CtRowsOk' BY <1>5, <1>7 DEF CtInv, CtRowsOk, CtRowOk
<1>10. CtMade' BY <1>5, <1>7 DEF CtInv, CtRowsAreMade, CtMade
<1>11. CtPlanIsPolicy' BY <1>5, <1>7 DEF CtInv, CtPlanIsPolicy, CtBegin
<1>12. ASSUME NEW k \in CtKeys, NEW u \in CtWorkers, u # w, CtKeyOf(u, k) PROVE ctRows'[k] = ctRows[k]
    BY <1>3, <1>6, <1>12 DEF CtInv, CtLocksHold, CtLockedOk, CtKeyOf
<1> QED BY <1>2, <1>8, <1>9, <1>10, <1>11, <1>12, CtRowsStep DEF CtBegin, CtInv, CtTyped, CtTypeOK

\* What a request that is bringing the rows up to date does next.
LEMMA CtThenIs ==
    ASSUME CtInv, NEW w \in CtWorkers, ctWork[w].at \in {"ensure", "legacy", "reinstate", "reconcile", "serve"},
           NEW at \in {"legacy", "reinstate", "reconcile", "serve"}, CtThen(w, at)
    PROVE  \E s \in CtWorks : s.at = at /\ CtGo(w, s)
<1>1. PICK r : r = ctWork[w] OBVIOUS
<1>2. r \in CtEnsuring BY <1>1, CtWorkKinds DEF CtInv, CtTyped
<1>3. PICK s : s = [at |-> at, for |-> r.for] OBVIOUS
<1>4. s \in CtWorks BY <1>2, <1>3 DEF CtEnsuring, CtWorks
<1> QED BY <1>1, <1>3, <1>4 DEF CtThen

\* The policy is read.
LEMMA CtReadPolicyStep ==
    ASSUME CtInv, NEW w \in CtWorkers, CtReadPolicy(w)
    PROVE  CtInv'
<1>1. PICK at : at = CASE ctPolicy = CtNone -> "legacy" [] ctPolicy = "FLEX" -> "reconcile" [] OTHER -> "serve" OBVIOUS
<1>2. at \in {"legacy", "reconcile", "serve"} BY <1>1
<1>3. CtThen(w, at) BY <1>1 DEF CtReadPolicy
<1>4. PICK s \in CtWorks : s.at = at /\ CtGo(w, s) BY <1>2, <1>3, CtThenIs DEF CtReadPolicy, CtAt
<1>5. CtMade BY CtWorkerFoundRows DEF CtReadPolicy, CtAt
<1> QED BY <1>2, <1>4, <1>5, CtQuietStep DEF CtReadPolicy

\* Rows of the unlimited plan are looked for.
LEMMA CtFindLegacyStep ==
    ASSUME CtInv, NEW w \in CtWorkers, CtFindLegacy(w)
    PROVE  CtInv'
<1>1. PICK at : at = IF \E k \in CtKeys : ctRows[k].plan = "FLEX" THEN "reinstate" ELSE "serve" OBVIOUS
<1>2. at \in {"reinstate", "serve"} BY <1>1
<1>3. CtThen(w, at) BY <1>1 DEF CtFindLegacy
<1>4. PICK s \in CtWorks : s.at = at /\ CtGo(w, s) BY <1>2, <1>3, CtThenIs DEF CtFindLegacy, CtAt
<1>5. CtMade BY CtWorkerFoundRows DEF CtFindLegacy, CtAt
<1> QED BY <1>2, <1>4, <1>5, CtQuietStep DEF CtFindLegacy

\* The policy of the unlimited plan is brought back.
LEMMA CtReinstateStep ==
    ASSUME CtInv, NEW w \in CtWorkers, CtReinstate(w)
    PROVE  CtInv'
<1>1. PICK s \in CtWorks : s.at = "reconcile" /\ CtGo(w, s) BY CtThenIs DEF CtReinstate, CtAt
<1>t. ctRows \in [CtKeys -> CtRow] /\ ctExcuse \in BOOLEAN /\ ctPolicy \in CtPlans \cup {CtNone, "FLEX"}
    BY DEF CtInv, CtTyped, CtTypeOK
<1>2. CtMade BY CtWorkerFoundRows DEF CtReinstate, CtAt
<1>3. CtMade' /\ CtRowsOk' BY <1>2 DEF CtMade, CtInv, CtRowsOk, CtRowOk, CtReinstate
<1>4. ctPolicy' = "FLEX" /\ ctRows' = ctRows /\ ctExcuse' = (ctExcuse \/ ctPolicy \in CtPlans \/ CtApplying)
    BY DEF CtReinstate
<1>5. CtPlanIsPolicy'
    <2>1. SUFFICES ASSUME ~ctExcuse', NEW k \in CtKeys, ctRows[k].plan # "" PROVE ctRows[k].plan = "FLEX"
        BY <1>4 DEF CtPlanIsPolicy
    <2>2. ~ctExcuse /\ ctPolicy \notin CtPlans BY <1>4, <2>1
    <2>3. ctPolicy = ctRows[k].plan \/ (ctPolicy = CtNone /\ ctRows[k].plan = "FLEX")
        BY <2>1, <2>2 DEF CtInv, CtPlanIsPolicy
    <2>4. ctRows[k].plan \in CtPlans \cup {"", "FLEX"} BY <1>t DEF CtRow
    <2> QED BY <2>1, <2>2, <2>3, <2>4
<1>6. ctExcuse' \in BOOLEAN BY <1>t, <1>4
<1> QED BY <1>t, <1>1, <1>3, <1>4, <1>5, <1>6, CtRowsStep DEF CtReinstate

\* The rows are made to agree with the unlimited plan.
LEMMA CtReconcileStep ==
    ASSUME CtInv, NEW w \in CtWorkers, CtReconcile(w)
    PROVE  CtInv'
<1>1. PICK s \in CtWorks : s.at = "serve" /\ CtGo(w, s) BY CtThenIs DEF CtReconcile, CtAt
<1>t. ctRows \in [CtKeys -> CtRow] /\ ctExcuse \in BOOLEAN BY DEF CtInv, CtTyped, CtTypeOK
<1>2. CtMade BY CtWorkerFoundRows DEF CtReconcile, CtAt
<1>3. ASSUME NEW k \in CtKeys
      PROVE  /\ ctRows'[k] \in CtRow /\ CtRowOk(ctRows[k])' /\ ctRows'[k].status # "ABSENT"
             /\ ctRows'[k].plan \in {"FLEX", ctRows[k].plan}
    <2>1. PICK new : new = ctRows'[k] OBVIOUS
    <2>2. new = CtReconciled(k) BY <2>1 DEF CtReconcile
    <2>3. PICK row : row = ctRows[k] OBVIOUS
    <2>4. row \in CtRow /\ CtRowOk(row) /\ row.status # "ABSENT" BY <1>t, <1>2, <2>3 DEF CtInv, CtRowsOk, CtMade
    <2>5. new \in CtRow /\ CtRowOk(new) /\ new.status # "ABSENT" /\ new.plan \in {"FLEX", row.plan}
        <3>1. CASE CtRuns(k)
            <4>1. new = CtGranted(row, "FLEX") BY <2>2, <2>3, <3>1 DEF CtReconciled
            <4> QED BY <2>4, <4>1, CtGrantedIs
        <3>2. CASE ~CtRuns(k) /\ row.plan = "FLEX"
            <4>1. new = CtRevoked(row) BY <2>2, <2>3, <3>2 DEF CtReconciled
            <4> QED BY <2>4, <4>1, CtRevokedIs DEF CtRowOk
        <3>3. CASE ~CtRuns(k) /\ row.plan # "FLEX"
            <4>1. new = row BY <2>2, <2>3, <3>3 DEF CtReconciled
            <4> QED BY <2>4, <4>1
        <3> QED BY <3>1, <3>2, <3>3
    <2> QED BY <2>1, <2>3, <2>5 DEF CtRowOk
<1>4. ctRows' \in [CtKeys -> CtRow] /\ CtRowsOk' /\ CtMade'
    <2>1. ctRows' = [k \in CtKeys |-> CtReconciled(k)] BY DEF CtReconcile
    <2> QED BY <1>3, <2>1 DEF CtRowsOk, CtMade
<1>5. ctPolicy' = ctPolicy /\ ctExcuse' = (ctExcuse \/ ctPolicy # "FLEX" \/ CtApplying) BY DEF CtReconcile
<1>6. CtPlanIsPolicy'
    <2>1. SUFFICES ASSUME ~ctExcuse', NEW k \in CtKeys, ctRows'[k].plan # "" PROVE ctRows'[k].plan = "FLEX" /\ ctPolicy' = "FLEX"
        BY DEF CtPlanIsPolicy
    <2>2. ~ctExcuse /\ ctPolicy = "FLEX" BY <1>5, <2>1
    <2>3. ctRows[k].plan # "" => ctRows[k].plan = "FLEX" BY <2>2 DEF CtInv, CtPlanIsPolicy, CtNone
    <2> QED BY <1>3, <1>5, <2>1, <2>2, <2>3
<1>7. ASSUME NEW k \in CtKeys, NEW u \in CtWorkers, u # w, CtKeyOf(u, k) PROVE ctRows'[k] = ctRows[k]
    BY <1>7, CtHeldIsLocked DEF CtReconcile, CtKeyOf
<1>8. ctExcuse' \in BOOLEAN BY <1>t, <1>5
<1> QED BY <1>1, <1>4, <1>5, <1>6, <1>7, <1>8, CtRowsStep DEF CtReconcile, CtInv, CtTyped, CtTypeOK

\* A request that only reads ends.
LEMMA CtServeStep ==
    ASSUME CtInv, NEW w \in CtWorkers, CtServe(w)
    PROVE  CtInv'
<1>1. PICK s : s = CtIdle OBVIOUS
<1>2. s \in CtWorks /\ s.at = "idle" /\ CtGo(w, s) BY <1>1, CtIdleIsWork DEF CtServe
<1> QED BY <1>2, CtQuietStep DEF CtServe

\* What an edit of a row's state writes is a consistent pair, or nothing.
LEMMA CtStateEditIs ==
    ASSUME CtAssumption, NEW row \in CtRow, CtRowOk(row), row.status # "ABSENT", NEW edit \in CtEdits,
           NEW state, state = CtStateEdit(row, edit)
    PROVE  state \in {<<>>} \cup CtStates
<1>r. row.status \in CtSettable /\ row.entitlement \in CtEntitlements BY DEF CtRow, CtSettable, CtEntitlements
<1>1. CASE "status" \in DOMAIN edit /\ edit.status # row.status
    <2>1. PICK status : status = edit.status OBVIOUS
    <2>2. status \in CtSettable BY <1>1, <2>1 DEF CtAssumption, CtSettable
    <2>3. state = CtStatusEdit(row, status) BY <1>1, <2>1 DEF CtStateEdit, CtAssumption
    <2> QED BY <1>r, <2>2, <2>3 DEF CtStatusEdit, CtStates, CtSettable, CtEntitlements
<1>2. CASE ~("status" \in DOMAIN edit /\ edit.status # row.status)
           /\ "entitlement" \in DOMAIN edit /\ edit.entitlement # row.entitlement
    <2>1. PICK entitlement : entitlement = edit.entitlement OBVIOUS
    <2>2. entitlement \in CtEntitlements BY <1>2, <2>1 DEF CtAssumption, CtEntitlements
    <2>3. state = CtEntitlementEdit(row, entitlement) BY <1>2, <2>1 DEF CtStateEdit
    <2> QED BY <1>r, <2>2, <2>3 DEF CtEntitlementEdit, CtStates, CtSettable, CtEntitlements
<1>3. CASE /\ ~("status" \in DOMAIN edit /\ edit.status # row.status)
           /\ ~("entitlement" \in DOMAIN edit /\ edit.entitlement # row.entitlement)
    BY <1>3 DEF CtStateEdit
<1> QED BY <1>1, <1>2, <1>3

\* A PATCH reads the row and works out what it writes.
LEMMA CtReadRowStep ==
    ASSUME CtInv, CtAssumption, NEW w \in CtWorkers, NEW k \in CtKeys, NEW edit \in CtEdits, NEW internal \in BOOLEAN,
           CtReadRow(w, k, edit, internal)
    PROVE  CtInv'
<1>0. CtMade BY CtWorkerFoundRows DEF CtReadRow, CtAt
<1>1. PICK row : row = ctRows[k] OBVIOUS
<1>2. row \in CtRow /\ CtRowOk(row) /\ row.status # "ABSENT"
    BY <1>0, <1>1 DEF CtInv, CtTyped, CtTypeOK, CtRowsOk, CtMade
<1>3. PICK state, terms : state = CtStateEdit(row, edit) /\ terms = CtTerms(row, edit) OBVIOUS
<1>4. state \in {<<>>} \cup CtStates BY <1>2, <1>3, CtStateEditIs
<1>5. terms \in CtTermSets
    <2>1. PICK S : S = (DOMAIN edit \cap {"included", "priced"}) \ CtSkipped(row, edit) OBVIOUS
    <2>2. S \in SUBSET {"included", "priced"} /\ \A f \in S : edit[f] \in BOOLEAN BY <2>1 DEF CtAssumption
    <2>3. terms = [f \in S |-> edit[f]] BY <1>3, <2>1 DEF CtTerms
    <2>4. terms \in [S -> BOOLEAN] BY <2>2, <2>3
    <2> QED BY <2>2, <2>4 DEF CtTermSets
<1>6. PICK s : s = IF CtRefused(row, edit, internal) THEN CtIdle
                   ELSE [at |-> "row", key |-> k, state |-> state, terms |-> terms]
    OBVIOUS
<1>7. CtGo(w, s) BY <1>1, <1>3, <1>6 DEF CtReadRow
<1>8. s \in CtWorks /\ s.at \in {"idle", "row"}
    <2>1. CASE CtRefused(row, edit, internal) BY <1>6, <2>1, CtIdleIsWork
    <2>2. CASE ~CtRefused(row, edit, internal) BY <1>4, <1>5, <1>6, <2>2 DEF CtWorks, CtPatchesOfRows
    <2> QED BY <2>1, <2>2
<1> QED BY <1>0, <1>7, <1>8, CtQuietStep DEF CtReadRow

\* It writes the pair and the terms into whatever the row has become.
LEMMA CtWriteRowStep ==
    ASSUME CtInv, NEW w \in CtWorkers, CtWriteRow(w)
    PROVE  CtInv'
<1>0. CtMade BY CtWorkerFoundRows DEF CtWriteRow, CtAt
<1>t. ctRows \in [CtKeys -> CtRow] BY DEF CtInv, CtTyped, CtTypeOK
<1>1. PICK r : r = ctWork[w] OBVIOUS
<1>2. r \in CtPatchesOfRows BY <1>1, CtWorkKinds DEF CtWriteRow, CtAt, CtInv, CtTyped
<1>3. PICK key, state, terms : key = r.key /\ state = r.state /\ terms = r.terms OBVIOUS
<1>4. key \in CtKeys /\ state \in {<<>>} \cup CtStates /\ terms \in CtTermSets BY <1>2, <1>3 DEF CtPatchesOfRows
<1>5. PICK row : row = ctRows[key] OBVIOUS
<1>6. row \in CtRow /\ CtRowOk(row) /\ row.status # "ABSENT" BY <1>0, <1>t, <1>4, <1>5 DEF CtInv, CtRowsOk, CtMade
<1>7. PICK mid : mid = CtMerge(row, state) OBVIOUS
<1>8. mid \in CtRow /\ CtRowOk(mid) /\ mid.status # "ABSENT" /\ mid.plan = row.plan BY <1>4, <1>6, <1>7, CtStateMerge
<1>9. PICK new : new = CtMerge(mid, terms) OBVIOUS
<1>10. new \in CtRow /\ CtRowOk(new) /\ new.status # "ABSENT" /\ new.plan = row.plan BY <1>4, <1>8, <1>9, CtTermsMerge
<1>11. ctRows' = [ctRows EXCEPT ![key] = new] BY <1>1, <1>3, <1>5, <1>7, <1>9, <1>t, <1>4 DEF CtWriteRow
<1>12. ctRows' \in [CtKeys -> CtRow] /\ ctRows'[key] = new /\ \A k \in CtKeys : k # key => ctRows'[k] = ctRows[k]
    BY <1>t, <1>4, <1>10, <1>11
<1>13. CtRowsOk' /\ CtMade' BY <1>0, <1>10, <1>12 DEF CtInv, CtRowsOk, CtRowOk, CtMade
<1>14. CtPlanIsPolicy' BY <1>5, <1>10, <1>12 DEF CtInv, CtPlanIsPolicy, CtWriteRow
<1>15. ASSUME NEW k \in CtKeys, NEW u \in CtWorkers, u # w, CtKeyOf(u, k) PROVE ctRows'[k] = ctRows[k]
    <2>1. CtUnlocked({key}) BY <1>1, <1>3 DEF CtWriteRow
    <2> QED BY <1>12, <1>15, <2>1, CtHeldIsLocked DEF CtKeyOf
<1>16. PICK s : s = CtIdle OBVIOUS
<1>17. s \in CtWorks /\ s.at = "idle" /\ CtGo(w, s) BY <1>16, CtIdleIsWork DEF CtWriteRow
<1> QED BY <1>12, <1>13, <1>14, <1>15, <1>17, CtRowsStep DEF CtWriteRow, CtInv, CtTyped, CtTypeOK

\* Billing chooses a plan: its modules are modules of the catalogue.
LEMMA CtChooseStep ==
    ASSUME CtInv, CtAssumption, NEW w \in CtWorkers, NEW plan \in CtChoices, CtChoose(w, plan)
    PROVE  CtInv'
<1>0. CtMade BY CtWorkerFoundRows DEF CtChoose, CtAt
<1>1. PICK target : target = CtTarget(plan) OBVIOUS
<1>2. target \subseteq CtKeys /\ (plan = "NO_PLAN" => target = {})
    <2>1. CASE plan = "FLEX" BY <1>1, <2>1 DEF CtTarget
    <2>2. CASE plan = "NO_PLAN" BY <1>1, <2>2 DEF CtTarget
    <2>3. CASE plan # "FLEX" /\ plan # "NO_PLAN"
        <3>1. plan \in CtPlans /\ target = CtGrants[plan] BY <1>1, <2>3 DEF CtTarget, CtChoices
        <3> QED BY <2>3, <3>1 DEF CtAssumption
    <2> QED BY <2>1, <2>2, <2>3
<1>3. PICK s : s = [at |-> "keys", plan |-> plan, target |-> target] OBVIOUS
<1>4. s \in CtWorks /\ s.at = "keys" /\ CtApplicationOk(s) BY <1>2, <1>3 DEF CtWorks, CtChosen, CtApplicationOk
<1>5. CtGo(w, s) BY <1>1, <1>3 DEF CtChoose
<1> QED BY <1>0, <1>4, <1>5, CtQuietStep DEF CtChoose

\* The modules are validated, and the rows are read to know which lose what they had.
LEMMA CtStartStep ==
    ASSUME CtInv, NEW w \in CtWorkers, CtStart(w)
    PROVE  CtInv'
<1>0. CtMade BY CtWorkerFoundRows DEF CtStart, CtAt
<1>1. PICK r : r = ctWork[w] OBVIOUS
<1>2. r \in CtChosen /\ CtApplicationOk(r)
    BY <1>1, CtWorkKinds DEF CtStart, CtAt, CtInv, CtTyped, CtApplicationsOk
<1> DEFINE refused == \E k \in r.target : ~(ctModules[k].published /\ ctModules[k].ready)
           lost == {k \in CtKeys \ r.target : CtLoses(k)}
           locks == r.plan # "NO_PLAN" \/ ctPolicy # CtNone
<1>3. PICK read, revoke, holds, alone :
          read = ctRows /\ revoke = lost /\ holds = locks /\ alone = ~CtApplying
    OBVIOUS
<1>4. revoke = {k \in CtKeys \ r.target : CtLost(read[k])}
    <2>1. \A k \in CtKeys : ctRows[k].planned \in BOOLEAN BY DEF CtInv, CtTyped, CtTypeOK, CtRow
    <2> QED BY <1>3, <2>1 DEF CtLoses, CtLost
<1>5. /\ read \in [CtKeys -> CtRow] /\ revoke \subseteq CtKeys /\ holds \in BOOLEAN /\ alone \in BOOLEAN
    <2>1. read \in [CtKeys -> CtRow] BY <1>3 DEF CtInv, CtTyped, CtTypeOK
    <2>2. holds \in BOOLEAN BY <1>3
    <2>3. alone \in BOOLEAN BY <1>3
    <2> QED BY <1>4, <2>1, <2>2, <2>3
<1> HIDE DEF refused, lost, locks
<1>6. PICK s : s = IF refused THEN CtIdle
                   ELSE [at |-> "apply", plan |-> r.plan, target |-> r.target, read |-> read,
                         revoke |-> revoke, holds |-> holds, alone |-> alone]
    OBVIOUS
<1>7. CtGo(w, s) BY <1>1, <1>3, <1>6 DEF CtStart, refused, lost, locks
<1>8. s \in CtWorks /\ s.at \in {"idle", "apply"} /\ (s.at = "apply" => CtApplicationOk(s))
    <2>1. CASE refused
        <3>1. s.at = "idle" /\ s \in CtWorks BY <1>6, <2>1, CtIdleIsWork
        <3> QED BY <3>1
    <2>2. CASE ~refused
        <3>1. s \in CtApplications /\ s.at = "apply" BY <1>2, <1>5, <1>6, <2>2 DEF CtChosen, CtApplications
        <3>2. s.plan = r.plan /\ s.target = r.target /\ s.revoke = revoke /\ s.read = read BY <1>6, <2>2
        <3>3. CtApplicationOk(s) BY <1>2, <1>4, <3>1, <3>2 DEF CtApplicationOk
        <3> QED BY <3>1, <3>3 DEF CtWorks
    <2> QED BY <2>1, <2>2
<1> QED BY <1>0, <1>7, <1>8, CtQuietStep DEF CtStart

\* What an application makes of a row.
LEMMA CtAppliedIs ==
    ASSUME NEW r \in CtApplications, CtApplicationOk(r), r.at = "apply", NEW k \in CtKeys, ctRows[k] \in CtRow,
           CtRowOk(ctRows[k]), ctRows[k].status # "ABSENT", NEW new, new = CtApplied(r, k)
    PROVE  /\ new \in CtRow /\ CtRowOk(new) /\ new.status # "ABSENT"
           /\ k \in r.target => new.status = "ACTIVE" /\ new.plan = r.plan /\ r.plan # "NO_PLAN"
           /\ k \in r.revoke => new.status = "NOT_LICENSED" /\ new.plan = ""
           /\ k \notin r.target \cup r.revoke => new = ctRows[k]
<1>1. PICK row : row = ctRows[k] OBVIOUS
<1>2. CASE k \in r.target
    <2>1. PICK plan : plan = r.plan OBVIOUS
    <2>2. plan \in CtPlans \cup {"FLEX"} /\ plan # "NO_PLAN" /\ k \notin r.revoke
        BY <1>2, <2>1 DEF CtApplications, CtApplicationOk, CtChoices
    <2>3. new = CtGranted(row, plan) BY <1>1, <1>2, <2>1, <2>2 DEF CtApplied
    <2>4. row \in CtRow BY <1>1
    <2>5. new \in CtRow /\ CtRowOk(new) /\ new.status = "ACTIVE" /\ new.plan = plan BY <2>2, <2>3, <2>4, CtGrantedIs
    <2> QED BY <1>2, <2>1, <2>2, <2>5
<1>3. CASE k \notin r.target /\ k \in r.revoke
    <2>1. PICK mid : mid = CtRevoked(row) OBVIOUS
    <2>2. row \in CtRow BY <1>1
    <2>3. mid \in CtRow /\ mid.status = "NOT_LICENSED" BY <2>1, <2>2, CtRevokedIs
    <2>4. new = [mid EXCEPT !.planned = TRUE, !.plan = ""] BY <1>1, <1>3, <2>1 DEF CtApplied
    <2>5. new \in CtRow /\ new.status = "NOT_LICENSED" /\ new.plan = "" BY <2>3, <2>4 DEF CtRow
    <2> QED BY <1>3, <2>5 DEF CtRowOk
<1>4. CASE k \notin r.target /\ k \notin r.revoke BY <1>4 DEF CtApplied
<1> QED BY <1>2, <1>3, <1>4

\* A plan that is applied while nothing changed leaves the rows its policy explains.
LEMMA CtCommitStep ==
    ASSUME CtInv, NEW w \in CtWorkers, CtCommit(w)
    PROVE  CtInv'
<1>0. CtMade BY CtWorkerFoundRows DEF CtCommit, CtAt
<1>t. ctRows \in [CtKeys -> CtRow] BY DEF CtInv, CtTyped, CtTypeOK
<1>1. PICK r : r = ctWork[w] OBVIOUS
<1>2. r \in CtApplications /\ CtApplicationOk(r) /\ r.at = "apply"
    BY <1>1, CtWorkKinds DEF CtCommit, CtAt, CtInv, CtTyped, CtApplicationsOk
<1>3. /\ ctRows' = [k \in CtKeys |-> CtApplied(r, k)]
      /\ ctPolicy' = IF r.plan # "NO_PLAN" THEN r.plan ELSE IF r.holds THEN CtNone ELSE ctPolicy
      /\ ctExcuse' = ~(r.alone /\ r.read = ctRows /\ \A u \in CtWorkers \ {w} : ~CtAt(u, "apply"))
      /\ CtUnlocked(r.target \cup r.revoke)
    BY <1>1 DEF CtCommit
<1>4. ASSUME NEW k \in CtKeys
      PROVE  /\ ctRows'[k] \in CtRow /\ CtRowOk(ctRows[k])' /\ ctRows'[k].status # "ABSENT"
             /\ k \in r.target => ctRows'[k].plan = r.plan /\ r.plan # "NO_PLAN"
             /\ k \in r.revoke => ctRows'[k].plan = ""
             /\ k \notin r.target \cup r.revoke => ctRows'[k] = ctRows[k]
    <2>1. PICK new : new = ctRows'[k] OBVIOUS
    <2>2. new = CtApplied(r, k) BY <1>3, <2>1
    <2>3. ctRows[k] \in CtRow /\ CtRowOk(ctRows[k]) /\ ctRows[k].status # "ABSENT"
        BY <1>0, <1>t DEF CtInv, CtRowsOk, CtMade
    <2>4. /\ new \in CtRow /\ CtRowOk(new) /\ new.status # "ABSENT"
          /\ k \in r.target => new.plan = r.plan /\ r.plan # "NO_PLAN"
          /\ k \in r.revoke => new.plan = ""
          /\ k \notin r.target \cup r.revoke => new = ctRows[k]
        BY <1>2, <2>2, <2>3, CtAppliedIs
    <2> QED BY <2>1, <2>4 DEF CtRowOk
<1>5. ctRows' \in [CtKeys -> CtRow] /\ CtRowsOk' /\ CtMade' BY <1>3, <1>4 DEF CtRowsOk, CtMade
<1>6. CtPlanIsPolicy'
    <2>1. SUFFICES ASSUME ~ctExcuse', NEW k \in CtKeys, ctRows'[k].plan # "" PROVE ctPolicy' = ctRows'[k].plan
        BY DEF CtPlanIsPolicy
    <2>2. r.read = ctRows BY <1>3, <2>1
    <2>3. CASE k \in r.target BY <1>3, <1>4, <2>3
    <2>4. CASE k \in r.revoke BY <1>4, <2>1, <2>4
    <2>5. CASE k \notin r.target /\ k \notin r.revoke
        <3>1. ~CtLost(ctRows[k]) BY <1>2, <2>2, <2>5 DEF CtApplicationOk
        <3>2. ctRows[k].plan = "" BY <3>1 DEF CtInv, CtRowsOk, CtRowOk, CtLost
        <3> QED BY <1>4, <2>1, <2>5, <3>2
    <2> QED BY <2>3, <2>4, <2>5
<1>7. ASSUME NEW k \in CtKeys, NEW u \in CtWorkers, u # w, CtKeyOf(u, k) PROVE ctRows'[k] = ctRows[k]
    BY <1>3, <1>4, <1>7, CtHeldIsLocked DEF CtKeyOf
<1>8. ctPolicy' \in CtPlans \cup {CtNone, "FLEX"}
    BY <1>2, <1>3 DEF CtApplications, CtChoices, CtInv, CtTyped, CtTypeOK
<1>9. ctExcuse' \in BOOLEAN BY <1>3
<1>10. PICK s : s = CtIdle OBVIOUS
<1>11. s \in CtWorks /\ s.at = "idle" /\ CtGo(w, s) BY <1>10, CtIdleIsWork DEF CtCommit
<1> QED BY <1>5, <1>6, <1>7, <1>8, <1>9, <1>11, CtRowsStep DEF CtCommit

\* An activation takes the module for itself, if it may be activated.
LEMMA CtLockStep ==
    ASSUME CtInv, NEW w \in CtWorkers, NEW k \in CtKeys, CtLock(w, k)
    PROVE  CtInv'
<1>0. CtMade BY CtWorkerFoundRows DEF CtLock, CtAt
<1>1. PICK s : s = IF CtMayActivate(k) THEN [at |-> "relations", key |-> k] ELSE CtIdle OBVIOUS
<1>2. CtGo(w, s) BY <1>1 DEF CtLock
<1>3. CASE CtMayActivate(k)
    <2>1. s \in CtWorks /\ s.at = "relations" /\ s.key = k BY <1>1, <1>3 DEF CtWorks, CtActivations
    <2>2. CtLockedOk(k)
        <3>1. ctModules[k] \in CtModule /\ ctRows[k] \in CtRow BY DEF CtInv, CtTyped, CtTypeOK
        <3>2. ctRows[k].status \in {"ABSENT", "NOT_LICENSED", "ACTIVE", "MAINTENANCE"} /\ ctRows[k].status # "ABSENT"
            BY <1>0, <3>1 DEF CtRow, CtMade
        <3>3. ctModules[k].published \in BOOLEAN /\ ctModules[k].available \in BOOLEAN
              /\ ctRows[k].included \in BOOLEAN /\ ctRows[k].priced \in BOOLEAN
            BY <3>1 DEF CtModule, CtRow
        <3>4. /\ ctModules[k].published /\ (ctRows[k].included \/ ctRows[k].priced)
              /\ ctRows[k].status \notin {"ACTIVE", "MAINTENANCE"} /\ ctModules[k].available
            BY <1>3 DEF CtMayActivate, CtReady
        <3>5. ctModules[k].published = TRUE /\ ctModules[k].available = TRUE BY <3>3, <3>4
        <3>6. ctRows[k].included = TRUE \/ ctRows[k].priced = TRUE BY <3>3, <3>4
        <3>7. ctRows[k].status = "NOT_LICENSED" BY <3>2, <3>4
        <3> QED BY <3>5, <3>6, <3>7 DEF CtLockedOk
    <2>3. \A u \in CtWorkers : u # w => ~CtKeyOf(u, k)
        <3>1. CtUnlocked({k}) BY DEF CtLock
        <3> QED BY <3>1, CtHeldIsLocked DEF CtKeyOf
    <2>4. CtLockedOk(s.key) /\ \A u \in CtWorkers : u # w => ~CtKeyOf(u, s.key) BY <2>1, <2>2, <2>3
    <2> QED BY <1>0, <1>2, <2>1, <2>4, CtQuietStep DEF CtLock
<1>4. CASE ~CtMayActivate(k)
    <2>1. s \in CtWorks /\ s.at = "idle" BY <1>1, <1>4, CtIdleIsWork
    <2> QED BY <1>0, <1>2, <2>1, CtQuietStep DEF CtLock
<1> QED BY <1>3, <1>4

\* It reads the other modules, and holds its own meanwhile.
LEMMA CtCheckStep ==
    ASSUME CtInv, NEW w \in CtWorkers, CtCheck(w)
    PROVE  CtInv'
<1>0. CtMade BY CtWorkerFoundRows DEF CtCheck, CtAt
<1>1. PICK key : key = ctWork[w].key OBVIOUS
<1>2. CtHolds(w) BY DEF CtCheck, CtAt, CtHolds
<1>3. key \in CtKeys /\ CtLockedOk(key) BY <1>1, <1>2, CtHeldIsLocked DEF CtInv, CtLocksHold
<1>4. PICK s : s = IF CtBlocked(key) THEN CtIdle ELSE [at |-> "activate", key |-> key] OBVIOUS
<1>5. CtGo(w, s) BY <1>1, <1>4 DEF CtCheck
<1>6. CASE CtBlocked(key)
    <2>1. s \in CtWorks /\ s.at = "idle" BY <1>4, <1>6, CtIdleIsWork
    <2> QED BY <1>0, <1>5, <2>1, CtQuietStep DEF CtCheck
<1>7. CASE ~CtBlocked(key)
    <2>1. s \in CtWorks /\ s.at = "activate" /\ s.key = key BY <1>3, <1>4, <1>7 DEF CtWorks, CtActivations
    <2>2. \A u \in CtWorkers : u # w => ~CtKeyOf(u, key) BY <1>1, <1>2 DEF CtInv, CtLocksHold, CtKeyOf
    <2>3. CtLockedOk(s.key) /\ \A u \in CtWorkers : u # w => ~CtKeyOf(u, s.key) BY <1>3, <2>1, <2>2
    <2> QED BY <1>0, <1>5, <2>1, <2>3, CtQuietStep DEF CtCheck
<1> QED BY <1>6, <1>7

\* It makes the row active, with the entitlement.
LEMMA CtActivateStep ==
    ASSUME CtInv, NEW w \in CtWorkers, CtActivate(w)
    PROVE  CtInv'
<1>0. CtMade BY CtWorkerFoundRows DEF CtActivate, CtAt
<1>t. ctRows \in [CtKeys -> CtRow] BY DEF CtInv, CtTyped, CtTypeOK
<1>1. PICK key : key = ctWork[w].key OBVIOUS
<1>2. CtHolds(w) BY DEF CtActivate, CtAt, CtHolds
<1>3. key \in CtKeys BY <1>1, <1>2, CtHeldIsLocked
<1>4. PICK row : row = ctRows[key] OBVIOUS
<1>5. row \in CtRow /\ CtRowOk(row) BY <1>t, <1>3, <1>4 DEF CtInv, CtRowsOk
<1>6. PICK new : new = [row EXCEPT !.status = "ACTIVE", !.entitlement = "ACTIVE"] OBVIOUS
<1>7. new \in CtRow /\ CtRowOk(new) /\ new.status = "ACTIVE" /\ new.plan = row.plan BY <1>5, <1>6 DEF CtRow, CtRowOk
<1>8. ctRows' = [ctRows EXCEPT ![key] = new] BY <1>t, <1>1, <1>3, <1>4, <1>6 DEF CtActivate
<1>9. ctRows' \in [CtKeys -> CtRow] /\ ctRows'[key] = new /\ \A k \in CtKeys : k # key => ctRows'[k] = ctRows[k]
    BY <1>t, <1>3, <1>7, <1>8
<1>10. CtRowsOk' /\ CtMade' BY <1>0, <1>7, <1>9 DEF CtInv, CtRowsOk, CtRowOk, CtMade
<1>11. CtPlanIsPolicy' BY <1>4, <1>7, <1>9 DEF CtInv, CtPlanIsPolicy, CtActivate
<1>12. ASSUME NEW k \in CtKeys, NEW u \in CtWorkers, u # w, CtKeyOf(u, k) PROVE ctRows'[k] = ctRows[k]
    BY <1>1, <1>2, <1>9, <1>12 DEF CtInv, CtLocksHold, CtKeyOf
<1>13. PICK s : s = CtIdle OBVIOUS
<1>14. s \in CtWorks /\ s.at = "idle" /\ CtGo(w, s) BY <1>13, CtIdleIsWork DEF CtActivate
<1> QED BY <1>9, <1>10, <1>11, <1>12, <1>14, CtRowsStep DEF CtActivate, CtInv, CtTyped, CtTypeOK

\* A new partner, and one of an older unlimited plan, are in order.
LEMMA CtInitInv == CtInit => CtInv
<1> SUFFICES ASSUME CtInit PROVE CtInv OBVIOUS
<1>1. PICK absent, fresh, granted : absent = CtAbsent /\ fresh = CtFresh /\ granted = CtGranted(fresh, "FLEX") OBVIOUS
<1>2. fresh \in CtRow BY <1>1 DEF CtFresh, CtRow
<1>3. absent \in CtRow /\ CtRowOk(absent) /\ absent.plan = "" BY <1>1 DEF CtAbsent, CtFresh, CtRow, CtRowOk
<1>4. granted \in CtRow /\ CtRowOk(granted) /\ granted.status # "ABSENT" /\ granted.plan = "FLEX"
    BY <1>1, <1>2, CtGrantedIs
<1>5. (\A k \in CtKeys : ctRows[k] = absent) \/ (\A k \in CtKeys : ctRows[k] = granted) BY <1>1 DEF CtInit
<1>6. ctRows \in [CtKeys -> CtRow]
    <2>1. ctRows = [k \in CtKeys |-> absent] \/ ctRows = [k \in CtKeys |-> granted] BY <1>1 DEF CtInit
    <2> QED BY <1>3, <1>4, <2>1
<1>7. ctModules \in [CtKeys -> CtModule] /\ \A k \in CtKeys : ctModules[k].published => ctModules[k].ready
    BY DEF CtInit
<1>8. \A w \in CtWorkers : ctWork[w] \in CtWorks /\ ctWork[w].at = "idle" BY CtIdleIsWork DEF CtInit
<1>9. CtTyped BY <1>6, <1>7, CtIdleIsWork DEF CtInit, CtTyped, CtTypeOK
<1>10. CtRowsOk BY <1>3, <1>4, <1>5 DEF CtRowsOk
<1>11. CtRowsAreMade BY <1>1, <1>4, <1>5, <1>8 DEF CtRowsAreMade, CtMade
<1>12. CtApplicationsOk /\ CtLocksHold BY <1>8 DEF CtApplicationsOk, CtLocksHold, CtHolds
<1>13. CtPublishedIsReady BY <1>7 DEF CtPublishedIsReady
<1>14. CtPlanIsPolicy BY <1>3, <1>4, <1>5 DEF CtInit, CtPlanIsPolicy
<1> QED BY <1>9, <1>10, <1>11, <1>12, <1>13, <1>14 DEF CtInv

\* A step that is none keeps the invariant.
LEMMA CtStutter == ASSUME CtInv, UNCHANGED ctVars PROVE CtInv'
<1>1. UNCHANGED <<ctModules, ctRelated, ctRows, ctPolicy, ctWork, ctExcuse>> BY DEF ctVars
<1>2. CtTyped' BY <1>1 DEF CtInv, CtTyped, CtTypeOK
<1>3. CtRowsOk' /\ CtRowsAreMade' BY <1>1 DEF CtInv, CtRowsOk, CtRowOk, CtRowsAreMade, CtMade
<1>4. CtApplicationsOk' BY <1>1 DEF CtInv, CtApplicationsOk, CtApplicationOk, CtLost
<1>5. CtLocksHold' BY <1>1 DEF CtInv, CtLocksHold, CtLockedOk, CtHolds
<1>6. CtPublishedIsReady' /\ CtPlanIsPolicy' BY <1>1 DEF CtInv, CtPublishedIsReady, CtPlanIsPolicy
<1> QED BY <1>2, <1>3, <1>4, <1>5, <1>6 DEF CtInv

\* Every step keeps the invariant.
LEMMA CtStepInv == CtInv /\ [CtNext]_ctVars => CtInv'
<1> SUFFICES ASSUME CtInv, [CtNext]_ctVars PROVE CtInv' OBVIOUS
<1>1. CASE UNCHANGED ctVars BY <1>1, CtStutter
<1>2. CASE CtNext
    <2>1. PICK w \in CtWorkers :
              \/ \E k \in CtKeys, edit \in CtModuleEdits : CtReadModule(w, k, edit)
              \/ CtWriteModule(w)
              \/ \E r \in CtRelations : CtRelate(w, r)
              \/ \E request \in {"list", "patch", "plan", "activate"} : CtBegin(w, request)
              \/ CtReadPolicy(w) \/ CtFindLegacy(w) \/ CtReinstate(w) \/ CtReconcile(w) \/ CtServe(w)
              \/ \E k \in CtKeys, edit \in CtEdits, internal \in BOOLEAN : CtReadRow(w, k, edit, internal)
              \/ CtWriteRow(w)
              \/ \E plan \in CtChoices : CtChoose(w, plan)
              \/ CtStart(w) \/ CtCommit(w)
              \/ \E k \in CtKeys : CtLock(w, k)
              \/ CtCheck(w) \/ CtActivate(w)
        BY <1>2 DEF CtNext, CtChoices
    <2>2. CASE \E k \in CtKeys, edit \in CtModuleEdits : CtReadModule(w, k, edit)
        BY <2>2, CtAssumption, CtReadModuleStep
    <2>3. CASE CtWriteModule(w) \/ \E r \in CtRelations : CtRelate(w, r) BY <2>3, CtWriteModuleStep, CtRelateStep
    <2>4. CASE \E request \in {"list", "patch", "plan", "activate"} : CtBegin(w, request) BY <2>4, CtBeginStep
    <2>5. CASE CtReadPolicy(w) \/ CtFindLegacy(w) \/ CtReinstate(w) \/ CtReconcile(w) \/ CtServe(w)
        BY <2>5, CtReadPolicyStep, CtFindLegacyStep, CtReinstateStep, CtReconcileStep, CtServeStep
    <2>6. CASE \E k \in CtKeys, edit \in CtEdits, internal \in BOOLEAN : CtReadRow(w, k, edit, internal)
        BY <2>6, CtAssumption, CtReadRowStep
    <2>7. CASE CtWriteRow(w) \/ CtStart(w) \/ CtCommit(w) BY <2>7, CtWriteRowStep, CtStartStep, CtCommitStep
    <2>8. CASE \E plan \in CtChoices : CtChoose(w, plan) BY <2>8, CtAssumption, CtChooseStep
    <2>9. CASE (\E k \in CtKeys : CtLock(w, k)) \/ CtCheck(w) \/ CtActivate(w)
        BY <2>9, CtLockStep, CtCheckStep, CtActivateStep
    <2> QED BY <2>1, <2>2, <2>3, <2>4, <2>5, <2>6, <2>7, <2>8, <2>9
<1> QED BY <1>1, <1>2

\* CtInv is an invariant of the catalogue.
LEMMA CtInvariant == CtSpec => []CtInv
BY CtInitInv, CtStepInv, PTL DEF CtSpec

\* What the portal offers is what an activation looks at.
LEMMA CtOffersAreHonoured == CtOfferIsHonoured
<1> SUFFICES ASSUME NEW k \in CtKeys, NEW visible \in SUBSET CtKeys, CtOffered(k, visible)
             PROVE  /\ CtMayActivate(k)
                    /\ \/ ~CtBlocked(k)
                       \/ \E t \in CtKeys \ visible : <<k, "CONFLICTS_WITH", t>> \in ctRelated /\ ~ctModules[t].published
    BY DEF CtOfferIsHonoured
<1> DEFINE shown == visible \cup {j \in CtKeys : ctModules[j].published}
           active == {j \in shown : ctRows[j].status = "ACTIVE"}
<1>1. /\ k \in shown \ active /\ CtRuns(k) /\ ctRows[k].status # "MAINTENANCE" /\ CtReady(ctRows[k])
      /\ \A t \in CtKeys :
            /\ <<k, "REQUIRES", t>> \in ctRelated => t \in active
            /\ <<k, "CONFLICTS_WITH", t>> \in ctRelated => t \notin active
    BY DEF CtOffered
<1>2. CtMayActivate(k) BY <1>1 DEF CtMayActivate, CtRuns
<1>3. ASSUME CtBlocked(k)
      PROVE  \E t \in CtKeys \ visible : <<k, "CONFLICTS_WITH", t>> \in ctRelated /\ ~ctModules[t].published
    <2>1. PICK t \in CtKeys : <<k, "CONFLICTS_WITH", t>> \in ctRelated /\ ctRows[t].status = "ACTIVE"
        BY <1>1, <1>3 DEF CtBlocked
    <2>2. t \notin shown BY <1>1, <2>1
    <2> QED BY <2>1, <2>2
<1> QED BY <1>2, <1>3

\* The invariant says what is promised of every state.
LEMMA CtInvIsSafe ==
    CtInv => CtTypeOK /\ CtPublishedIsReady /\ CtActiveIsEntitled /\ CtPlanIsPolicy /\ CtOfferIsHonoured
BY CtOffersAreHonoured DEF CtInv, CtTyped, CtRowsOk, CtRowOk, CtActiveIsEntitled

\* What an activation checked still holds when it writes.
LEMMA CtStepIsOffered == CtInv => CtActivationIsOffered
<1> SUFFICES ASSUME CtInv, NEW w \in CtWorkers, CtActivate(w), NEW k, k = ctWork[w].key
             PROVE  ctModules[k].published /\ ctModules[k].available /\ CtReady(ctRows[k]) /\ ctRows[k].status = "NOT_LICENSED"
    BY DEF CtActivationIsOffered
<1>1. CtLockedOk(k) BY DEF CtInv, CtLocksHold, CtHolds, CtActivate, CtAt
<1> QED BY <1>1 DEF CtLockedOk, CtReady

\* An application that nothing overtook leaves active what the plan grants.
LEMMA CtStepIsExact == CtInv => CtPlanIsExact
<1> SUFFICES ASSUME CtInv, NEW w \in CtWorkers, CtCommit(w), ctWork[w].read = ctRows
             PROVE  {k \in CtKeys : ctRows'[k].status = "ACTIVE"} = ctWork[w].target
    BY DEF CtPlanIsExact
<1>0. CtMade BY CtWorkerFoundRows DEF CtCommit, CtAt
<1>1. PICK r : r = ctWork[w] OBVIOUS
<1>2. r \in CtApplications /\ CtApplicationOk(r) /\ r.at = "apply"
    BY <1>1, CtWorkKinds DEF CtCommit, CtAt, CtInv, CtTyped, CtApplicationsOk
<1>3. \A k \in CtKeys : ctRows'[k] = CtApplied(r, k) BY <1>1 DEF CtCommit
<1>4. ASSUME NEW k \in CtKeys PROVE ctRows'[k].status = "ACTIVE" <=> k \in r.target
    <2>1. PICK new : new = ctRows'[k] OBVIOUS
    <2>2. ctRows[k] \in CtRow /\ CtRowOk(ctRows[k]) /\ ctRows[k].status # "ABSENT"
        BY <1>0 DEF CtInv, CtTyped, CtTypeOK, CtRowsOk, CtMade
    <2>3. new = CtApplied(r, k) BY <1>3, <2>1
    <2>4. /\ k \in r.target => new.status = "ACTIVE"
          /\ k \in r.revoke => new.status = "NOT_LICENSED"
          /\ k \notin r.target \cup r.revoke => new = ctRows[k]
        BY <1>2, <2>2, <2>3, CtAppliedIs
    <2>5. k \notin r.target \cup r.revoke => ctRows[k].status # "ACTIVE"
        BY <1>1, <1>2 DEF CtApplicationOk, CtLost
    <2>6. k \in r.revoke => k \notin r.target BY <1>2 DEF CtApplicationOk
    <2> QED BY <2>1, <2>4, <2>5, <2>6
<1>5. r.target \subseteq CtKeys BY <1>2 DEF CtApplications
<1> QED BY <1>1, <1>4, <1>5

\* CtInv shows what the catalogue answers for (EntitlementsSafe), for any modules, plans, edits
\* and number of requests: what is active is entitled and what is published is ready, rows carry
\* the plan of the policy and a plan leaves active exactly what it grants, unless requests
\* overlapped, and the portal offers and activates only what may be activated.
THEOREM PlansDecideEntitlements == CtSpec => EntitlementsSafe
<1>1. CtInv /\ [CtNext]_ctVars => [CtActivationIsOffered /\ CtPlanIsExact]_ctVars
    BY CtStepIsOffered, CtStepIsExact
<1> QED BY <1>1, CtInvariant, CtInvIsSafe, PTL DEF CtSpec, EntitlementsSafe

-------------------------------------------------------------------------------
(* What a line and an invoice come to: InvoiceMath. *)


\* The sums are amounts, and add up.
ImSums == [subtotal : 0..ImMax, tax : 0..ImMax, total : 0..ImMax]
ImInv ==
    /\ imTotals \in ImSums /\ imTotals.total = imTotals.subtotal + imTotals.tax
    /\ imLines \in Nat /\ imStatus \in {"CALCULATED", "REFUSED"}
\* The lines an invoice may have.
ImLineType == [quantity : Int, price : Int, discount : Int, rate : Int]

\* Division by a positive number leaves a remainder below it.
LEMMA ImDivision ==
    ASSUME NEW n \in Nat, NEW d \in Nat \ {0}
    PROVE  (n \div d) \in Nat /\ d * (n \div d) <= n /\ n < d * (n \div d) + d
OBVIOUS

\* What remains of a number below the divisor, and of one below its double.
LEMMA ImRemainder ==
    ASSUME NEW n \in Nat, NEW d \in Nat \ {0}
    PROVE  /\ n < d => (n % d) = n
           /\ d <= n /\ n < 2 * d => (n % d) = n - d
<1>1. (n % d) \in Nat /\ (n % d) < d /\ n = d * (n \div d) + (n % d) /\ (n \div d) \in Nat OBVIOUS
<1>2. PICK q, r : q = (n \div d) /\ r = (n % d) OBVIOUS
<1>3. q \in Nat /\ r \in Nat /\ r < d /\ n = d * q + r BY <1>1, <1>2
<1>4. ASSUME n < d PROVE q = 0
    <2>1. CASE q >= 1
        <3>1. d * q >= d BY <1>3, <2>1
        <3> QED BY <1>3, <1>4, <3>1
    <2> QED BY <1>3, <2>1
<1>5. ASSUME d <= n, n < 2 * d PROVE q = 1
    <2>1. CASE q >= 2
        <3>1. d * q >= 2 * d BY <1>3, <2>1
        <3> QED BY <1>3, <1>5, <3>1
    <2>2. CASE q = 0
        <3>1. d * q = 0 BY <2>2
        <3> QED BY <1>3, <1>5, <3>1
    <2> QED BY <1>3, <2>1, <2>2
<1>6. ASSUME n < d PROVE r = n
    <2>1. d * q = 0 BY <1>4, <1>6
    <2> QED BY <1>3, <2>1
<1>7. ASSUME d <= n, n < 2 * d PROVE r = n - d
    <2>1. d * q = d BY <1>5, <1>7
    <2> QED BY <1>3, <2>1
<1> QED BY <1>2, <1>6, <1>7

\* An integer in range is kept, and one above it, though not by much, comes out below zero.
LEMMA ImWrapIs ==
    ASSUME ImAssumption, NEW n \in Int
    PROVE  /\ -(ImMax + 1) <= n /\ n <= ImMax => ImWrap(n) = n
           /\ ImMax < n /\ n <= 3 * ImMax + 2 => ImWrap(n) = n - 2 * (ImMax + 1)
<1>1. PICK d, m : d = 2 * (ImMax + 1) /\ m = n + ImMax + 1 OBVIOUS
<1>2. ImMax \in Nat \ {0} BY DEF ImAssumption
<1>3. d \in Nat \ {0} /\ m \in Int BY <1>1, <1>2
<1>4. ImWrap(n) = (m % d) - (ImMax + 1) BY <1>1 DEF ImWrap
<1>5. ASSUME -(ImMax + 1) <= n, n <= ImMax PROVE ImWrap(n) = n
    <2>1. m \in Nat /\ m < d BY <1>1, <1>2, <1>3, <1>5
    <2>2. (m % d) = m BY <2>1, <1>3, ImRemainder
    <2> QED BY <1>1, <1>2, <1>4, <2>2
<1>6. ASSUME ImMax < n, n <= 3 * ImMax + 2 PROVE ImWrap(n) = n - 2 * (ImMax + 1)
    <2>1. m \in Nat /\ d <= m /\ m < 2 * d BY <1>1, <1>2, <1>3, <1>6
    <2>2. (m % d) = m - d BY <2>1, <1>3, ImRemainder
    <2> QED BY <1>1, <1>2, <1>4, <2>2
<1> QED BY <1>5, <1>6

\* An even number has a half.
LEMMA ImHalf ==
    ASSUME NEW d \in Nat \ {0}, (d % 2) = 0
    PROVE  (d \div 2) \in Nat \ {0} /\ 2 * (d \div 2) = d
OBVIOUS

\* A quotient that stays in range is the product rounded half up.
LEMMA ImRoundsExactly ==
    ASSUME ImAssumption, NEW x \in Nat, NEW d \in Nat \ {0}, (d % 2) = 0, x + (d \div 2) <= ImMax
    PROVE  safeRoundDiv(ImWrap(x), d) \in 0..ImMax /\ ImRounds(safeRoundDiv(ImWrap(x), d), x, d)
<1>0. ImMax \in Nat \ {0} BY DEF ImAssumption
<1>1. PICK h : h = d \div 2 OBVIOUS
<1>2. h \in Nat \ {0} /\ 2 * h = d /\ x + h <= ImMax BY <1>1, ImHalf
<1>3. ImWrap(x) = x BY <1>0, <1>2, ImWrapIs
<1>4. ImWrap(x + h) = x + h BY <1>0, <1>2, ImWrapIs
<1>5. safeRoundDiv(ImWrap(x), d) = ImQuotient(x + h, d)
    BY <1>1, <1>3, <1>4 DEF safeRoundDiv
<1>6. PICK n : n = (x + h) \div d OBVIOUS
<1>7. safeRoundDiv(ImWrap(x), d) = n BY <1>2, <1>5, <1>6 DEF ImQuotient
<1>8. n \in Nat /\ d * n <= x + h /\ x + h < d * n + d
    <2>1. PICK m : m = x + h OBVIOUS
    <2>2. m \in Nat /\ n = m \div d BY <1>2, <1>6, <2>1
    <2> QED BY <2>1, <2>2, ImDivision
<1>9. n <= d * n
    <2>1. d >= 1 OBVIOUS
    <2> QED BY <1>8, <2>1
<1>10. n \in 0..ImMax BY <1>0, <1>2, <1>8, <1>9
<1>11. ImRounds(n, x, d)
    <2>1. PICK y : y = d * n OBVIOUS
    <2>2. y \in Nat /\ 2 * n * d = 2 * y BY <1>8, <2>1
    <2> QED BY <1>2, <1>8, <2>1, <2>2 DEF ImRounds
<1> QED BY <1>7, <1>10, <1>11

\* One that does not comes out below zero.
LEMMA ImRoundsBelow ==
    ASSUME ImAssumption, NEW x \in 0..ImMax, NEW d \in Nat \ {0}, (d % 2) = 0, d + (d \div 2) <= ImMax, x + (d \div 2) > ImMax
    PROVE  safeRoundDiv(ImWrap(x), d) \in (-(ImMax + 1))..(-1)
<1>0. ImMax \in Nat \ {0} BY DEF ImAssumption
<1>1. PICK h : h = d \div 2 OBVIOUS
<1>2. h \in Nat \ {0} /\ 2 * h = d /\ x + h > ImMax /\ d + h <= ImMax BY <1>1, ImHalf
<1>3. ImWrap(x) = x BY <1>0, ImWrapIs
<1>4. ImWrap(x + h) = x + h - 2 * (ImMax + 1) BY <1>0, <1>2, ImWrapIs
<1>5. PICK v : v = 2 * (ImMax + 1) - (x + h) OBVIOUS
<1>6. v \in Nat /\ d < v /\ v <= ImMax + 1 /\ -v = x + h - 2 * (ImMax + 1) /\ ~(-v >= 0) /\ -(-v) = v BY <1>0, <1>2, <1>5
<1>7. safeRoundDiv(ImWrap(x), d) = ImQuotient(-v, d) BY <1>1, <1>3, <1>4, <1>6 DEF safeRoundDiv
<1>8. PICK n : n = v \div d OBVIOUS
<1>9. safeRoundDiv(ImWrap(x), d) = -n BY <1>6, <1>7, <1>8 DEF ImQuotient
<1>10. n \in Nat /\ d * n <= v /\ v < d * n + d BY <1>6, <1>8, ImDivision
<1>11. n # 0
    <2>1. n = 0 => d * n = 0 OBVIOUS
    <2> QED BY <1>6, <1>10, <2>1
<1>12. n <= d * n
    <2>1. d >= 1 OBVIOUS
    <2> QED BY <1>10, <2>1
<1>13. n <= ImMax + 1 BY <1>0, <1>6, <1>10, <1>12
<1> QED BY <1>0, <1>9, <1>10, <1>11, <1>13

\* The comparison of a sum with what is left finds room exactly where there is, and never for
\* an amount below zero.
LEMMA ImRoomIs ==
    ASSUME ImAssumption, NEW sum \in 0..ImMax, NEW amount \in (-(ImMax + 1))..ImMax
    PROVE  ImRoom(sum, amount) <=> amount >= 0 /\ sum + amount <= ImMax
<1>0. ImMax \in Nat \ {0} BY DEF ImAssumption
<1>1. CASE amount >= 0
    <2>1. ImWrap(ImMax - amount) = ImMax - amount BY <1>0, <1>1, ImWrapIs
    <2> QED BY <1>0, <1>1, <2>1 DEF ImRoom
<1>2. CASE amount < 0
    <2>1. ImWrap(ImMax - amount) = ImMax - amount - 2 * (ImMax + 1) BY <1>0, <1>2, ImWrapIs
    <2> QED BY <1>0, <1>2, <2>1 DEF ImRoom
<1> QED BY <1>1, <1>2

\* Products of numbers within limits are within the limits' product.
LEMMA ImProduct ==
    ASSUME NEW a \in Nat, NEW b \in Nat, NEW x \in Nat, NEW y \in Nat, a <= x, b <= y
    PROVE  a * b \in Nat /\ a * b <= x * y
<1>1. a * b <= x * b OBVIOUS
<1>2. x * b <= x * y OBVIOUS
<1> QED BY <1>1, <1>2

\* A factor of what is within a limit is within the limit's quotient.
LEMMA ImFactor ==
    ASSUME NEW a \in Nat, NEW d \in Nat \ {0}, NEW n \in Nat
    PROVE  d * a <= n <=> a <= n \div d
<1>1. PICK q : q = n \div d OBVIOUS
<1>2. q \in Nat /\ d * q <= n /\ n < d * q + d BY <1>1, ImDivision
<1>3. CASE a <= q
    <2>1. d * a <= d * q BY <1>2, <1>3
    <2> QED BY <1>1, <1>2, <1>3, <2>1
<1>4. CASE a > q
    <2>1. a >= q + 1 BY <1>2, <1>4
    <2>2. d * a >= d * (q + 1) BY <1>2, <2>1
    <2>3. d * (q + 1) = d * q + d BY <1>2
    <2> QED BY <1>1, <1>2, <1>4, <2>2, <2>3
<1> QED BY <1>2, <1>3, <1>4

\* The gross amount of a line within the limits is exact: no such product leaves the range.
LEMMA ImGrossIs ==
    ASSUME ImAssumption, NEW in \in ImLineType, ImSupported(in)
    PROVE  /\ in.quantity * in.price \in 0..ImMax
           /\ ImGross(in) \in 0..ImMax /\ ImRounds(ImGross(in), in.quantity * in.price, ImMilli)
<1>1. PICK x : x = in.quantity * in.price OBVIOUS
<1>2. in.quantity \in Nat \ {0} /\ in.price \in Nat /\ in.quantity <= ImMaxQuantity /\ in.price <= ImMaxPrice
    BY DEF ImAssumption, ImSupported, ImLineType
<1>3. ImMaxQuantity \in Nat /\ ImMaxPrice \in Nat /\ ImMax \in Nat /\ ImMilli \in Nat \ {0} /\ (ImMilli % 2) = 0
      /\ ImMaxQuantity * ImMaxPrice + (ImMilli \div 2) <= ImMax
    BY DEF ImAssumption
<1>4. PICK h : h = ImMilli \div 2 OBVIOUS
<1>5. PICK l : l = ImMaxQuantity * ImMaxPrice OBVIOUS
<1>6. h \in Nat BY <1>3, <1>4, ImHalf
<1>7. x \in Nat /\ x <= l BY <1>1, <1>2, <1>3, <1>5, ImProduct
<1>8. x + h <= ImMax
    <2>1. l + h <= ImMax BY <1>3, <1>4, <1>5
    <2>2. l \in Nat BY <1>3, <1>5
    <2> QED BY <1>3, <1>6, <1>7, <2>1, <2>2
<1>9. safeRoundDiv(ImWrap(x), ImMilli) \in 0..ImMax /\ ImRounds(safeRoundDiv(ImWrap(x), ImMilli), x, ImMilli)
    BY <1>3, <1>4, <1>7, <1>8, ImRoundsExactly
<1>10. x \in 0..ImMax BY <1>3, <1>6, <1>7, <1>8
<1> QED BY <1>1, <1>9, <1>10 DEF ImGross

\* The amounts of a line that passes the guards of its own: none of its products has left the
\* range, and its tax is exact when its half fits, and below zero otherwise.
LEMMA ImLineAmounts ==
    ASSUME ImAssumption, NEW in \in ImLineType, ImSupported(in), ImNet(in) \in 0..ImMax,
           ImNet(in) * in.rate \in 0..ImMax
    PROVE  /\ ImNet(in) * in.rate + (ImBps \div 2) <= ImMax =>
                  ImTax(in) \in 0..ImMax /\ ImRounds(ImTax(in), ImNet(in) * in.rate, ImBps)
           /\ ImNet(in) * in.rate + (ImBps \div 2) > ImMax => ImTax(in) \in (-(ImMax + 1))..(-1)
<1>1. PICK x : x = ImNet(in) * in.rate OBVIOUS
<1>2. ImMax \in Nat /\ ImBps \in Nat \ {0} /\ (ImBps % 2) = 0 /\ ImBps + (ImBps \div 2) <= ImMax
    BY DEF ImAssumption
<1>3. x \in 0..ImMax /\ x \in Nat BY <1>1, <1>2
<1>4. ImTax(in) = safeRoundDiv(ImWrap(x), ImBps) BY <1>1 DEF ImTax
<1>5. ASSUME x + (ImBps \div 2) <= ImMax PROVE ImTax(in) \in 0..ImMax /\ ImRounds(ImTax(in), x, ImBps)
    BY <1>2, <1>3, <1>4, <1>5, ImRoundsExactly
<1>6. ASSUME x + (ImBps \div 2) > ImMax PROVE ImTax(in) \in (-(ImMax + 1))..(-1)
    BY <1>2, <1>3, <1>4, <1>6, ImRoundsBelow
<1> QED BY <1>1, <1>5, <1>6

\* The net amount of a line that passes its own guards, and its product with the rate.
LEMMA ImNetIs ==
    ASSUME ImAssumption, NEW in \in ImLineType, ImSupported(in), in.discount \in 0..ImGross(in)
    PROVE  /\ ImNet(in) \in 0..ImMax /\ in.rate \in Nat /\ ImNet(in) * in.rate \in Nat
           /\ (ImNet(in) # 0 => in.rate <= ImMax \div ImNet(in)) <=> ImNet(in) * in.rate <= ImMax
<1>0. ImMax \in Nat \ {0} /\ ImBps \in Nat BY DEF ImAssumption
<1>1. ImGross(in) \in 0..ImMax BY ImGrossIs
<1>2. PICK n, r : n = ImNet(in) /\ r = in.rate OBVIOUS
<1>3. n \in 0..ImMax BY <1>0, <1>1, <1>2 DEF ImNet
<1>4. r \in Nat BY <1>0, <1>2 DEF ImSupported
<1>5. n * r \in Nat BY <1>0, <1>3, <1>4
<1>6. (n # 0 => r <= ImMax \div n) <=> n * r <= ImMax
    <2>1. CASE n = 0
        <3>1. n * r = 0 BY <1>4, <2>1
        <3> QED BY <1>0, <2>1, <3>1
    <2>2. CASE n # 0
        <3>1. n \in Nat \ {0} BY <1>0, <1>3, <2>2
        <3>2. n * r <= ImMax <=> r <= ImMax \div n BY <1>0, <1>4, <3>1, ImFactor
        <3> QED BY <2>2, <3>2
    <2> QED BY <2>1, <2>2
<1> QED BY <1>2, <1>3, <1>4, <1>5, <1>6

\* A line that is accepted adds amounts that fit: a tax that has left its range, and a total
\* that would, find no room.
LEMMA ImAcceptedFits ==
    ASSUME ImAssumption, ImInv, NEW in \in ImLineType, ImAccepts(in)
    PROVE  /\ ImNet(in) \in 0..ImMax /\ ImTax(in) \in 0..ImMax
           /\ ImRounds(ImNet(in) + in.discount, in.quantity * in.price, ImMilli)
           /\ ImRounds(ImTax(in), ImNet(in) * in.rate, ImBps)
           /\ imTotals.total + ImNet(in) + ImTax(in) <= ImMax
<1>0. ImMax \in Nat \ {0} /\ ImBps \in Nat \ {0} BY DEF ImAssumption
<1>1. ImSupported(in) /\ ImComputable(in) /\ ImFits(in) BY DEF ImAccepts
<1>2. in.discount \in 0..ImGross(in) /\ (ImNet(in) # 0 => in.rate <= ImMax \div ImNet(in))
    BY <1>1 DEF ImComputable
<1>3. ImNet(in) \in 0..ImMax /\ ImNet(in) * in.rate \in 0..ImMax
    <2>1. ImNet(in) \in 0..ImMax /\ ImNet(in) * in.rate \in Nat /\ ImNet(in) * in.rate <= ImMax
        BY <1>1, <1>2, ImNetIs
    <2> QED BY <1>0, <2>1
<1>4. /\ ImNet(in) * in.rate + (ImBps \div 2) <= ImMax =>
             ImTax(in) \in 0..ImMax /\ ImRounds(ImTax(in), ImNet(in) * in.rate, ImBps)
      /\ ImNet(in) * in.rate + (ImBps \div 2) > ImMax => ImTax(in) \in (-(ImMax + 1))..(-1)
    BY <1>1, <1>3, ImLineAmounts
<1>5. PICK n, t, x, h : n = ImNet(in) /\ t = ImTax(in) /\ x = ImNet(in) * in.rate /\ h = ImBps \div 2 OBVIOUS
<1>6. h \in Nat BY <1>5, ImHalf DEF ImAssumption
<1>7. t \in (-(ImMax + 1))..ImMax
    <2>1. x \in 0..ImMax BY <1>3, <1>5
    <2>2. (x + h <= ImMax => t \in 0..ImMax) /\ (x + h > ImMax => t \in (-(ImMax + 1))..(-1)) BY <1>4, <1>5
    <2> QED BY <1>0, <1>6, <2>1, <2>2
<1>8. imTotals.tax \in 0..ImMax /\ imTotals.total \in 0..ImMax BY DEF ImInv, ImSums
<1>9. ImRoom(imTotals.tax, t) /\ ImRoom(imTotals.total, ImWrap(n + t)) BY <1>1, <1>5 DEF ImFits
<1>10. t >= 0 BY <1>7, <1>8, <1>9, ImRoomIs
<1>11. n \in 0..ImMax BY <1>3, <1>5
<1>12. n + t <= ImMax
    <2>1. SUFFICES ASSUME n + t > ImMax PROVE FALSE BY <1>0, <1>7, <1>11
    <2>2. PICK s : s = n + t OBVIOUS
    <2>3. s \in Int /\ ImMax < s /\ s <= 2 * ImMax BY <1>0, <1>7, <1>11, <2>1, <2>2
    <2>4. ImWrap(s) = s - 2 * (ImMax + 1)
        <3>1. s <= 3 * ImMax + 2 BY <1>0, <2>3
        <3> QED BY <2>3, <3>1, ImWrapIs
    <2>5. PICK v : v = ImWrap(s) OBVIOUS
    <2>6. v \in (-(ImMax + 1))..ImMax /\ v < 0 BY <1>0, <2>3, <2>4, <2>5
    <2>7. ImRoom(imTotals.total, v) BY <1>9, <2>2, <2>5
    <2> QED BY <1>8, <2>6, <2>7, ImRoomIs
<1>13. imTotals.total + n + t <= ImMax
    <2>1. PICK s : s = n + t OBVIOUS
    <2>2. s \in 0..ImMax BY <1>0, <1>7, <1>10, <1>11, <1>12, <2>1
    <2>3. ImWrap(s) = s BY <1>0, <2>2, ImWrapIs
    <2>4. ImRoom(imTotals.total, s) BY <1>9, <2>1, <2>3
    <2>5. imTotals.total + s <= ImMax BY <1>0, <1>8, <2>2, <2>4, ImRoomIs
    <2> QED BY <1>7, <1>8, <1>11, <2>1, <2>5
<1>14. ImRounds(t, x, ImBps)
    <2>1. x \in 0..ImMax BY <1>3, <1>5
    <2>2. (x + h <= ImMax => ImRounds(t, x, ImBps)) /\ (x + h > ImMax => t \in (-(ImMax + 1))..(-1)) BY <1>4, <1>5
    <2> QED BY <1>0, <1>6, <1>10, <2>1, <2>2
<1>15. ImRounds(ImNet(in) + in.discount, in.quantity * in.price, ImMilli)
    <2>1. ImGross(in) \in 0..ImMax /\ ImRounds(ImGross(in), in.quantity * in.price, ImMilli) BY <1>1, ImGrossIs
    <2>2. ImNet(in) + in.discount = ImGross(in) BY <1>0, <1>2, <2>1 DEF ImNet
    <2> QED BY <2>1, <2>2
<1>16. t \in 0..ImMax BY <1>7, <1>10
<1> QED BY <1>5, <1>11, <1>13, <1>14, <1>15, <1>16

\* An empty invoice adds up.
LEMMA ImInvInit ==
    ASSUME ImAssumption, ImInit
    PROVE  ImInv
BY DEF ImAssumption, ImInit, ImInv, ImSums

\* A line of the invoice is a line.
LEMMA ImInputIs ==
    ASSUME ImAssumption, NEW in \in ImInputs
    PROVE  in \in ImLineType
BY DEF ImAssumption, ImLineType

\* Adding a line adds exactly its amounts to the sums.
LEMMA ImAddIs ==
    ASSUME ImAssumption, ImInv, NEW in \in ImInputs, ImAdd(in)
    PROVE  /\ ImNet(in) \in 0..ImMax /\ ImTax(in) \in 0..ImMax
           /\ imTotals'.subtotal = imTotals.subtotal + ImNet(in)
           /\ imTotals'.tax = imTotals.tax + ImTax(in)
           /\ imTotals'.total = imTotals.total + ImNet(in) + ImTax(in)
           /\ imTotals' \in ImSums
<1>0. ImMax \in Nat \ {0} BY DEF ImAssumption
<1>1. ImAccepts(in) BY DEF ImAdd
<1>2. PICK n, t : n = ImNet(in) /\ t = ImTax(in) OBVIOUS
<1>3. n \in 0..ImMax /\ t \in 0..ImMax /\ imTotals.total + n + t <= ImMax
    BY <1>1, <1>2, ImInputIs, ImAcceptedFits
<1>4. PICK s, x, a : s = imTotals.subtotal /\ x = imTotals.tax /\ a = imTotals.total OBVIOUS
<1>5. s \in 0..ImMax /\ x \in 0..ImMax /\ a \in 0..ImMax /\ a = s + x BY <1>4 DEF ImInv, ImSums
<1>6. PICK sn, xt, nt, ant : sn = s + n /\ xt = x + t /\ nt = n + t /\ ant = a + nt OBVIOUS
<1>7. sn \in 0..ImMax /\ xt \in 0..ImMax /\ nt \in 0..ImMax /\ ant \in 0..ImMax
    BY <1>0, <1>3, <1>4, <1>5, <1>6
<1>8. ImWrap(sn) = sn /\ ImWrap(xt) = xt /\ ImWrap(nt) = nt /\ ImWrap(ant) = ant
    BY <1>0, <1>7, ImWrapIs
<1>9. imTotals' = [subtotal |-> ImWrap(sn), tax |-> ImWrap(xt), total |-> ImWrap(a + ImWrap(nt))]
    BY <1>2, <1>4, <1>6 DEF ImAdd
<1>10. imTotals' = [subtotal |-> sn, tax |-> xt, total |-> ant] BY <1>6, <1>8, <1>9
<1>11. imTotals' \in ImSums BY <1>7, <1>10 DEF ImSums
<1>12. imTotals'.subtotal = sn /\ imTotals'.tax = xt /\ imTotals'.total = ant BY <1>10
<1>13. ant = a + n + t BY <1>3, <1>5, <1>6
<1> QED BY <1>2, <1>3, <1>4, <1>6, <1>11, <1>12, <1>13

\* No step of the calculation breaks the sums.
LEMMA ImInvStep ==
    ASSUME ImAssumption, ImInv, [ImNext]_imVars
    PROVE  ImInv'
<1>1. ASSUME NEW in \in ImInputs, ImAdd(in) PROVE ImInv'
    <2>1. /\ ImNet(in) \in 0..ImMax /\ ImTax(in) \in 0..ImMax
          /\ imTotals'.subtotal = imTotals.subtotal + ImNet(in)
          /\ imTotals'.tax = imTotals.tax + ImTax(in)
          /\ imTotals'.total = imTotals.total + ImNet(in) + ImTax(in)
          /\ imTotals' \in ImSums
        BY <1>1, ImAddIs
    <2>2. imTotals.total = imTotals.subtotal + imTotals.tax
          /\ imTotals.subtotal \in 0..ImMax /\ imTotals.tax \in 0..ImMax /\ imTotals.total \in 0..ImMax
        BY DEF ImInv, ImSums
    <2>3. imTotals'.total = imTotals'.subtotal + imTotals'.tax BY <2>1, <2>2 DEF ImAssumption
    <2>4. imLines' \in Nat /\ imStatus' \in {"CALCULATED", "REFUSED"} BY <1>1 DEF ImAdd, ImInv
    <2> QED BY <2>1, <2>3, <2>4 DEF ImInv
<1>2. ASSUME NEW in \in ImInputs, ImRefuse(in) PROVE ImInv' BY <1>2 DEF ImRefuse, ImInv
<1>3. CASE UNCHANGED imVars BY <1>3 DEF imVars, ImInv
<1> QED BY <1>1, <1>2, <1>3 DEF ImNext

\* What a line adds is its exact amounts.
LEMMA ImStepIsExact ==
    ASSUME ImAssumption, ImInv, [ImNext]_imVars
    PROVE  ImLineIsExact
<1>1. ASSUME NEW in \in ImInputs, ImAdd(in) PROVE ImLineIsExact
    <2>1. /\ ImNet(in) \in 0..ImMax /\ ImTax(in) \in 0..ImMax
          /\ imTotals'.subtotal = imTotals.subtotal + ImNet(in)
          /\ imTotals'.tax = imTotals.tax + ImTax(in)
        BY <1>1, ImAddIs
    <2>2. ImRounds(ImNet(in) + in.discount, in.quantity * in.price, ImMilli)
          /\ ImRounds(ImTax(in), ImNet(in) * in.rate, ImBps)
        BY <1>1, ImInputIs, ImAcceptedFits DEF ImAdd
    <2>3. imTotals.subtotal \in Nat /\ imTotals.tax \in Nat BY DEF ImInv, ImSums, ImAssumption
    <2>4. imTotals'.subtotal - imTotals.subtotal = ImNet(in) /\ imTotals'.tax - imTotals.tax = ImTax(in)
        BY <2>1, <2>3
    <2>5. imLine' = in BY <1>1 DEF ImAdd
    <2> QED BY <2>2, <2>4, <2>5 DEF ImLineIsExact
<1>2. ASSUME NEW in \in ImInputs, ImRefuse(in) PROVE ImLineIsExact
    <2>1. ~(imLines' > imLines) BY <1>2 DEF ImRefuse, ImInv
    <2> QED BY <2>1 DEF ImLineIsExact
<1>3. CASE UNCHANGED imVars
    <2>1. ~(imLines' > imLines) BY <1>3 DEF imVars, ImInv
    <2> QED BY <2>1 DEF ImLineIsExact
<1> QED BY <1>1, <1>2, <1>3 DEF ImNext

\* A discount that the gross amount can bear is at most the rounded gross amount.
LEMMA ImDiscountFits ==
    ASSUME ImAssumption, NEW g \in Nat, NEW x \in Nat, NEW c \in Nat, ImRounds(g, x, ImMilli),
           2 * c * ImMilli <= 2 * x + ImMilli
    PROVE  c <= g
<1>1. ImMilli \in Nat \ {0} BY DEF ImAssumption
<1>2. SUFFICES ASSUME c >= g + 1 PROVE FALSE OBVIOUS
<1>3. PICK y, z : y = g * ImMilli /\ z = c * ImMilli OBVIOUS
<1>4. z >= (g + 1) * ImMilli BY <1>1, <1>2, <1>3
<1>5. (g + 1) * ImMilli = y + ImMilli BY <1>1, <1>3
<1>6. 2 * x < 2 * y + ImMilli
    <2>1. 2 * g * ImMilli = 2 * y BY <1>1, <1>3
    <2> QED BY <2>1 DEF ImRounds
<1>7. 2 * z <= 2 * x + ImMilli
    <2>1. 2 * c * ImMilli = 2 * z BY <1>1, <1>3
    <2> QED BY <2>1
<1>8. y \in Nat /\ z \in Nat BY <1>1, <1>3
<1> QED BY <1>1, <1>4, <1>5, <1>6, <1>7, <1>8

\* A line within the limits, with a discount its amount can bear, whose tax and whose sums
\* fit is accepted.
LEMMA ImFittingIsAccepted ==
    ASSUME ImAssumption, ImInv, NEW in \in ImLineType, ImSupported(in), in.discount >= 0,
           2 * in.discount * ImMilli <= 2 * in.quantity * in.price + ImMilli,
           ImNet(in) * in.rate + (ImBps \div 2) <= ImMax,
           ~(imTotals.total + ImNet(in) + ImTax(in) > ImMax)
    PROVE  ImAccepts(in)
<1>0. ImMax \in Nat \ {0} /\ ImBps \in Nat \ {0} BY DEF ImAssumption
<1>1. PICK q, p, x : q = in.quantity /\ p = in.price /\ x = in.quantity * in.price OBVIOUS
<1>2. q \in Nat \ {0} /\ p \in Nat /\ x = q * p BY <1>1 DEF ImSupported, ImLineType, ImAssumption
<1>3. x \in 0..ImMax /\ ImGross(in) \in 0..ImMax /\ ImRounds(ImGross(in), x, ImMilli) BY <1>1, ImGrossIs
<1>4. p <= ImMax \div q
    <2>1. q * p <= ImMax BY <1>2, <1>3
    <2> QED BY <1>0, <1>2, <2>1, ImFactor
<1>5. in.discount \in 0..ImGross(in)
    <2>1. in.discount \in Nat BY DEF ImLineType
    <2>2. 2 * in.quantity * in.price = 2 * x
        <3>1. 2 * q * p = 2 * (q * p) BY <1>2
        <3> QED BY <1>1, <1>2, <3>1
    <2>3. 2 * in.discount * ImMilli <= 2 * x + ImMilli BY <2>2
    <2>4. in.discount <= ImGross(in) BY <1>0, <1>3, <2>1, <2>3, ImDiscountFits
    <2> QED BY <1>0, <1>3, <2>1, <2>4
<1>6. PICK n, t, w, h : n = ImNet(in) /\ t = ImTax(in) /\ w = ImNet(in) * in.rate /\ h = ImBps \div 2 OBVIOUS
<1>7. h \in Nat BY <1>6, ImHalf DEF ImAssumption
<1>8. n \in 0..ImMax /\ w \in Nat /\ w + h <= ImMax
    <2>1. ImNet(in) \in 0..ImMax /\ ImNet(in) * in.rate \in Nat BY <1>5, ImNetIs
    <2> QED BY <1>6, <2>1
<1>9. w <= ImMax /\ w \in 0..ImMax BY <1>0, <1>7, <1>8
<1>10. ImNet(in) # 0 => in.rate <= ImMax \div ImNet(in) BY <1>5, <1>6, <1>9, ImNetIs
<1>11. ImComputable(in) BY <1>1, <1>4, <1>5, <1>10 DEF ImComputable
<1>12. t \in 0..ImMax
    <2>1. ImNet(in) \in 0..ImMax /\ ImNet(in) * in.rate \in 0..ImMax BY <1>6, <1>8, <1>9
    <2> QED BY <1>6, <2>1, ImLineAmounts
<1>13. PICK s, y, a, k : s = imTotals.subtotal /\ y = imTotals.tax /\ a = imTotals.total /\ k = n + t OBVIOUS
<1>14. s \in 0..ImMax /\ y \in 0..ImMax /\ a \in 0..ImMax /\ a = s + y BY <1>13 DEF ImInv, ImSums
<1>15. a + n + t <= ImMax
    <2>1. ~(a + n + t > ImMax) BY <1>6, <1>13
    <2> QED BY <1>0, <1>8, <1>12, <1>14, <2>1
<1>16. k \in 0..ImMax /\ a + k <= ImMax /\ s + n <= ImMax /\ y + t <= ImMax
    BY <1>0, <1>8, <1>12, <1>13, <1>14, <1>15
<1>17. ImWrap(k) = k BY <1>0, <1>16, ImWrapIs
<1>18. ImRoom(s, n) /\ ImRoom(y, t) /\ ImRoom(a, k)
    BY <1>0, <1>8, <1>12, <1>14, <1>16, ImRoomIs
<1>19. ImFits(in) BY <1>6, <1>13, <1>17, <1>18 DEF ImFits
<1> QED BY <1>11, <1>19 DEF ImAccepts

\* A line is refused only when it is due.
LEMMA ImStepRefusesDuly ==
    ASSUME ImAssumption, ImInv, ImNext
    PROVE  ImRefusalIsDue
<1>1. ASSUME NEW in \in ImInputs, ImAdd(in) PROVE ImRefusalIsDue
    <2>1. imStatus' # "REFUSED" BY <1>1 DEF ImAdd
    <2> QED BY <2>1 DEF ImRefusalIsDue
<1>2. ASSUME NEW in \in ImInputs, ImRefuse(in) PROVE ImRefusalIsDue
    <2>1. imLine' = in /\ imTotals' = imTotals /\ ~ImAccepts(in) BY <1>2 DEF ImRefuse
    <2>2. SUFFICES ASSUME ImSupported(in), in.discount >= 0,
                          2 * in.discount * ImMilli <= 2 * in.quantity * in.price + ImMilli,
                          ~(ImNet(in) * in.rate + (ImBps \div 2) > ImMax),
                          ~(imTotals.total + ImNet(in) + ImTax(in) > ImMax)
                   PROVE  FALSE
        BY <2>1 DEF ImRefusalIsDue
    <2>3. in \in ImLineType BY ImInputIs
    <2>4. ImMax \in Int /\ ImGross(in) \in Int /\ ImBps \in Nat \ {0} /\ (ImBps % 2) = 0
        BY <2>2, <2>3, ImGrossIs DEF ImAssumption
    <2>5. ImNet(in) \in Int /\ in.rate \in Int BY <2>3, <2>4 DEF ImNet, ImLineType
    <2>6. PICK w, h : w = ImNet(in) * in.rate /\ h = ImBps \div 2 OBVIOUS
    <2>7. w \in Int /\ h \in Nat BY <2>4, <2>5, <2>6, ImHalf
    <2>8. ~(w + h > ImMax) BY <2>2, <2>6
    <2>9. w + h <= ImMax BY <2>4, <2>7, <2>8
    <2>10. ImNet(in) * in.rate + (ImBps \div 2) <= ImMax BY <2>6, <2>9
    <2>11. ImAccepts(in) BY <2>2, <2>3, <2>10, ImFittingIsAccepted
    <2> QED BY <2>1, <2>11
<1> QED BY <1>1, <1>2 DEF ImNext

\* An invoice adds up, every line adds its exact amounts, and none is refused without reason:
\* the guards that calculateItems computes in the machine's integers see every overflow of
\* what they guard, whatever the range and the limits, as long as the limits leave the room
\* that ImAssumption asks for.
THEOREM InvoicesAddUp == ImSpec => InvoiceMathSafe
<1>1. ImInit => ImInv BY ImAssumption, ImInvInit
<1>2. ImInv /\ [ImNext]_imVars => ImInv' BY ImAssumption, ImInvStep
<1>3. ImInv => ImAddsUp
    BY ImAssumption DEF ImInv, ImSums, ImAddsUp
<1>4. ImInv /\ [ImNext]_imVars => [ImLineIsExact /\ ImRefusalIsDue]_imVars
    <2>1. SUFFICES ASSUME ImInv, ImNext PROVE ImLineIsExact /\ ImRefusalIsDue OBVIOUS
    <2>2. ImLineIsExact BY <2>1, ImAssumption, ImStepIsExact
    <2>3. ImRefusalIsDue BY <2>1, ImAssumption, ImStepRefusesDuly
    <2> QED BY <2>2, <2>3
<1> QED BY <1>1, <1>2, <1>3, <1>4, PTL DEF ImSpec, InvoiceMathSafe

-------------------------------------------------------------------------------
(* The entry of a history that applies: the last one, or the first. *)


\* Every set of naturals that is not empty has a least element.
LEMMA LeastNatural ==
    ASSUME NEW T \in SUBSET Nat, T # {}
    PROVE  \E x \in T : \A y \in T : x <= y
<1>1. IsWellFoundedOn(OpToRel(<, Nat), Nat) BY NatLessThanWellFounded
<1>2. PICK R : R = OpToRel(<, Nat) OBVIOUS
<1>3. \A x, y \in Nat : x < y => <<x, y>> \in R BY <1>2 DEF OpToRel
<1>4. PICK x \in T : \A y \in T : ~ (<<y, x>> \in R) BY <1>1, <1>2, WFMin
<1>5. SUFFICES ASSUME NEW y \in T PROVE x <= y OBVIOUS
<1>6. x \in Nat /\ y \in Nat OBVIOUS
<1>7. ~ (y < x) BY <1>3, <1>4, <1>6
<1> QED BY <1>6, <1>7

\* One with a bound has a greatest.
LEMMA GreatestNatural ==
    ASSUME NEW m \in Nat, NEW T \in SUBSET (0..m), T # {}
    PROVE  \E x \in T : \A y \in T : y <= x
<1>1. PICK U : U = {m - y : y \in T} OBVIOUS
<1>2. U \in SUBSET Nat /\ U # {}
    <2>1. \A y \in T : m - y \in Nat OBVIOUS
    <2>2. \A u \in U : u \in Nat BY <1>1, <2>1
    <2>3. PICK y : y \in T OBVIOUS
    <2>4. m - y \in U BY <1>1, <2>3
    <2> QED BY <2>2, <2>4
<1>3. PICK u \in U : \A v \in U : u <= v BY <1>2, LeastNatural
<1>4. PICK x \in T : u = m - x BY <1>1
<1>5. SUFFICES ASSUME NEW y \in T PROVE y <= x BY <1>4
<1>6. x \in 0..m /\ y \in 0..m OBVIOUS
<1>7. m - y \in U BY <1>1
<1>8. u <= m - y BY <1>3, <1>7
<1> QED BY <1>4, <1>6, <1>8

\* Of entries with a rank,
Ranked(n, m, D, rank) == n \in Nat /\ m \in Nat /\ D # {} /\ \A i \in D : i \in 1..n /\ rank[i] \in 0..m
IsLatest(D, rank, i)   == i \in D /\ \A j \in D : rank[i] > rank[j] \/ (rank[i] = rank[j] /\ i >= j)
IsEarliest(D, rank, i) == i \in D /\ \A j \in D : rank[i] < rank[j] \/ (rank[i] = rank[j] /\ i <= j)
\* there is a last one of the highest rank,
LEMMA LatestExists ==
    ASSUME NEW n, NEW m, NEW D, NEW rank, Ranked(n, m, D, rank)
    PROVE  \E i : IsLatest(D, rank, i)
<1> USE DEF Ranked
<1>1. PICK T : T = {rank[i] : i \in D} OBVIOUS
<1>2. T \in SUBSET (0..m) /\ T # {}
    <2>1. \A i \in D : rank[i] \in (0..m) OBVIOUS
    <2>2. \A y \in T : y \in (0..m) BY <1>1, <2>1
    <2>3. PICK i : i \in D OBVIOUS
    <2>4. rank[i] \in T BY <1>1, <2>3
    <2> QED BY <2>2, <2>4
<1>3. PICK top \in T : \A y \in T : y <= top BY <1>2, GreatestNatural
<1>4. PICK E : E = {i \in D : rank[i] = top} OBVIOUS
<1>5. E \in SUBSET (0..n) /\ E # {}
    <2>1. \A i \in E : i \in (0..n) BY <1>4
    <2>2. PICK i \in D : rank[i] = top BY <1>1, <1>3
    <2>3. i \in E BY <1>4, <2>2
    <2> QED BY <2>1, <2>3
<1>6. PICK i \in E : \A j \in E : j <= i BY <1>5, GreatestNatural
<1>7. i \in D /\ rank[i] = top BY <1>4
<1>8. ASSUME NEW j \in D PROVE rank[i] > rank[j] \/ (rank[i] = rank[j] /\ i >= j)
    <2>1. rank[j] \in T /\ rank[j] \in 0..m /\ rank[i] \in 0..m BY <1>1, <1>7, <1>8
    <2>2. rank[j] <= top BY <1>3, <2>1
    <2>3. CASE rank[j] = top
        <3>1. j \in E BY <1>4, <2>3
        <3>2. j <= i /\ j \in 1..n /\ i \in 1..n BY <1>6, <1>7, <3>1
        <3> QED BY <1>7, <2>3, <3>2
    <2> QED BY <1>7, <2>1, <2>2, <2>3
<1> QED BY <1>7, <1>8 DEF IsLatest

\* and a first one of the lowest.
LEMMA EarliestExists ==
    ASSUME NEW n, NEW m, NEW D, NEW rank, Ranked(n, m, D, rank)
    PROVE  \E i : IsEarliest(D, rank, i)
<1> USE DEF Ranked
<1>1. PICK T : T = {rank[i] : i \in D} OBVIOUS
<1>2. T \in SUBSET Nat /\ T # {}
    <2>1. \A i \in D : rank[i] \in Nat OBVIOUS
    <2>2. \A y \in T : y \in Nat BY <1>1, <2>1
    <2>3. PICK i : i \in D OBVIOUS
    <2>4. rank[i] \in T BY <1>1, <2>3
    <2> QED BY <2>2, <2>4
<1>3. PICK low \in T : \A y \in T : low <= y BY <1>2, LeastNatural
<1>4. PICK E : E = {i \in D : rank[i] = low} OBVIOUS
<1>5. E \in SUBSET Nat /\ E # {}
    <2>1. \A i \in E : i \in Nat BY <1>4
    <2>2. PICK i \in D : rank[i] = low BY <1>1, <1>3
    <2>3. i \in E BY <1>4, <2>2
    <2> QED BY <2>1, <2>3
<1>6. PICK i \in E : \A j \in E : i <= j BY <1>5, LeastNatural
<1>7. i \in D /\ rank[i] = low BY <1>4
<1>8. ASSUME NEW j \in D PROVE rank[i] < rank[j] \/ (rank[i] = rank[j] /\ i <= j)
    <2>1. rank[j] \in T /\ rank[j] \in 0..m /\ rank[i] \in 0..m BY <1>1, <1>7, <1>8
    <2>2. low <= rank[j] BY <1>3, <2>1
    <2>3. CASE rank[j] = low
        <3>1. j \in E BY <1>4, <2>3
        <3>2. i <= j /\ j \in 1..n /\ i \in 1..n BY <1>6, <1>7, <3>1
        <3> QED BY <1>7, <2>3, <3>2
    <2> QED BY <1>7, <2>1, <2>2, <2>3
<1> QED BY <1>7, <1>8 DEF IsEarliest

-------------------------------------------------------------------------------
(* What a plan costs: PlanPrices. *)

PpKinds   == {"BASELINE", "ANNUAL_INCREASE", "MANUAL"}
PpEntries == [from : Nat, kind : PpKinds, price : Nat]
PpServed  == {"read", "patch"}
PpWorks ==
    {PpIdle}
    \cup [at : {"ensure", "serve"}, for : PpServed, now : Nat]
    \cup [at : {"prior"}, for : PpServed, now : Nat, year : PpYears]
    \cup [at : {"raise"}, for : PpServed, now : Nat, year : PpYears, price : Nat]
    \cup [at : {"set"}, price : PpPrices, from : Nat]

\* The lookup, of any ledger.
PpAfterIn(L, i, j) ==
    \/ L[i].from > L[j].from
    \/ L[i].from = L[j].from /\ PpRank(L[i].kind) > PpRank(L[j].kind)
    \/ L[i].from = L[j].from /\ PpRank(L[i].kind) = PpRank(L[j].kind) /\ i >= j
PpDueIn(L, day)   == {i \in DOMAIN L : L[i].from <= day}
PpEntryIn(L, day) == L[CHOOSE i \in PpDueIn(L, day) : \A j \in PpDueIn(L, day) : PpAfterIn(L, i, j)]
PpTopIn(L, day, i) == i \in PpDueIn(L, day) /\ \A j \in PpDueIn(L, day) : PpAfterIn(L, i, j)
PpRaisedIn(L, year) == \E i \in DOMAIN L : L[i].from = year /\ L[i].kind = "ANNUAL_INCREASE"
PpRaisedBelow(L, day) == \A y \in PpYears : y < day => PpRaisedIn(L, y)
PpLedgerIs(L) == L \in Seq(PpEntries) /\ Len(L) >= 1 /\ L[1].from = 0

\* An increase comes after those of all earlier years, and is that of the price before it.
PpYearly(L, day) ==
    \A i \in DOMAIN L :
        L[i].kind = "ANNUAL_INCREASE" => L[i].from \in PpYears /\ L[i].from <= day /\ PpRaisedBelow(L, L[i].from)
PpExact(L) ==
    \A i \in DOMAIN L :
        L[i].kind = "ANNUAL_INCREASE" => L[i].price = PpFactor * PpEntryIn(L, L[i].from - 1).price
\* What a request in progress has made sure of.
PpHolds(L, day, r) ==
    /\ r.at \in {"ensure", "serve", "prior", "raise"} => r.now <= day
    /\ r.at = "serve" => PpRaisedBelow(L, r.now + 1)
    /\ r.at \in {"prior", "raise"} => r.year <= r.now /\ PpRaisedBelow(L, r.year)
PpPriced(L, r) == r.at = "raise" => r.price = PpFactor * PpEntryIn(L, r.year - 1).price

PpTyped ==
    /\ ppDay \in 0..PpLastDay /\ PpLedgerIs(ppLedger) /\ ppWork \in [PpWorkers -> PpWorks]
    /\ ppLate \in BOOLEAN /\ ppRead \subseteq Nat \X BOOLEAN
PpInv ==
    /\ PpTyped /\ PpYearly(ppLedger, ppDay)
    /\ \A w \in PpWorkers : PpHolds(ppLedger, ppDay, ppWork[w])
    /\ \A r \in ppRead : r[2] = TRUE => PpRaisedBelow(ppLedger, r[1] + 1)
    /\ ppLate = FALSE => PpExact(ppLedger) /\ \A w \in PpWorkers : PpPriced(ppLedger, ppWork[w])

\* A price set by hand is looked at before an increase, and that before the first one.
LEMMA PpRankIs == PpRank("MANUAL") = 3 /\ PpRank("ANNUAL_INCREASE") = 2 /\ PpRank("BASELINE") = 1
BY DEF PpRank

\* The rank tells the kinds apart.
LEMMA PpRankTells ==
    ASSUME NEW k \in PpKinds
    PROVE  PpRank(k) \in 1..3 /\ (PpRank(k) = 2 => k = "ANNUAL_INCREASE")
BY PpRankIs DEF PpKinds

\* Years begin after the first day.
LEMMA PpYearIs ==
    ASSUME NEW y \in PpYears
    PROVE  y \in Nat /\ y >= 1 /\ y - 1 \in Nat
BY PpAssumption DEF PpYears, PpAssumption

\* What the module looks up is what these do, before and after a step.
LEMMA PpLooksUp ==
    /\ \A day : PpEntry(day) = PpEntryIn(ppLedger, day) /\ PpPrice(day) = PpEntryIn(ppLedger, day).price
    /\ \A day : PpEntry(day)' = PpEntryIn(ppLedger', day) /\ PpPrice(day)' = PpEntryIn(ppLedger', day).price
    /\ \A y : PpRaised(y) <=> PpRaisedIn(ppLedger, y)
BY DEF PpEntry, PpPrice, PpAfter, PpEntryIn, PpDueIn, PpAfterIn, PpRaised, PpRaisedIn

\* On every day one entry decides.
LEMMA PpTopExists ==
    ASSUME NEW L, PpLedgerIs(L), NEW day \in Nat
    PROVE  \E i : PpTopIn(L, day, i)
<1>1. PICK n, D : n = Len(L) /\ D = PpDueIn(L, day) OBVIOUS
<1>2. n \in Nat /\ DOMAIN L = 1..n /\ 1 \in D /\ \A i \in 1..n : L[i] \in PpEntries
    BY <1>1 DEF PpLedgerIs, PpDueIn
<1>3. D \in SUBSET (1..n) /\ D # {} /\ \A i \in D : L[i].from <= day BY <1>1, <1>2 DEF PpDueIn
<1>4. PICK m : m = 4 * day + 3 OBVIOUS
<1>5. PICK rank : rank = [i \in D |-> 4 * L[i].from + PpRank(L[i].kind)] OBVIOUS
<1>6. \A i \in D : L[i].from \in Nat /\ PpRank(L[i].kind) \in 1..3 BY <1>2, <1>3, PpRankTells DEF PpEntries
<1>7. Ranked(n, m, D, rank)
    <2>1. \A i \in D : rank[i] = 4 * L[i].from + PpRank(L[i].kind) BY <1>5
    <2>2. \A i \in D : rank[i] \in 0..m BY <1>3, <1>4, <1>6, <2>1
    <2>3. m \in Nat BY <1>4
    <2> QED BY <1>2, <1>3, <2>2, <2>3 DEF Ranked
<1>8. PICK i : IsLatest(D, rank, i) BY <1>7, LatestExists
<1>9. ASSUME NEW j \in D PROVE PpAfterIn(L, i, j)
    <2>1. rank[i] = 4 * L[i].from + PpRank(L[i].kind) /\ rank[j] = 4 * L[j].from + PpRank(L[j].kind) BY <1>5, <1>8, <1>9 DEF IsLatest
    <2>2. i \in D /\ (rank[i] > rank[j] \/ (rank[i] = rank[j] /\ i >= j)) BY <1>8, <1>9 DEF IsLatest
    <2> QED BY <1>6, <2>1, <2>2 DEF PpAfterIn
<1>10. i \in D BY <1>8 DEF IsLatest
<1> QED BY <1>1, <1>9, <1>10 DEF PpTopIn

\* and no other.
LEMMA PpTopUnique ==
    ASSUME NEW L, PpLedgerIs(L), NEW day \in Nat, NEW i, PpTopIn(L, day, i)
    PROVE  PpEntryIn(L, day) = L[i]
<1>1. ASSUME NEW j, PpTopIn(L, day, j) PROVE j = i
    <2>1. PpAfterIn(L, i, j) /\ PpAfterIn(L, j, i) /\ i \in DOMAIN L /\ j \in DOMAIN L BY <1>1 DEF PpTopIn, PpDueIn
    <2>2. L[i] \in PpEntries /\ L[j] \in PpEntries /\ i \in Nat /\ j \in Nat BY <2>1 DEF PpLedgerIs
    <2>3. /\ L[i].from \in Nat /\ L[j].from \in Nat
          /\ PpRank(L[i].kind) \in 1..3 /\ PpRank(L[j].kind) \in 1..3
        BY <2>2, PpRankTells DEF PpEntries
    <2> QED BY <2>1, <2>2, <2>3 DEF PpAfterIn
<1>2. (CHOOSE j \in PpDueIn(L, day) : \A k \in PpDueIn(L, day) : PpAfterIn(L, j, k)) = i
    BY <1>1 DEF PpTopIn
<1> QED BY <1>2 DEF PpEntryIn

\* An entry decides nothing before its day.
LEMMA PpAddedLater ==
    ASSUME NEW L, PpLedgerIs(L), NEW e \in PpEntries, NEW day \in Nat, day < e.from
    PROVE  PpEntryIn(Append(L, e), day) = PpEntryIn(L, day)
<1>1. PICK K, n : K = Append(L, e) /\ n = Len(L) OBVIOUS
<1>2. PpLedgerIs(K) /\ DOMAIN L = 1..n /\ DOMAIN K = 1..(n + 1) /\ n \in Nat /\ K[n + 1] = e
      /\ \A i \in 1..n : K[i] = L[i]
    BY <1>1 DEF PpLedgerIs
<1>3. PpDueIn(K, day) = PpDueIn(L, day)
    <2>1. e.from \in Nat /\ ~(e.from <= day) BY DEF PpEntries
    <2>2. \A i : i \in 1..(n + 1) <=> i \in 1..n \/ i = n + 1 BY <1>2
    <2> QED BY <1>2, <2>1, <2>2 DEF PpDueIn
<1>4. PICK i : PpTopIn(L, day, i) BY PpTopExists
<1>5. PpTopIn(K, day, i)
    <2>1. \A j \in PpDueIn(L, day) : j \in 1..n BY <1>2 DEF PpDueIn
    <2> QED BY <1>2, <1>3, <1>4, <2>1 DEF PpTopIn, PpAfterIn
<1>6. PpEntryIn(K, day) = K[i] /\ PpEntryIn(L, day) = L[i] BY <1>2, <1>4, <1>5, PpTopUnique
<1>7. K[i] = L[i] BY <1>2, <1>4 DEF PpTopIn, PpDueIn
<1> QED BY <1>1, <1>6, <1>7

\* An increase that is there already, at the same price, changes no price.
LEMMA PpAddedTwice ==
    ASSUME NEW L, PpLedgerIs(L), NEW e \in PpEntries, NEW day \in Nat,
           e.kind = "ANNUAL_INCREASE", PpRaisedIn(L, e.from),
           \A i \in DOMAIN L : L[i].kind = "ANNUAL_INCREASE" /\ L[i].from = e.from => L[i].price = e.price
    PROVE  PpEntryIn(Append(L, e), day).price = PpEntryIn(L, day).price
<1>1. PICK K, n : K = Append(L, e) /\ n = Len(L) OBVIOUS
<1>2. PpLedgerIs(K) /\ DOMAIN L = 1..n /\ DOMAIN K = 1..(n + 1) /\ n \in Nat /\ K[n + 1] = e
      /\ \A i \in 1..n : K[i] = L[i] /\ K[i] \in PpEntries
    BY <1>1 DEF PpLedgerIs
<1>3. \A i : i \in 1..(n + 1) <=> i \in 1..n \/ i = n + 1 BY <1>2
<1>4. PICK i : PpTopIn(L, day, i) BY PpTopExists
<1>5. PICK j : PpTopIn(K, day, j) BY <1>2, PpTopExists
<1>6. PpEntryIn(K, day) = K[j] /\ PpEntryIn(L, day) = L[i] BY <1>2, <1>4, <1>5, PpTopUnique
<1>7. i \in 1..n /\ K[i] = L[i] /\ i \in PpDueIn(K, day) /\ PpAfterIn(K, j, i) /\ j \in 1..(n + 1)
    BY <1>2, <1>3, <1>4, <1>5 DEF PpTopIn, PpDueIn
<1>8. CASE j \in 1..n
    <2>1. j \in PpDueIn(L, day) /\ PpAfterIn(L, i, j) BY <1>2, <1>4, <1>5, <1>8 DEF PpTopIn, PpDueIn
    <2>2. PpAfterIn(K, i, j) BY <1>2, <1>7, <1>8, <2>1 DEF PpAfterIn
    <2>3. K[i] \in PpEntries /\ K[j] \in PpEntries /\ i \in Nat /\ j \in Nat BY <1>2, <1>7, <1>8
    <2>4. /\ K[i].from \in Nat /\ K[j].from \in Nat
          /\ PpRank(K[i].kind) \in 1..3 /\ PpRank(K[j].kind) \in 1..3
        BY <2>3, PpRankTells DEF PpEntries
    <2>5. i = j BY <1>7, <2>2, <2>3, <2>4 DEF PpAfterIn
    <2> QED BY <1>1, <1>6, <1>7, <2>5
<1>9. CASE j = n + 1
    <2>1. PICK k \in DOMAIN L : L[k].from = e.from /\ L[k].kind = "ANNUAL_INCREASE" BY DEF PpRaisedIn
    <2>2. K[j] = e /\ e.from <= day BY <1>2, <1>5, <1>9 DEF PpTopIn, PpDueIn
    <2>3. PpAfterIn(L, i, k) BY <1>4, <2>1, <2>2 DEF PpTopIn, PpDueIn
    <2>4. L[i] \in PpEntries /\ L[k] \in PpEntries BY <1>2, <1>7, <2>1
    <2>5. L[i].from \in Nat /\ L[k].from \in Nat /\ e.from \in Nat /\ PpRank(L[i].kind) \in 1..3
        BY <2>4, PpRankTells DEF PpEntries
    <2>6. PpRank(e.kind) = 2 /\ PpRank(L[k].kind) = 2 BY <2>1, PpRankIs
    <2>7. L[i].from > e.from \/ (L[i].from = e.from /\ PpRank(L[i].kind) >= 2)
        BY <2>1, <2>3, <2>5, <2>6 DEF PpAfterIn
    <2>8. e.from > L[i].from \/ (e.from = L[i].from /\ 2 >= PpRank(L[i].kind))
        BY <1>7, <2>2, <2>5, <2>6 DEF PpAfterIn
    <2>9. L[i].from = e.from /\ PpRank(L[i].kind) = 2 BY <2>5, <2>7, <2>8
    <2>10. L[i].kind = "ANNUAL_INCREASE" BY <2>4, <2>9, PpRankTells DEF PpEntries
    <2>11. L[i].price = e.price BY <1>2, <1>7, <2>9, <2>10
    <2> QED BY <1>1, <1>6, <2>2, <2>11
<1> QED BY <1>3, <1>7, <1>8, <1>9

\* What adding an entry does to a ledger.
LEMMA PpAppendIs ==
    ASSUME NEW L, PpLedgerIs(L), NEW e \in PpEntries
    PROVE  /\ PpLedgerIs(Append(L, e)) /\ DOMAIN L \subseteq DOMAIN Append(L, e)
           /\ \A i \in DOMAIN L : Append(L, e)[i] = L[i]
           /\ \A i \in DOMAIN Append(L, e) : i \in DOMAIN L \/ Append(L, e)[i] = e
           /\ PpRaisedIn(Append(L, e), e.from) \/ e.kind # "ANNUAL_INCREASE"
<1>1. PICK n : n = Len(L) OBVIOUS
<1>2. PICK K : K = Append(L, e) OBVIOUS
<1>3. n \in Nat /\ n >= 1 /\ DOMAIN L = 1..n /\ L \in Seq(PpEntries) BY <1>1 DEF PpLedgerIs
<1>4. K \in Seq(PpEntries) /\ Len(K) = n + 1 /\ DOMAIN K = 1..(n + 1) /\ K[n + 1] = e /\ \A i \in 1..n : K[i] = L[i]
    BY <1>1, <1>2, <1>3
<1>5. PpLedgerIs(K) BY <1>3, <1>4 DEF PpLedgerIs
<1>6. \A i \in 1..(n + 1) : i \in 1..n \/ i = n + 1 BY <1>3
<1>7. n + 1 \in DOMAIN K BY <1>3, <1>4
<1>8. PpRaisedIn(K, e.from) \/ e.kind # "ANNUAL_INCREASE" BY <1>4, <1>7 DEF PpRaisedIn
<1>9. 1..n \subseteq 1..(n + 1) BY <1>3
<1> QED BY <1>2, <1>3, <1>4, <1>5, <1>6, <1>8, <1>9

\* An increase that is there stays.
LEMMA PpRaisedStays ==
    ASSUME NEW L, PpLedgerIs(L), NEW e \in PpEntries, NEW day, PpRaisedBelow(L, day)
    PROVE  PpRaisedBelow(Append(L, e), day)
<1>1. ASSUME NEW y, PpRaisedIn(L, y) PROVE PpRaisedIn(Append(L, e), y)
    <2>1. PICK i \in DOMAIN L : L[i].from = y /\ L[i].kind = "ANNUAL_INCREASE" BY <1>1 DEF PpRaisedIn
    <2>2. i \in DOMAIN Append(L, e) /\ Append(L, e)[i] = L[i] BY PpAppendIs
    <2> QED BY <2>1, <2>2 DEF PpRaisedIn
<1> QED BY <1>1 DEF PpRaisedBelow

\* What an entry may be that is added today, and what it leaves as it is: the price of the
\* days before, as far as their increases are there.
PpMayAdd(L, day, e) ==
    e.kind = "ANNUAL_INCREASE" => e.from \in PpYears /\ e.from <= day /\ PpRaisedBelow(L, e.from)
PpKeeps(L, day, e) ==
    \A d \in Nat : d < day /\ PpRaisedBelow(L, d + 1) => PpEntryIn(Append(L, e), d).price = PpEntryIn(L, d).price

\* Increases stay in the order of their years.
LEMMA PpYearlyStays ==
    ASSUME NEW L, PpLedgerIs(L), NEW e \in PpEntries, NEW day, PpYearly(L, day), PpMayAdd(L, day, e)
    PROVE  PpYearly(Append(L, e), day)
<1>1. SUFFICES ASSUME NEW i \in DOMAIN Append(L, e), Append(L, e)[i].kind = "ANNUAL_INCREASE"
               PROVE  /\ Append(L, e)[i].from \in PpYears /\ Append(L, e)[i].from <= day
                      /\ PpRaisedBelow(Append(L, e), Append(L, e)[i].from)
    BY DEF PpYearly
<1>2. CASE i \in DOMAIN L
    <2>1. Append(L, e)[i] = L[i] BY <1>2, PpAppendIs
    <2>2. L[i].from \in PpYears /\ L[i].from <= day /\ PpRaisedBelow(L, L[i].from) BY <1>1, <1>2, <2>1 DEF PpYearly
    <2>3. PpRaisedBelow(Append(L, e), L[i].from) BY <2>2, PpRaisedStays
    <2> QED BY <2>1, <2>2, <2>3
<1>3. CASE Append(L, e)[i] = e
    <2>1. e.from \in PpYears /\ e.from <= day /\ PpRaisedBelow(L, e.from) BY <1>1, <1>3 DEF PpMayAdd
    <2>2. PpRaisedBelow(Append(L, e), e.from) BY <2>1, PpRaisedStays
    <2> QED BY <1>3, <2>1, <2>2
<1> QED BY <1>2, <1>3, PpAppendIs

\* A request keeps what it has made sure of.
LEMMA PpHoldsStays ==
    ASSUME NEW L, PpLedgerIs(L), NEW e \in PpEntries, NEW day, NEW r, PpHolds(L, day, r)
    PROVE  PpHolds(Append(L, e), day, r)
<1>1. \A d : PpRaisedBelow(L, d) => PpRaisedBelow(Append(L, e), d) BY PpRaisedStays
<1> QED BY <1>1 DEF PpHolds

\* The day before a year has a price that stays, once the earlier increases are there.
LEMMA PpPriorStays ==
    ASSUME NEW L, NEW e, NEW day \in Nat, PpKeeps(L, day, e),
           NEW y \in PpYears, y <= day, PpRaisedBelow(L, y)
    PROVE  PpEntryIn(Append(L, e), y - 1).price = PpEntryIn(L, y - 1).price
<1>1. PICK d : d = y - 1 OBVIOUS
<1>2. d \in Nat /\ d < day /\ d + 1 = y BY <1>1, PpYearIs
<1>3. PpRaisedBelow(L, d + 1) BY <1>2
<1> QED BY <1>1, <1>2, <1>3 DEF PpKeeps

\* The prices of increases stay those of the days before them.
LEMMA PpExactStays ==
    ASSUME NEW L, PpLedgerIs(L), NEW e \in PpEntries, NEW day \in Nat, PpYearly(L, day), PpExact(L),
           PpMayAdd(L, day, e), PpKeeps(L, day, e),
           e.kind = "ANNUAL_INCREASE" => e.price = PpFactor * PpEntryIn(L, e.from - 1).price
    PROVE  PpExact(Append(L, e))
<1>1. SUFFICES ASSUME NEW i \in DOMAIN Append(L, e), Append(L, e)[i].kind = "ANNUAL_INCREASE"
               PROVE  Append(L, e)[i].price = PpFactor * PpEntryIn(Append(L, e), Append(L, e)[i].from - 1).price
    BY DEF PpExact
<1>2. CASE i \in DOMAIN L
    <2>1. Append(L, e)[i] = L[i] BY <1>2, PpAppendIs
    <2>2. L[i].from \in PpYears /\ L[i].from <= day /\ PpRaisedBelow(L, L[i].from) BY <1>1, <1>2, <2>1 DEF PpYearly
    <2>3. L[i].price = PpFactor * PpEntryIn(L, L[i].from - 1).price BY <1>1, <1>2, <2>1 DEF PpExact
    <2>4. PpEntryIn(Append(L, e), L[i].from - 1).price = PpEntryIn(L, L[i].from - 1).price BY <2>2, PpPriorStays
    <2> QED BY <2>1, <2>3, <2>4
<1>3. CASE Append(L, e)[i] = e
    <2>1. e.from \in PpYears /\ e.from <= day /\ PpRaisedBelow(L, e.from) BY <1>1, <1>3 DEF PpMayAdd
    <2>2. PpEntryIn(Append(L, e), e.from - 1).price = PpEntryIn(L, e.from - 1).price BY <2>1, PpPriorStays
    <2> QED BY <1>1, <1>3, <2>2
<1> QED BY <1>2, <1>3, PpAppendIs

\* So do those that are about to be written.
LEMMA PpPricedStays ==
    ASSUME NEW L, NEW e, NEW day \in Nat, PpKeeps(L, day, e),
           NEW r \in PpWorks, PpHolds(L, day, r), PpPriced(L, r)
    PROVE  PpPriced(Append(L, e), r)
<1>1. SUFFICES ASSUME r.at = "raise" PROVE r.price = PpFactor * PpEntryIn(Append(L, e), r.year - 1).price
    BY DEF PpPriced
<1>2. r.year \in PpYears /\ r.now \in Nat BY <1>1 DEF PpWorks, PpIdle
<1>3. r.now <= day /\ r.year <= r.now /\ PpRaisedBelow(L, r.year) BY <1>1 DEF PpHolds
<1>4. r.year \in Nat BY <1>2, PpYearIs
<1>5. r.year <= day BY <1>2, <1>3, <1>4
<1>6. PpEntryIn(Append(L, e), r.year - 1).price = PpEntryIn(L, r.year - 1).price BY <1>2, <1>3, <1>5, PpPriorStays
<1>7. r.price = PpFactor * PpEntryIn(L, r.year - 1).price BY <1>1 DEF PpPriced
<1> QED BY <1>6, <1>7

\* A price that is set for today or later changes none of an earlier day.
LEMMA PpSettingKeeps ==
    ASSUME NEW L, PpLedgerIs(L), NEW e \in PpEntries, NEW day \in Nat, e.from >= day
    PROVE  PpKeeps(L, day, e)
<1>1. SUFFICES ASSUME NEW d \in Nat, d < day PROVE PpEntryIn(Append(L, e), d) = PpEntryIn(L, d) BY DEF PpKeeps
<1>2. d < e.from BY <1>1 DEF PpEntries
<1> QED BY <1>2, PpAddedLater

\* An increase changes no price of a day whose increases are there: the first of a year comes
\* after them, and another one is the same.
LEMMA PpRaisingKeeps ==
    ASSUME NEW L, PpLedgerIs(L), NEW e \in PpEntries, PpExact(L), e.kind = "ANNUAL_INCREASE", e.from \in PpYears,
           e.price = PpFactor * PpEntryIn(L, e.from - 1).price,
           NEW d \in Nat, PpRaisedBelow(L, d + 1)
    PROVE  PpEntryIn(Append(L, e), d).price = PpEntryIn(L, d).price
<1>1. CASE PpRaisedIn(L, e.from)
    <2>1. \A i \in DOMAIN L : L[i].kind = "ANNUAL_INCREASE" /\ L[i].from = e.from => L[i].price = e.price
        BY DEF PpExact
    <2> QED BY <1>1, <2>1, PpAddedTwice
<1>2. CASE ~PpRaisedIn(L, e.from)
    <2>1. ~(e.from < d + 1) BY <1>2 DEF PpRaisedBelow
    <2>2. e.from \in Nat BY DEF PpEntries
    <2>3. d < e.from BY <2>1, <2>2
    <2> QED BY <2>3, PpAddedLater
<1> QED BY <1>1, <1>2

\* The plan has its first price at the start.
LEMMA PpInvInit ==
    ASSUME PpInit
    PROVE  PpInv
<1>1. PICK p \in PpPrices : ppLedger = <<[from |-> 0, kind |-> "BASELINE", price |-> p]>> BY DEF PpInit
<1>2. p \in Nat BY PpAssumption DEF PpAssumption
<1>3. PICK e : e = [from |-> 0, kind |-> "BASELINE", price |-> p] OBVIOUS
<1>4. e \in PpEntries /\ ppLedger = <<e>> BY <1>1, <1>2, <1>3 DEF PpEntries, PpKinds
<1>5. PpLedgerIs(ppLedger) /\ DOMAIN ppLedger = 1..1 /\ ppLedger[1] = e BY <1>3, <1>4 DEF PpLedgerIs
<1>6. \A i \in DOMAIN ppLedger : ppLedger[i].kind # "ANNUAL_INCREASE" BY <1>3, <1>5
<1>7. PpYearly(ppLedger, ppDay) /\ PpExact(ppLedger) BY <1>6 DEF PpYearly, PpExact
<1>8. \A w \in PpWorkers : ppWork[w] = PpIdle BY DEF PpInit
<1>9. \A w \in PpWorkers : PpHolds(ppLedger, ppDay, ppWork[w]) /\ PpPriced(ppLedger, ppWork[w])
    BY <1>8 DEF PpHolds, PpPriced, PpIdle
<1>10. PpTyped
    <2>1. ppDay \in 0..PpLastDay BY PpAssumption DEF PpInit, PpAssumption
    <2>4. ppLate \in BOOLEAN /\ ppRead = {} BY Zenon DEF PpInit
    <2>2. PpIdle \in PpWorks BY DEF PpWorks
    <2>3. ppWork \in [PpWorkers -> PpWorks] BY <2>2 DEF PpInit
    <2> QED BY <1>5, <2>1, <2>3, <2>4 DEF PpTyped
<1>11. ppRead = {} BY DEF PpInit
<1> QED BY <1>7, <1>9, <1>10, <1>11 DEF PpInv

\* A request that goes on without touching the ledger.
LEMMA PpWorkStep ==
    ASSUME PpInv, NEW w \in PpWorkers, NEW r \in PpWorks, PpGo(w, r), UNCHANGED <<ppDay, ppLedger, ppLate>>,
           PpHolds(ppLedger, ppDay, r), ppLate = FALSE => PpPriced(ppLedger, r),
           ppRead' \subseteq Nat \X BOOLEAN,
           \A s \in ppRead' : s[2] = TRUE => PpRaisedBelow(ppLedger, s[1] + 1)
    PROVE  PpInv'
<1>1. PICK L, d : L = ppLedger /\ d = ppDay OBVIOUS
<1>2. ppLedger' = L /\ ppDay' = d /\ ppLate' = ppLate BY <1>1
<1>3. ppWork' \in [PpWorkers -> PpWorks] /\ \A v \in PpWorkers : ppWork'[v] = IF v = w THEN r ELSE ppWork[v]
    BY DEF PpInv, PpTyped, PpGo
<1>4. PpTyped' BY <1>3 DEF PpInv, PpTyped
<1>5. \A v \in PpWorkers : PpHolds(L, d, ppWork'[v]) BY <1>1, <1>3 DEF PpInv
<1>6. ppLate = FALSE => \A v \in PpWorkers : PpPriced(L, ppWork'[v]) BY <1>1, <1>3 DEF PpInv
<1>7. PpYearly(L, d) /\ (ppLate = FALSE => PpExact(L)) BY <1>1 DEF PpInv
<1>8. \A s \in ppRead' : s[2] = TRUE => PpRaisedBelow(L, s[1] + 1) BY <1>1
<1> QED BY <1>2, <1>4, <1>5, <1>6, <1>7, <1>8 DEF PpInv

\* What is asked for next, when every request keeps what it has read.
LEMMA PpWorkOf ==
    ASSUME PpInv, NEW w \in PpWorkers
    PROVE  ppWork[w] \in PpWorks /\ PpHolds(ppLedger, ppDay, ppWork[w])
           /\ (ppLate = FALSE => PpPriced(ppLedger, ppWork[w]))
           /\ ppRead \subseteq Nat \X BOOLEAN
           /\ \A s \in ppRead : s[2] = TRUE => PpRaisedBelow(ppLedger, s[1] + 1)
BY DEF PpInv, PpTyped

\* The first of the years that are missing.
LEMMA PpMinIs ==
    ASSUME NEW S, S \subseteq Nat, S # {}
    PROVE  Min(S) \in S /\ \A y \in S : Min(S) <= y
<1>1. \E x \in S : \A y \in S : x <= y
    <2>1. S \in SUBSET Nat OBVIOUS
    <2> QED BY <2>1, LeastNatural
<1> QED BY <1>1 DEF Min

\* ensureAnnualPlanIncreases goes through the years in order.
LEMMA PpEnsureStep ==
    ASSUME PpInv, NEW w \in PpWorkers, PpEnsure(w)
    PROVE  PpInv'
<1>1. PICK r : r = ppWork[w] OBVIOUS
<1>2. r.at = "ensure" BY <1>1 DEF PpEnsure, PpAt
<1>3. r \in PpWorks /\ PpHolds(ppLedger, ppDay, r) BY <1>1, PpWorkOf
<1>4. r \in [at : {"ensure", "serve"}, for : PpServed, now : Nat] BY <1>2, <1>3 DEF PpWorks, PpIdle
<1>5. PICK missing : missing = {y \in PpYears : y <= r.now /\ ~PpRaisedIn(ppLedger, y)} OBVIOUS
<1>6. PpGo(w, IF missing = {} THEN [r EXCEPT !.at = "serve"]
              ELSE [at |-> "prior", for |-> r.for, now |-> r.now, year |-> Min(missing)])
    BY <1>1, <1>5, PpLooksUp DEF PpEnsure
<1>7. r.now \in Nat /\ r.now <= ppDay /\ r.for \in PpServed BY <1>2, <1>3, <1>4 DEF PpHolds
<1>8. UNCHANGED <<ppDay, ppLedger, ppLate>> /\ ppRead' = ppRead BY DEF PpEnsure
<1>9. CASE missing = {}
    <2>1. PICK s : s = [at |-> "serve", for |-> r.for, now |-> r.now] OBVIOUS
    <2>2. s \in PpWorks BY <1>7, <2>1 DEF PpWorks
    <2>3. [r EXCEPT !.at = "serve"] = s BY <1>4, <2>1
    <2>4. PpGo(w, s) BY <1>6, <1>9, <2>3
    <2>5. PpRaisedBelow(ppLedger, r.now + 1)
        <3>1. SUFFICES ASSUME NEW y \in PpYears, y < r.now + 1 PROVE PpRaisedIn(ppLedger, y) BY DEF PpRaisedBelow
        <3>2. y <= r.now BY <1>7, <3>1, PpYearIs
        <3> QED BY <1>5, <1>9, <3>2
    <2>6. PpHolds(ppLedger, ppDay, s) /\ PpPriced(ppLedger, s) BY <1>7, <2>1, <2>5 DEF PpHolds, PpPriced
    <2> QED BY <1>8, <2>2, <2>4, <2>6, PpWorkOf, PpWorkStep
<1>10. CASE missing # {}
    <2>1. PICK y : y = Min(missing) OBVIOUS
    <2>2. missing \subseteq Nat BY <1>5, PpYearIs
    <2>3. y \in missing /\ \A z \in missing : y <= z BY <1>10, <2>1, <2>2, PpMinIs
    <2>4. PICK s : s = [at |-> "prior", for |-> r.for, now |-> r.now, year |-> y] OBVIOUS
    <2>5. y \in PpYears /\ y <= r.now BY <1>5, <2>3
    <2>6. s \in PpWorks BY <1>7, <2>4, <2>5 DEF PpWorks
    <2>7. PpGo(w, s) BY <1>6, <1>10, <2>1, <2>4
    <2>8. PpRaisedBelow(ppLedger, y)
        <3>1. SUFFICES ASSUME NEW z \in PpYears, z < y, ~PpRaisedIn(ppLedger, z) PROVE FALSE BY DEF PpRaisedBelow
        <3>2. z \in Nat /\ y \in Nat BY <2>5, PpYearIs
        <3>3. z <= r.now BY <1>7, <2>5, <3>1, <3>2
        <3>4. z \in missing BY <1>5, <3>1, <3>3
        <3> QED BY <2>3, <3>1, <3>2, <3>4
    <2>9. PpHolds(ppLedger, ppDay, s) /\ PpPriced(ppLedger, s) BY <1>7, <2>4, <2>5, <2>8 DEF PpHolds, PpPriced
    <2> QED BY <1>8, <2>6, <2>7, <2>9, PpWorkOf, PpWorkStep
<1> QED BY <1>9, <1>10

\* A price is a natural number.
LEMMA PpPriceIs ==
    ASSUME NEW L, PpLedgerIs(L), NEW d \in Nat
    PROVE  PpEntryIn(L, d).price \in Nat
<1>1. PICK i : PpTopIn(L, d, i) BY PpTopExists
<1>2. PpEntryIn(L, d) = L[i] /\ i \in DOMAIN L BY <1>1, PpTopUnique DEF PpTopIn, PpDueIn
<1>3. L[i] \in PpEntries BY <1>2 DEF PpLedgerIs
<1> QED BY <1>2, <1>3 DEF PpEntries

\* It reads the price of the day before,
LEMMA PpPriorStep ==
    ASSUME PpInv, NEW w \in PpWorkers, PpPrior(w)
    PROVE  PpInv'
<1>1. PICK r : r = ppWork[w] OBVIOUS
<1>2. r.at = "prior" BY <1>1 DEF PpPrior, PpAt
<1>3. r \in PpWorks /\ PpHolds(ppLedger, ppDay, r) BY <1>1, PpWorkOf
<1>4. r \in [at : {"prior"}, for : PpServed, now : Nat, year : PpYears] BY <1>2, <1>3 DEF PpWorks, PpIdle
<1>5. PICK p : p = PpEntryIn(ppLedger, r.year - 1).price OBVIOUS
<1>6. p \in Nat
    <2>1. r.year - 1 \in Nat /\ PpLedgerIs(ppLedger) BY <1>4, PpYearIs DEF PpInv, PpTyped
    <2> QED BY <1>5, <2>1, PpPriceIs
<1>7. PICK s : s = [at |-> "raise", for |-> r.for, now |-> r.now, year |-> r.year, price |-> p * PpFactor] OBVIOUS
<1>8. PpFactor \in Nat BY PpAssumption DEF PpAssumption
<1>9. p * PpFactor \in Nat /\ p * PpFactor = PpFactor * p BY <1>6, <1>8
<1>10. s \in PpWorks BY <1>4, <1>7, <1>9 DEF PpWorks
<1>11. PpPrice(PpDayBefore(r.year)) = p BY <1>5, PpLooksUp DEF PpDayBefore
<1>12. PpGo(w, s) BY <1>1, <1>7, <1>11 DEF PpPrior
<1>13. UNCHANGED <<ppDay, ppLedger, ppLate>> /\ ppRead' = ppRead BY DEF PpPrior
<1>14. PpHolds(ppLedger, ppDay, s) BY <1>2, <1>3, <1>7 DEF PpHolds
<1>15. PpPriced(ppLedger, s) BY <1>5, <1>7, <1>9 DEF PpPriced
<1> QED BY <1>10, <1>12, <1>13, <1>14, <1>15, PpWorkOf, PpWorkStep

\* A request that adds an entry, and one that keeps the prices that count.
LEMMA PpAddStep ==
    ASSUME PpInv, NEW w \in PpWorkers, NEW r \in PpWorks, PpGo(w, r), NEW e \in PpEntries,
           ppLedger' = Append(ppLedger, e), UNCHANGED <<ppDay, ppRead>>, ppLate' \in BOOLEAN,
           PpMayAdd(ppLedger, ppDay, e), PpHolds(ppLedger, ppDay, r), r.at # "raise",
           ppLate' = FALSE =>
               /\ ppLate = FALSE /\ PpKeeps(ppLedger, ppDay, e)
               /\ e.kind = "ANNUAL_INCREASE" => e.price = PpFactor * PpEntryIn(ppLedger, e.from - 1).price
    PROVE  PpInv'
<1>1. PICK L, d, K : L = ppLedger /\ d = ppDay /\ K = Append(ppLedger, e) OBVIOUS
<1>2. ppLedger' = K /\ ppDay' = d /\ K = Append(L, e) /\ ppRead' = ppRead BY <1>1
<1>3. PpLedgerIs(L) /\ d \in Nat BY <1>1 DEF PpInv, PpTyped
<1>4. PpLedgerIs(K) BY <1>2, <1>3, PpAppendIs
<1>5. ppWork' \in [PpWorkers -> PpWorks] /\ \A v \in PpWorkers : ppWork'[v] = IF v = w THEN r ELSE ppWork[v]
    BY DEF PpInv, PpTyped, PpGo
<1>6. PpTyped' BY <1>2, <1>4, <1>5 DEF PpInv, PpTyped
<1>7. PpMayAdd(L, d, e) /\ PpHolds(L, d, r) /\ PpYearly(L, d) BY <1>1 DEF PpInv
<1>8. PpYearly(K, d) BY <1>2, <1>3, <1>7, PpYearlyStays
<1>9. \A v \in PpWorkers : PpHolds(L, d, ppWork'[v]) BY <1>1, <1>5, <1>7 DEF PpInv
<1>10. \A v \in PpWorkers : PpHolds(K, d, ppWork'[v]) BY <1>2, <1>3, <1>9, PpHoldsStays
<1>11. \A s \in ppRead' : s[2] = TRUE => PpRaisedBelow(K, s[1] + 1)
    <2>1. \A s \in ppRead' : s[2] = TRUE => PpRaisedBelow(L, s[1] + 1) BY <1>1, <1>2 DEF PpInv
    <2> QED BY <1>2, <1>3, <2>1, PpRaisedStays
<1>12. ASSUME ppLate' = FALSE PROVE PpExact(K) /\ \A v \in PpWorkers : PpPriced(K, ppWork'[v])
    <2>1. PpKeeps(L, d, e) /\ (e.kind = "ANNUAL_INCREASE" => e.price = PpFactor * PpEntryIn(L, e.from - 1).price)
          /\ PpExact(L) /\ \A v \in PpWorkers : PpPriced(L, ppWork[v])
        BY <1>1, <1>12 DEF PpInv
    <2>2. PpExact(K) BY <1>2, <1>3, <1>7, <2>1, PpExactStays
    <2>3. \A v \in PpWorkers : PpPriced(L, ppWork'[v]) BY <1>5, <2>1 DEF PpPriced
    <2>4. ASSUME NEW v \in PpWorkers PROVE PpPriced(K, ppWork'[v])
        <3>1. PICK s : s = ppWork'[v] OBVIOUS
        <3>2. s \in PpWorks /\ PpHolds(L, d, s) /\ PpPriced(L, s) BY <1>5, <1>9, <2>3, <3>1
        <3>3. PpPriced(K, s) BY <1>2, <1>3, <2>1, <3>2, PpPricedStays
        <3> QED BY <3>1, <3>3
    <2> QED BY <2>2, <2>4
<1> QED BY <1>2, <1>6, <1>8, <1>10, <1>11, <1>12 DEF PpInv

\* and adds the increase, that another request may have added meanwhile.
LEMMA PpRaiseIs ==
    ASSUME PpInv, NEW w \in PpWorkers, PpRaise(w)
    PROVE  \E e \in PpEntries, r \in PpWorks :
               /\ ppLedger' = Append(ppLedger, e) /\ PpGo(w, r) /\ r.at # "raise"
               /\ e.kind = "ANNUAL_INCREASE" /\ e.from \in PpYears /\ e.from <= ppDay
               /\ PpRaisedBelow(ppLedger, e.from) /\ PpHolds(ppLedger, ppDay, r)
               /\ ppLate = FALSE => e.price = PpFactor * PpEntryIn(ppLedger, e.from - 1).price
<1>1. PICK r : r = ppWork[w] OBVIOUS
<1>2. r.at = "raise" BY <1>1 DEF PpRaise, PpAt
<1>3. r \in PpWorks /\ PpHolds(ppLedger, ppDay, r) /\ (ppLate = FALSE => PpPriced(ppLedger, r)) BY <1>1, PpWorkOf
<1>4. r \in [at : {"raise"}, for : PpServed, now : Nat, year : PpYears, price : Nat]
    BY <1>2, <1>3 DEF PpWorks, PpIdle
<1>5. PICK e, s : e = [from |-> r.year, kind |-> "ANNUAL_INCREASE", price |-> r.price]
                  /\ s = [at |-> "ensure", for |-> r.for, now |-> r.now]
    OBVIOUS
<1>6. e \in PpEntries /\ s \in PpWorks /\ s.at # "raise" BY <1>4, <1>5, PpYearIs DEF PpEntries, PpKinds, PpWorks
<1>7. ppLedger' = Append(ppLedger, e) /\ PpGo(w, s) BY <1>1, <1>5 DEF PpRaise
<1>8. r.now <= ppDay /\ r.year <= r.now /\ PpRaisedBelow(ppLedger, r.year) BY <1>2, <1>3 DEF PpHolds
<1>9. r.year <= ppDay
    <2>1. r.year \in Nat /\ r.now \in Nat /\ ppDay \in Nat BY <1>4, PpYearIs DEF PpInv, PpTyped
    <2> QED BY <1>8, <2>1
<1>10. PpHolds(ppLedger, ppDay, s) BY <1>5, <1>8 DEF PpHolds
<1>11. ppLate = FALSE => e.price = PpFactor * PpEntryIn(ppLedger, e.from - 1).price
    BY <1>2, <1>3, <1>5 DEF PpPriced
<1> QED BY <1>4, <1>5, <1>6, <1>7, <1>8, <1>9, <1>10, <1>11

\* The prices that count stay.
LEMMA PpRaiseStep ==
    ASSUME PpInv, NEW w \in PpWorkers, PpRaise(w)
    PROVE  PpInv'
<1>1. PICK e \in PpEntries, r \in PpWorks :
          /\ ppLedger' = Append(ppLedger, e) /\ PpGo(w, r) /\ r.at # "raise"
          /\ e.kind = "ANNUAL_INCREASE" /\ e.from \in PpYears /\ e.from <= ppDay
          /\ PpRaisedBelow(ppLedger, e.from) /\ PpHolds(ppLedger, ppDay, r)
          /\ ppLate = FALSE => e.price = PpFactor * PpEntryIn(ppLedger, e.from - 1).price
    BY PpRaiseIs
<1>2. UNCHANGED <<ppDay, ppRead>> /\ ppLate' = ppLate /\ ppLate' \in BOOLEAN BY DEF PpRaise, PpInv, PpTyped
<1>3. PpMayAdd(ppLedger, ppDay, e) BY <1>1 DEF PpMayAdd
<1>4. ASSUME ppLate = FALSE PROVE PpKeeps(ppLedger, ppDay, e)
    <2>1. PpLedgerIs(ppLedger) /\ PpExact(ppLedger) BY <1>4 DEF PpInv, PpTyped
    <2>2. \A d \in Nat : PpRaisedBelow(ppLedger, d + 1) => PpEntryIn(Append(ppLedger, e), d).price = PpEntryIn(ppLedger, d).price
        BY <1>1, <1>4, <2>1, PpRaisingKeeps
    <2> QED BY <2>2 DEF PpKeeps
<1> QED BY <1>1, <1>2, <1>3, <1>4, PpAddStep

\* A PATCH adds a price by hand.
LEMMA PpSetIs ==
    ASSUME PpInv, NEW w \in PpWorkers, PpSet(w)
    PROVE  \E e \in PpEntries :
               /\ ppLedger' = Append(ppLedger, e) /\ e.kind = "MANUAL" /\ e.from = ppWork[w].from /\ PpGo(w, PpIdle)
               /\ ppLate' \in BOOLEAN /\ (ppLate' = FALSE => ppLate = FALSE /\ e.from >= ppDay)
<1>1. PICK r : r = ppWork[w] OBVIOUS
<1>2. r.at = "set" BY <1>1 DEF PpSet, PpAt
<1>3. r \in PpWorks BY <1>1, PpWorkOf
<1>4. r \in [at : {"set"}, price : PpPrices, from : Nat] BY <1>2, <1>3 DEF PpWorks, PpIdle
<1>5. PICK e : e = [from |-> r.from, kind |-> "MANUAL", price |-> r.price] OBVIOUS
<1>6. e \in PpEntries BY <1>4, <1>5, PpAssumption DEF PpEntries, PpKinds, PpAssumption
<1>7. ppLedger' = Append(ppLedger, e) /\ PpGo(w, PpIdle) /\ ppLate' = (ppLate \/ r.from < ppDay)
    BY <1>1, <1>5 DEF PpSet
<1>8. ppLate \in BOOLEAN /\ ppDay \in Nat BY DEF PpInv, PpTyped
<1>9. ppLate' \in BOOLEAN /\ (ppLate' = FALSE => ppLate = FALSE /\ ~(r.from < ppDay)) BY <1>7, <1>8
<1>10. ~(r.from < ppDay) => r.from >= ppDay BY <1>4, <1>8
<1>11. e.kind = "MANUAL" /\ e.from = r.from BY <1>5
<1> QED BY <1>1, <1>6, <1>7, <1>9, <1>10, <1>11

\* That keeps the prices that count unless it is late.
LEMMA PpSetStep ==
    ASSUME PpInv, NEW w \in PpWorkers, PpSet(w)
    PROVE  PpInv'
<1>1. PICK e \in PpEntries :
          /\ ppLedger' = Append(ppLedger, e) /\ e.kind = "MANUAL" /\ e.from = ppWork[w].from /\ PpGo(w, PpIdle)
          /\ ppLate' \in BOOLEAN /\ (ppLate' = FALSE => ppLate = FALSE /\ e.from >= ppDay)
    BY PpSetIs
<1>2. UNCHANGED <<ppDay, ppRead>> BY DEF PpSet
<1>3. PpMayAdd(ppLedger, ppDay, e) BY <1>1 DEF PpMayAdd
<1>4. PpIdle \in PpWorks /\ PpIdle.at # "raise" /\ PpHolds(ppLedger, ppDay, PpIdle) BY DEF PpWorks, PpIdle, PpHolds
<1>5. ppLate' = FALSE => PpKeeps(ppLedger, ppDay, e)
    <2>1. PpLedgerIs(ppLedger) /\ ppDay \in Nat BY DEF PpInv, PpTyped
    <2> QED BY <1>1, <2>1, PpSettingKeeps
<1> QED BY <1>1, <1>2, <1>3, <1>4, <1>5, PpAddStep

\* A day that was read is one.
LEMMA PpOneRead ==
    ASSUME NEW d \in Nat, NEW b \in BOOLEAN
    PROVE  {<<d, b>>} \subseteq Nat \X BOOLEAN
<1>1. SUFFICES ASSUME NEW s \in {<<d, b>>} PROVE s \in Nat \X BOOLEAN OBVIOUS
<1>2. s = <<d, b>> OBVIOUS
<1> QED BY <1>2, Zenon

\* The other steps of a request.
LEMMA PpQuietStep ==
    ASSUME PpInv, NEW w \in PpWorkers,
           \/ \E request \in {"read", "patch"} : PpBegin(w, request)
           \/ \E day \in 0..PpLastDay : PpServe(w, day)
           \/ \E price \in PpPrices, from \in 0..(PpLastDay + 1) : PpAsk(w, price, from)
           \/ PpStop(w)
    PROVE  PpInv'
<1>0. PpLastDay \in Nat BY PpAssumption DEF PpAssumption
<1>1. PpIdle \in PpWorks /\ PpHolds(ppLedger, ppDay, PpIdle) /\ PpPriced(ppLedger, PpIdle)
    BY DEF PpWorks, PpIdle, PpHolds, PpPriced
<1>2. ASSUME NEW request \in {"read", "patch"}, PpBegin(w, request) PROVE PpInv'
    <2>1. PICK s : s = [at |-> "ensure", for |-> request, now |-> ppDay] OBVIOUS
    <2>2. ppDay \in Nat BY DEF PpInv, PpTyped
    <2>3. s \in PpWorks BY <2>1, <2>2 DEF PpWorks, PpServed
    <2>4. PpHolds(ppLedger, ppDay, s) /\ PpPriced(ppLedger, s) BY <2>1, <2>2 DEF PpHolds, PpPriced
    <2>5. PpGo(w, s) /\ UNCHANGED <<ppDay, ppLedger, ppLate>> /\ ppRead' = ppRead BY <1>2, <2>1 DEF PpBegin
    <2> QED BY <2>3, <2>4, <2>5, PpWorkOf, PpWorkStep
<1>3. ASSUME NEW day \in 0..PpLastDay, PpServe(w, day) PROVE PpInv'
    <2>1. PICK r : r = ppWork[w] OBVIOUS
    <2>2. r.at = "serve" /\ day <= r.now BY <1>3, <2>1 DEF PpServe, PpAt
    <2>3. r \in PpWorks /\ PpHolds(ppLedger, ppDay, r) BY <2>1, PpWorkOf
    <2>4. r.now \in Nat BY <2>2, <2>3 DEF PpWorks, PpIdle
    <2>5. PpRaisedBelow(ppLedger, r.now + 1) BY <2>2, <2>3 DEF PpHolds
    <2>6. PpRaisedBelow(ppLedger, day + 1)
        <3>1. SUFFICES ASSUME NEW y \in PpYears, y < day + 1 PROVE y < r.now + 1 BY <2>5 DEF PpRaisedBelow
        <3>2. y \in Nat /\ day \in Nat BY <1>0, PpYearIs
        <3> QED BY <2>2, <2>4, <3>1, <3>2
    <2>7. PpGo(w, PpIdle) /\ UNCHANGED <<ppDay, ppLedger, ppLate>> /\ ppRead' = {<<day, TRUE>>} BY <1>3 DEF PpServe
    <2>8. ppRead' \subseteq Nat \X BOOLEAN
        <3>1. day \in Nat BY <1>0
        <3> QED BY <2>7, <3>1, PpOneRead
    <2>9. \A s \in ppRead' : s[2] = TRUE => PpRaisedBelow(ppLedger, s[1] + 1) BY <2>6, <2>7
    <2> QED BY <1>1, <2>7, <2>8, <2>9, PpWorkStep
<1>4. ASSUME NEW price \in PpPrices, NEW from \in 0..(PpLastDay + 1), PpAsk(w, price, from) PROVE PpInv'
    <2>1. PICK s : s = [at |-> "set", price |-> price, from |-> from] OBVIOUS
    <2>2. from \in Nat BY <1>0
    <2>3. s \in PpWorks BY <2>1, <2>2 DEF PpWorks
    <2>4. PpHolds(ppLedger, ppDay, s) /\ PpPriced(ppLedger, s) BY <2>1 DEF PpHolds, PpPriced
    <2>5. UNCHANGED <<ppDay, ppLedger, ppLate>> /\ ppRead' = ppRead BY <1>4 DEF PpAsk
    <2>6. PpGo(w, PpIdle) \/ PpGo(w, s) BY <1>4, <2>1 DEF PpAsk
    <2> QED BY <1>1, <2>3, <2>4, <2>5, <2>6, PpWorkOf, PpWorkStep
<1>5. ASSUME PpStop(w) PROVE PpInv'
    <2>1. PpGo(w, PpIdle) /\ UNCHANGED <<ppDay, ppLedger, ppLate>> /\ ppRead' = ppRead BY <1>5 DEF PpStop
    <2> QED BY <1>1, <2>1, PpWorkOf, PpWorkStep
<1> QED BY <1>2, <1>3, <1>4, <1>5

\* The day passes, and what is only shown is not made sure of.
LEMMA PpPassiveStep ==
    ASSUME PpInv, PpTomorrow \/ PpShow \/ UNCHANGED ppVars
    PROVE  PpInv'
<1>1. PICK L, d : L = ppLedger /\ d = ppDay OBVIOUS
<1>2. d \in Nat /\ d <= PpLastDay /\ PpLastDay \in Nat BY <1>1, PpAssumption DEF PpInv, PpTyped, PpAssumption
<1>3. ppLedger' = L /\ ppWork' = ppWork /\ ppLate' = ppLate BY <1>1 DEF PpTomorrow, PpShow, ppVars
<1>4. ppDay' \in {d, d + 1} /\ ppDay' \in 0..PpLastDay
    <2>1. CASE PpTomorrow BY <1>1, <1>2, <2>1 DEF PpTomorrow
    <2>2. CASE ppDay' = ppDay BY <1>1, <1>2, <2>2
    <2> QED BY <2>1, <2>2 DEF PpShow, ppVars
<1>5. ppRead' = ppRead \/ ppRead' = {<<d, FALSE>>} BY <1>1 DEF PpTomorrow, PpShow, ppVars
<1>6. ppRead' \subseteq Nat \X BOOLEAN
    <2>1. ppRead \subseteq Nat \X BOOLEAN BY DEF PpInv, PpTyped
    <2>2. FALSE \in BOOLEAN OBVIOUS
    <2>3. {<<d, FALSE>>} \subseteq Nat \X BOOLEAN BY <1>2, <2>2, PpOneRead
    <2> QED BY <1>5, <2>1, <2>3
<1>7. PpTyped'
    <2>1. PpLedgerIs(L) /\ ppWork \in [PpWorkers -> PpWorks] /\ ppLate \in BOOLEAN BY <1>1 DEF PpInv, PpTyped
    <2>2. PpLedgerIs(ppLedger') BY <1>3, <2>1
    <2> QED BY <1>3, <1>4, <1>6, <2>1, <2>2, Zenon DEF PpTyped
<1>8. PpYearly(L, ppDay')
    <2>1. PpYearly(L, d) BY <1>1 DEF PpInv
    <2>2. \A y \in PpYears : y <= d => y <= ppDay' BY <1>2, <1>4, PpYearIs
    <2> QED BY <2>1, <2>2 DEF PpYearly
<1>9. ASSUME NEW w \in PpWorkers PROVE PpHolds(L, ppDay', ppWork[w])
    <2>1. PICK r : r = ppWork[w] OBVIOUS
    <2>2. r \in PpWorks /\ PpHolds(L, d, r) BY <1>1, <2>1, PpWorkOf
    <2>3. r.at \in {"ensure", "serve", "prior", "raise"} => r.now <= ppDay'
        <3>1. SUFFICES ASSUME r.at \in {"ensure", "serve", "prior", "raise"} PROVE r.now <= ppDay' OBVIOUS
        <3>2. r.now \in Nat BY <2>2, <3>1 DEF PpWorks, PpIdle
        <3>3. r.now <= d BY <2>2, <3>1 DEF PpHolds
        <3> QED BY <1>2, <1>4, <3>2, <3>3
    <2>4. PpHolds(L, ppDay', r) BY <2>2, <2>3 DEF PpHolds
    <2> QED BY <2>1, <2>4
<1>10. \A s \in ppRead' : s[2] = TRUE => PpRaisedBelow(L, s[1] + 1)
    <2>1. CASE ppRead' = ppRead BY <1>1, <2>1 DEF PpInv
    <2>2. CASE ppRead' = {<<d, FALSE>>}
        <3>1. ASSUME NEW s \in ppRead' PROVE s[2] = FALSE
            <4>1. s = <<d, FALSE>> BY <2>2, <3>1
            <4> QED BY <4>1, Zenon
        <3> QED BY <3>1
    <2> QED BY <1>5, <2>1, <2>2
<1>11. ppLate = FALSE => PpExact(L) /\ \A w \in PpWorkers : PpPriced(L, ppWork[w]) BY <1>1 DEF PpInv
<1> QED BY <1>3, <1>7, <1>8, <1>9, <1>10, <1>11 DEF PpInv

\* No step breaks the ledger.
LEMMA PpInvStep == PpInv /\ [PpNext]_ppVars => PpInv'
<1>1. SUFFICES ASSUME PpInv, [PpNext]_ppVars PROVE PpInv' OBVIOUS
<1>2. CASE PpTomorrow \/ PpShow \/ UNCHANGED ppVars BY <1>1, <1>2, PpPassiveStep
<1>3. ASSUME NEW w \in PpWorkers,
             \/ \E request \in {"read", "patch"} : PpBegin(w, request)
             \/ \E day \in 0..PpLastDay : PpServe(w, day)
             \/ \E price \in PpPrices, from \in 0..(PpLastDay + 1) : PpAsk(w, price, from)
             \/ PpStop(w)
      PROVE  PpInv'
    BY <1>1, <1>3, PpQuietStep
<1>4. ASSUME NEW w \in PpWorkers, PpEnsure(w) PROVE PpInv' BY <1>1, <1>4, PpEnsureStep
<1>5. ASSUME NEW w \in PpWorkers, PpPrior(w) PROVE PpInv' BY <1>1, <1>5, PpPriorStep
<1>6. ASSUME NEW w \in PpWorkers, PpRaise(w) PROVE PpInv' BY <1>1, <1>6, PpRaiseStep
<1>7. ASSUME NEW w \in PpWorkers, PpSet(w) PROVE PpInv' BY <1>1, <1>7, PpSetStep
<1> QED BY <1>1, <1>2, <1>3, <1>4, <1>5, <1>6, <1>7 DEF PpNext

\* An increase that decides its day is that of the price before it.
LEMMA PpInvRaisedOnce == PpInv => PpRaisedOnce
<1>1. SUFFICES ASSUME PpInv, ppLate = FALSE, NEW y \in PpYears,
                      PpEntry(y).from = y, PpEntry(y).kind = "ANNUAL_INCREASE"
               PROVE  PpPrice(y) = PpFactor * PpPrice(y - 1)
    BY DEF PpRaisedOnce, PpInv, PpTyped
<1>2. y \in Nat BY PpYearIs
<1>3. PpLedgerIs(ppLedger) /\ PpExact(ppLedger) BY <1>1 DEF PpInv, PpTyped
<1>4. PICK i : PpTopIn(ppLedger, y, i) BY <1>2, <1>3, PpTopExists
<1>5. PpEntryIn(ppLedger, y) = ppLedger[i] /\ i \in DOMAIN ppLedger
    BY <1>2, <1>3, <1>4, PpTopUnique DEF PpTopIn, PpDueIn
<1>6. ppLedger[i].from = y /\ ppLedger[i].kind = "ANNUAL_INCREASE" BY <1>1, <1>5, PpLooksUp
<1>7. ppLedger[i].price = PpFactor * PpEntryIn(ppLedger, y - 1).price BY <1>3, <1>5, <1>6 DEF PpExact
<1> QED BY <1>5, <1>7, PpLooksUp

\* A price that was read after adding the increases changes only when one is set.
LEMMA PpStepKeepsRead == PpInv /\ PpNext => PpReadStays
<1>0. SUFFICES ASSUME PpInv, PpNext PROVE PpReadStays OBVIOUS
<1>1. SUFFICES ASSUME ppLate' = FALSE, NEW s \in ppRead, s[2] = TRUE, PpPrice(s[1])' # PpPrice(s[1])
               PROVE  \E w \in PpWorkers : PpSet(w) /\ ppWork[w].from <= s[1]
    <2>1. PpInv' BY <1>0, PpInvStep
    <2>2. ppLate' \in BOOLEAN BY <2>1 DEF PpInv, PpTyped
    <2>3. ASSUME NEW s \in ppRead PROVE s[2] \in BOOLEAN
        <3>1. s \in Nat \X BOOLEAN BY <1>0, <2>3 DEF PpInv, PpTyped
        <3> QED BY <3>1, Zenon
    <2> QED BY <2>2, <2>3 DEF PpReadStays, PpStays
<1>2. PICK d : d = s[1] OBVIOUS
<1>3. d \in Nat BY <1>0, <1>1, <1>2 DEF PpInv, PpTyped
<1>4. PpRaisedBelow(ppLedger, d + 1) BY <1>0, <1>1, <1>2 DEF PpInv
<1>5. PpEntryIn(ppLedger', d).price # PpEntryIn(ppLedger, d).price
    <2>1. PpPrice(d)' # PpPrice(d) BY <1>1, <1>2
    <2> QED BY <2>1, PpLooksUp
<1>6. PpLedgerIs(ppLedger) BY <1>0 DEF PpInv, PpTyped
<1>7. ~ UNCHANGED ppLedger BY <1>5
<1>8. PICK w \in PpWorkers : PpRaise(w) \/ PpSet(w)
    BY <1>0, <1>7 DEF PpNext, PpTomorrow, PpShow, PpBegin, PpEnsure, PpPrior, PpServe, PpAsk, PpStop
<1>9. CASE PpRaise(w)
    <2>1. PICK e \in PpEntries, r \in PpWorks :
              /\ ppLedger' = Append(ppLedger, e) /\ PpGo(w, r) /\ r.at # "raise"
              /\ e.kind = "ANNUAL_INCREASE" /\ e.from \in PpYears /\ e.from <= ppDay
              /\ PpRaisedBelow(ppLedger, e.from) /\ PpHolds(ppLedger, ppDay, r)
              /\ ppLate = FALSE => e.price = PpFactor * PpEntryIn(ppLedger, e.from - 1).price
        BY <1>0, <1>9, PpRaiseIs
    <2>2. ppLate = FALSE BY <1>1, <1>9 DEF PpRaise
    <2>3. PpExact(ppLedger) BY <1>0, <2>2 DEF PpInv
    <2>4. PpEntryIn(Append(ppLedger, e), d).price = PpEntryIn(ppLedger, d).price
        BY <1>3, <1>4, <1>6, <2>1, <2>2, <2>3, PpRaisingKeeps
    <2> QED BY <1>5, <2>1, <2>4
<1>10. CASE PpSet(w)
    <2>1. PICK e \in PpEntries :
              /\ ppLedger' = Append(ppLedger, e) /\ e.kind = "MANUAL" /\ e.from = ppWork[w].from /\ PpGo(w, PpIdle)
              /\ ppLate' \in BOOLEAN /\ (ppLate' = FALSE => ppLate = FALSE /\ e.from >= ppDay)
        BY <1>0, <1>10, PpSetIs
    <2>2. CASE d < e.from
        <3>1. PpEntryIn(Append(ppLedger, e), d) = PpEntryIn(ppLedger, d) BY <1>3, <1>6, <2>2, PpAddedLater
        <3> QED BY <1>5, <2>1, <3>1
    <2>3. CASE ~(d < e.from)
        <3>1. e.from \in Nat BY DEF PpEntries
        <3>2. e.from <= d BY <1>3, <2>3, <3>1
        <3> QED BY <1>2, <1>10, <2>1, <3>2
    <2> QED BY <2>2, <2>3
<1> QED BY <1>8, <1>9, <1>10

\* A year's increase is made once, however many requests add it at the same time and however
\* late, and none comes too late for a price that was read after adding the increases: for
\* any prices, any factor and length of the year, and any number of requests and cycles.
THEOREM PlanPricesAreKept == PpSpec => PlanPricesSafe
<1>1. PpInit => PpInv BY PpInvInit
<1>2. PpInv /\ [PpNext]_ppVars => PpInv' BY PpInvStep
<1>3. PpInv => PpRaisedOnce BY PpInvRaisedOnce
<1>4. PpInv /\ [PpNext]_ppVars => [PpReadStays]_ppVars BY PpStepKeepsRead
<1> QED BY <1>1, <1>2, <1>3, <1>4, PTL DEF PpSpec, PlanPricesSafe

-------------------------------------------------------------------------------
(* What a module costs a partner: ModulePrices. *)

\* The histories, of any kind of value.
MpHistoryOf(h, V) == h \in Seq([at : MpTimes, old : V, new : V])
MpLater(h, i, j)   == h[i].at > h[j].at \/ (h[i].at = h[j].at /\ i >= j)
MpSooner(h, i, j)  == h[i].at < h[j].at \/ (h[i].at = h[j].at /\ i <= j)
MpIsLast(h, t, i)  == i \in DOMAIN h /\ h[i].at <= t /\ \A j \in DOMAIN h : h[j].at <= t => MpLater(h, i, j)
MpIsFirst(h, t, i) == i \in DOMAIN h /\ h[i].at > t /\ \A j \in DOMAIN h : h[j].at > t => MpSooner(h, i, j)

\* Times are naturals with a bound, and positions too.
LEMMA MpHistoryIs ==
    ASSUME NEW V, NEW h, MpHistoryOf(h, V)
    PROVE  /\ Len(h) \in Nat /\ DOMAIN h = 1..Len(h)
           /\ \A i \in DOMAIN h : i \in Nat /\ i # 0 /\ h[i] \in [at : MpTimes, old : V, new : V]
           /\ \A i \in DOMAIN h : h[i].at \in Nat /\ h[i].at \in 0..(2 * MpLastDay + 2)
<1>1. MpLastDay \in Nat BY MpAssumption DEF MpAssumption
<1>2. Len(h) \in Nat /\ DOMAIN h = 1..Len(h)
      /\ \A i \in DOMAIN h : h[i] \in [at : MpTimes, old : V, new : V]
    <2>1. PICK E : E = [at : MpTimes, old : V, new : V] OBVIOUS
    <2>2. h \in Seq(E) BY <2>1 DEF MpHistoryOf
    <2>3. Len(h) \in Nat /\ DOMAIN h = 1..Len(h) BY <2>2
    <2>4. \A i \in DOMAIN h : h[i] \in E BY <2>2
    <2> QED BY <2>1, <2>3, <2>4
<1>3. \A i \in DOMAIN h : i \in Nat /\ i # 0 BY <1>2
<1>4. \A i \in DOMAIN h : h[i].at \in 0..(2 * MpLastDay + 2) BY <1>2 DEF MpTimes
<1>5. \A x \in 0..(2 * MpLastDay + 2) : x \in Nat BY <1>1
<1> QED BY <1>2, <1>3, <1>4, <1>5

\* The last entry up to a time is one, when there is any.
LEMMA MpLastIs ==
    ASSUME NEW V, NEW h, MpHistoryOf(h, V), NEW t
    PROVE  /\ (\E i \in DOMAIN h : h[i].at <= t) => MpIsLast(h, t, MpLast(h, t))
           /\ (\A i \in DOMAIN h : ~(h[i].at <= t)) => MpLast(h, t) = 0
<1>1. PICK D : D = {i \in DOMAIN h : h[i].at <= t} OBVIOUS
<1>2. MpLast(h, t) = IF D = {} THEN 0
                     ELSE CHOOSE i \in D : \A j \in D : h[i].at > h[j].at \/ (h[i].at = h[j].at /\ i >= j)
    BY <1>1 DEF MpLast
<1>3. CASE \E i \in DOMAIN h : h[i].at <= t
    <2>1. D # {} BY <1>1, <1>3
    <2>2. PICK n, m, rank : n = Len(h) /\ m = 2 * MpLastDay + 2 /\ rank = [i \in D |-> h[i].at] OBVIOUS
    <2>3. Ranked(n, m, D, rank)
        <3>1. \A i \in D : i \in 1..n /\ rank[i] \in 0..m BY <1>1, <2>2, MpHistoryIs
        <3>2. n \in Nat /\ m \in Nat BY <2>2, MpHistoryIs, MpAssumption DEF MpAssumption
        <3> QED BY <2>1, <3>1, <3>2 DEF Ranked
    <2>4. PICK i : IsLatest(D, rank, i) BY <2>3, LatestExists
    <2>5. i \in D /\ \A j \in D : h[i].at > h[j].at \/ (h[i].at = h[j].at /\ i >= j)
        BY <2>2, <2>4 DEF IsLatest
    <2>6. PICK k : k = MpLast(h, t) OBVIOUS
    <2>7. k \in D /\ \A j \in D : h[k].at > h[j].at \/ (h[k].at = h[j].at /\ k >= j) BY <1>2, <2>1, <2>5, <2>6
    <2>8. MpIsLast(h, t, k) BY <1>1, <2>7 DEF MpIsLast, MpLater
    <2> QED BY <1>3, <2>6, <2>8
<1>4. CASE \A i \in DOMAIN h : ~(h[i].at <= t)
    <2>1. D = {} BY <1>1, <1>4
    <2> QED BY <1>2, <1>4, <2>1
<1> QED BY <1>3, <1>4

\* The first entry after a time is one, when there is any.
LEMMA MpFirstIs ==
    ASSUME NEW V, NEW h, MpHistoryOf(h, V), NEW t
    PROVE  /\ (\E i \in DOMAIN h : h[i].at > t) => MpIsFirst(h, t, MpFirst(h, t))
           /\ (\A i \in DOMAIN h : ~(h[i].at > t)) => MpFirst(h, t) = 0
<1>1. PICK D : D = {i \in DOMAIN h : h[i].at > t} OBVIOUS
<1>2. MpFirst(h, t) = IF D = {} THEN 0
                      ELSE CHOOSE i \in D : \A j \in D : h[i].at < h[j].at \/ (h[i].at = h[j].at /\ i <= j)
    BY <1>1 DEF MpFirst
<1>3. CASE \E i \in DOMAIN h : h[i].at > t
    <2>1. D # {} BY <1>1, <1>3
    <2>2. PICK n, m, rank : n = Len(h) /\ m = 2 * MpLastDay + 2 /\ rank = [i \in D |-> h[i].at] OBVIOUS
    <2>3. Ranked(n, m, D, rank)
        <3>1. \A i \in D : i \in 1..n /\ rank[i] \in 0..m BY <1>1, <2>2, MpHistoryIs
        <3>2. n \in Nat /\ m \in Nat BY <2>2, MpHistoryIs, MpAssumption DEF MpAssumption
        <3> QED BY <2>1, <3>1, <3>2 DEF Ranked
    <2>4. PICK i : IsEarliest(D, rank, i) BY <2>3, EarliestExists
    <2>5. i \in D /\ \A j \in D : h[i].at < h[j].at \/ (h[i].at = h[j].at /\ i <= j)
        BY <2>2, <2>4 DEF IsEarliest
    <2>6. PICK k : k = MpFirst(h, t) OBVIOUS
    <2>7. k \in D /\ \A j \in D : h[k].at < h[j].at \/ (h[k].at = h[j].at /\ k <= j) BY <1>2, <2>1, <2>5, <2>6
    <2>8. MpIsFirst(h, t, k) BY <1>1, <2>7 DEF MpIsFirst, MpSooner
    <2> QED BY <1>3, <2>6, <2>8
<1>4. CASE \A i \in DOMAIN h : ~(h[i].at > t)
    <2>1. D = {} BY <1>1, <1>4
    <2> QED BY <1>2, <1>4, <2>1
<1> QED BY <1>3, <1>4

\* There is one of each.
LEMMA MpOnlyOne ==
    ASSUME NEW V, NEW h, MpHistoryOf(h, V), NEW t, NEW i
    PROVE  /\ MpIsLast(h, t, i) => MpLast(h, t) = i /\ MpLast(h, t) # 0
           /\ MpIsFirst(h, t, i) => MpFirst(h, t) = i /\ MpFirst(h, t) # 0
<1>1. ASSUME MpIsLast(h, t, i) PROVE MpLast(h, t) = i /\ MpLast(h, t) # 0
    <2>1. PICK k : k = MpLast(h, t) OBVIOUS
    <2>2. i \in DOMAIN h /\ h[i].at <= t BY <1>1 DEF MpIsLast
    <2>3. MpIsLast(h, t, k) BY <2>1, <2>2, MpLastIs
    <2>4. k \in DOMAIN h /\ MpLater(h, i, k) /\ MpLater(h, k, i) BY <1>1, <2>2, <2>3 DEF MpIsLast
    <2>5. h[i].at \in Nat /\ h[k].at \in Nat /\ i \in Nat /\ k \in Nat /\ k # 0 BY <2>2, <2>4, MpHistoryIs
    <2> QED BY <2>1, <2>4, <2>5 DEF MpLater
<1>2. ASSUME MpIsFirst(h, t, i) PROVE MpFirst(h, t) = i /\ MpFirst(h, t) # 0
    <2>1. PICK k : k = MpFirst(h, t) OBVIOUS
    <2>2. i \in DOMAIN h /\ h[i].at > t BY <1>2 DEF MpIsFirst
    <2>3. MpIsFirst(h, t, k) BY <2>1, <2>2, MpFirstIs
    <2>4. k \in DOMAIN h /\ MpSooner(h, i, k) /\ MpSooner(h, k, i) BY <1>2, <2>2, <2>3 DEF MpIsFirst
    <2>5. h[i].at \in Nat /\ h[k].at \in Nat /\ i \in Nat /\ k \in Nat /\ k # 0 BY <2>2, <2>4, MpHistoryIs
    <2> QED BY <2>1, <2>4, <2>5 DEF MpSooner
<1> QED BY <1>1, <1>2

\* What adding an entry does to a history.
LEMMA MpAppendIs ==
    ASSUME NEW V, NEW h, MpHistoryOf(h, V), NEW e \in [at : MpTimes, old : V, new : V]
    PROVE  /\ MpHistoryOf(Append(h, e), V) /\ DOMAIN h \subseteq DOMAIN Append(h, e)
           /\ \A i \in DOMAIN h : Append(h, e)[i] = h[i] /\ i < Len(h) + 1
           /\ \A i \in DOMAIN Append(h, e) : i \in DOMAIN h \/ i = Len(h) + 1
           /\ Append(h, e)[Len(h) + 1] = e /\ Len(h) + 1 \in DOMAIN Append(h, e)
<1>1. PICK n : n = Len(h) OBVIOUS
<1>2. PICK k : k = Append(h, e) OBVIOUS
<1>3. n \in Nat /\ DOMAIN h = 1..n /\ h \in Seq([at : MpTimes, old : V, new : V]) BY <1>1 DEF MpHistoryOf
<1>4. k \in Seq([at : MpTimes, old : V, new : V]) /\ Len(k) = n + 1 /\ DOMAIN k = 1..(n + 1)
      /\ k[n + 1] = e /\ \A i \in 1..n : k[i] = h[i]
    BY <1>1, <1>2, <1>3
<1>5. \A i \in 1..(n + 1) : i \in 1..n \/ i = n + 1 BY <1>3
<1>6. n + 1 \in 1..(n + 1) /\ 1..n \subseteq 1..(n + 1) /\ \A i \in 1..n : i < n + 1 BY <1>3
<1>7. MpHistoryOf(k, V) BY <1>4 DEF MpHistoryOf
<1> QED BY <1>1, <1>2, <1>3, <1>4, <1>5, <1>6, <1>7

\* An entry is not the last one up to an earlier time.
LEMMA MpAddedAhead ==
    ASSUME NEW V, NEW h, MpHistoryOf(h, V), NEW e \in [at : MpTimes, old : V, new : V], NEW t \in Int, t < e.at
    PROVE  /\ MpLast(Append(h, e), t) = MpLast(h, t)
           /\ MpLast(h, t) # 0 => Append(h, e)[MpLast(h, t)] = h[MpLast(h, t)]
<1>1. PICK k, n : k = Append(h, e) /\ n = Len(h) + 1 OBVIOUS
<1>2. MpHistoryOf(k, V) /\ DOMAIN h \subseteq DOMAIN k /\ (\A i \in DOMAIN h : k[i] = h[i])
      /\ (\A i \in DOMAIN k : i \in DOMAIN h \/ i = n) /\ k[n] = e
    BY <1>1, MpAppendIs
<1>3. ~(e.at <= t)
    <2>1. e.at \in 0..(2 * MpLastDay + 2) BY DEF MpTimes
    <2>2. e.at \in Int BY <2>1
    <2> QED BY <2>2
<1>4. CASE \E i \in DOMAIN h : h[i].at <= t
    <2>1. PICK i : i = MpLast(h, t) OBVIOUS
    <2>2. MpIsLast(h, t, i) BY <1>4, <2>1, MpLastIs
    <2>3. MpIsLast(k, t, i) BY <1>2, <1>3, <2>2 DEF MpIsLast, MpLater
    <2>4. MpLast(k, t) = i BY <1>2, <2>3, MpOnlyOne
    <2>5. k[i] = h[i] BY <1>2, <2>2 DEF MpIsLast
    <2> QED BY <1>1, <2>1, <2>4, <2>5
<1>5. CASE \A i \in DOMAIN h : ~(h[i].at <= t)
    <2>1. MpLast(h, t) = 0 BY <1>5, MpLastIs
    <2>2. \A i \in DOMAIN k : ~(k[i].at <= t) BY <1>2, <1>3, <1>5
    <2>3. MpLast(k, t) = 0 BY <1>2, <2>2, MpLastIs
    <2> QED BY <1>1, <2>1, <2>3
<1> QED BY <1>4, <1>5

MpWorks ==
    {MpIdle}
    \cup [at : {"included"}, old : BOOLEAN, new : BOOLEAN]
    \cup [at : {"price"}, old : Nat, new : Nat, from : MpTimes, backdated : BOOLEAN]
MpRows == [included : BOOLEAN, override : Nat \cup {MpNone}, configured : BOOLEAN]
MpTyped ==
    /\ mpDay \in 0..MpLastDay /\ mpRow \in MpRows
    /\ MpHistoryOf(mpPrices, Nat) /\ MpHistoryOf(mpIncluded, BOOLEAN)
    /\ \A i \in DOMAIN mpIncluded : mpIncluded[i].at <= MpNow
    /\ mpWork \in [MpWorkers -> MpWorks] /\ mpBackdated \in BOOLEAN
    /\ \A w \in MpWorkers : mpWork[w].at = "price" /\ mpWork[w].backdated = TRUE => mpWork[w].from < MpNow

\* What the module cost before all prices of its history, as the row, the first entry and
\* every PATCH tell that is set from an instant before all entries: they agree on it, as long
\* as no PATCH is backdated; and nothing that is due yet is a history without backdating.
MpNoneDue(h, t)      == \A i \in DOMAIN h : ~(h[i].at <= t)
MpAllAfter(h, t)     == \A i \in DOMAIN h : h[i].at > t
MpOpens(h, i)        == i \in DOMAIN h /\ \A j \in DOMAIN h : MpSooner(h, i, j)
MpRowSays(row, b)    == (row.override # MpNone => row.override = b) /\ (row.override = MpNone => b = MpDefault)
MpFirstSays(h, b)    == \A i \in DOMAIN h : MpOpens(h, i) => h[i].old = b
MpPatchSays(h, r, b) == r.at = "price" /\ r.backdated = FALSE /\ MpAllAfter(h, r.from) => r.old = b
MpBase(b) ==
    /\ MpNoneDue(mpPrices, MpNow) => MpRowSays(mpRow, b) /\ mpBackdated = FALSE
    /\ mpBackdated = FALSE =>
           MpFirstSays(mpPrices, b) /\ \A w \in MpWorkers : MpPatchSays(mpPrices, mpWork[w], b)
MpInv == MpTyped /\ \E b \in Nat : MpBase(b)

\* The clock shows noon.
LEMMA MpNowIs ==
    ASSUME mpDay \in 0..MpLastDay
    PROVE  MpNow \in Nat /\ MpNow \in MpTimes
BY MpAssumption DEF MpAssumption, MpNow, MpTimes

\* At the start the row alone tells what the module costs.
LEMMA MpInvInit == MpInit => MpInv
<1>1. SUFFICES ASSUME MpInit PROVE MpInv OBVIOUS
<1>2. mpPrices = <<>> /\ mpIncluded = <<>> /\ mpDay = 0 /\ mpWork = [w \in MpWorkers |-> MpIdle]
    BY <1>1 DEF MpInit
<1>3. mpBackdated = FALSE BY <1>1, Zenon DEF MpInit
<1>4. mpRow \in MpRows
    <2>1. CASE mpRow = [included |-> FALSE, override |-> MpNone, configured |-> FALSE] BY <2>1 DEF MpRows
    <2>2. CASE mpRow = [included |-> TRUE, override |-> MpNone, configured |-> TRUE] BY <2>2 DEF MpRows
    <2>3. ASSUME NEW p \in MpPrices, mpRow = [included |-> FALSE, override |-> p, configured |-> TRUE] PROVE mpRow \in MpRows
        <3>1. p \in Nat BY MpAssumption DEF MpAssumption
        <3> QED BY <2>3, <3>1 DEF MpRows
    <2> QED BY <1>1, <2>1, <2>2, <2>3 DEF MpInit
<1>5. DOMAIN mpPrices = {} /\ DOMAIN mpIncluded = {} BY <1>2
<1>6. MpTyped
    <2>1. MpHistoryOf(mpPrices, Nat) /\ MpHistoryOf(mpIncluded, BOOLEAN) BY <1>2 DEF MpHistoryOf
    <2>2. mpDay \in 0..MpLastDay BY <1>2, MpAssumption DEF MpAssumption
    <2>3. mpWork \in [MpWorkers -> MpWorks] BY <1>2 DEF MpWorks
    <2>5. \A w \in MpWorkers : mpWork[w].at # "price" BY <1>2 DEF MpIdle
    <2>4. mpBackdated \in BOOLEAN BY <1>3, Zenon
    <2> QED BY <1>4, <1>5, <2>1, <2>2, <2>3, <2>4, <2>5 DEF MpTyped
<1>7. PICK b : b = IF mpRow.override # MpNone THEN mpRow.override ELSE MpDefault OBVIOUS
<1>8. b \in Nat BY <1>4, <1>7, MpAssumption DEF MpRows, MpAssumption
<1>9. MpRowSays(mpRow, b) BY <1>7 DEF MpRowSays
<1>10. MpFirstSays(mpPrices, b) BY <1>5 DEF MpFirstSays
<1>11. \A w \in MpWorkers : MpPatchSays(mpPrices, mpWork[w], b) BY <1>2 DEF MpPatchSays, MpIdle
<1> QED BY <1>3, <1>6, <1>8, <1>9, <1>10, <1>11 DEF MpInv, MpBase

\* What is due stays due.
LEMMA MpDueStays ==
    ASSUME NEW h, MpHistoryOf(h, Nat), NEW t \in Nat, NEW u \in Nat, t <= u, MpNoneDue(h, u)
    PROVE  MpNoneDue(h, t)
<1>1. SUFFICES ASSUME NEW i \in DOMAIN h, h[i].at <= t PROVE FALSE BY DEF MpNoneDue
<1>2. h[i].at \in Nat /\ ~(h[i].at <= u) BY MpHistoryIs DEF MpNoneDue
<1> QED BY <1>1, <1>2

\* The effective price, when none is due, is what all agree on, and any other is a price too.
LEMMA MpEffectiveIs ==
    ASSUME MpTyped, NEW other \in Nat
    PROVE  /\ MpEffective(other) \in Nat
           /\ MpNoneDue(mpPrices, MpNow) =>
                  MpEffective(other) = IF mpRow.override # MpNone THEN mpRow.override ELSE other
           /\ ~MpNoneDue(mpPrices, MpNow) =>
                  /\ MpIsLast(mpPrices, MpNow, MpLast(mpPrices, MpNow)) /\ MpLast(mpPrices, MpNow) # 0
                  /\ MpEffective(other) = mpPrices[MpLast(mpPrices, MpNow)].new
<1>1. MpHistoryOf(mpPrices, Nat) /\ (mpRow.override \in Nat \/ mpRow.override = MpNone) BY DEF MpTyped, MpRows
<1>2. PICK h, n, k, row : h = mpPrices /\ n = MpNow /\ k = MpLast(mpPrices, MpNow) /\ row = mpRow OBVIOUS
<1>3. CASE MpNoneDue(h, n)
    <2>1. k = 0 BY <1>1, <1>2, <1>3, MpLastIs DEF MpNoneDue
    <2> QED BY <1>1, <1>2, <1>3, <2>1 DEF MpEffective
<1>4. CASE ~MpNoneDue(h, n)
    <2>1. MpIsLast(h, n, k) BY <1>1, <1>2, <1>4, MpLastIs DEF MpNoneDue
    <2>2. k # 0 BY <1>1, <1>2, <2>1, MpOnlyOne
    <2>3. k \in DOMAIN h BY <2>1 DEF MpIsLast
    <2>4. h[k].new \in Nat BY <1>1, <1>2, <2>3, MpHistoryIs
    <2> QED BY <1>2, <1>4, <2>1, <2>2, <2>4 DEF MpEffective
<1> QED BY <1>2, <1>3, <1>4

\* A worker's step changes nothing of the others.
LEMMA MpGoIs ==
    ASSUME MpTyped, NEW w \in MpWorkers, NEW r \in MpWorks, MpGo(w, r)
    PROVE  mpWork' \in [MpWorkers -> MpWorks] /\ \A v \in MpWorkers : mpWork'[v] = IF v = w THEN r ELSE mpWork[v]
BY DEF MpTyped, MpGo

\* A step that adds no price leaves what the module cost before them all.
LEMMA MpBaseStays ==
    ASSUME MpTyped, NEW b \in Nat, MpBase(b), MpTyped', UNCHANGED <<mpPrices, mpBackdated>>, MpNow <= MpNow',
           mpRow'.override = mpRow.override,
           \A w \in MpWorkers : mpWork'[w] = mpWork[w] \/ mpWork'[w].at # "price" \/ MpPatchSays(mpPrices, mpWork'[w], b)
    PROVE  MpBase(b)'
<1>1. PICK h, n, m : h = mpPrices /\ n = MpNow /\ m = MpNow' OBVIOUS
<1>2. mpPrices' = h /\ mpBackdated' = mpBackdated BY <1>1
<1>3. n \in Nat /\ m \in Nat /\ n <= m /\ MpHistoryOf(h, Nat)
    <2>1. MpNow \in Nat BY MpNowIs DEF MpTyped
    <2>2. mpDay' \in 0..MpLastDay BY DEF MpTyped
    <2>3. MpNow' \in Nat
        <3>1. PICK d : d = mpDay' OBVIOUS
        <3>2. d \in Nat /\ MpNow' = 2 * d + 1 BY <2>2, <3>1, MpAssumption DEF MpNow, MpAssumption
        <3> QED BY <3>2
    <2> QED BY <1>1, <2>1, <2>3 DEF MpTyped
<1>4. ASSUME MpNoneDue(h, m) PROVE MpRowSays(mpRow', b) /\ mpBackdated' = FALSE
    <2>1. MpNoneDue(h, n) BY <1>3, <1>4, MpDueStays
    <2>2. MpRowSays(mpRow, b) /\ mpBackdated = FALSE BY <1>1, <2>1 DEF MpBase
    <2> QED BY <1>2, <2>2 DEF MpRowSays
<1>5. ASSUME mpBackdated' = FALSE PROVE MpFirstSays(h, b) /\ \A w \in MpWorkers : MpPatchSays(h, mpWork'[w], b)
    <2>1. MpFirstSays(h, b) /\ \A w \in MpWorkers : MpPatchSays(h, mpWork[w], b) BY <1>1, <1>2, <1>5 DEF MpBase
    <2>2. \A w \in MpWorkers : mpWork'[w].at # "price" => MpPatchSays(h, mpWork'[w], b) BY DEF MpPatchSays
    <2> QED BY <1>1, <2>1, <2>2
<1> QED BY <1>1, <1>2, <1>4, <1>5 DEF MpBase

\* The steps that touch the row, and the day.
LEMMA MpRowStep ==
    ASSUME MpInv, MpTomorrow \/ MpConfigure \/ MpPlan \/ UNCHANGED mpVars
    PROVE  MpInv'
<1>0. MpTyped /\ mpDay \in 0..MpLastDay /\ MpLastDay \in Nat /\ mpRow \in MpRows
    BY MpAssumption DEF MpInv, MpTyped, MpAssumption
<1>1. UNCHANGED <<mpPrices, mpIncluded, mpWork, mpBackdated>> BY DEF MpTomorrow, MpConfigure, MpPlan, mpVars
<1>2. mpDay' \in 0..MpLastDay /\ mpDay <= mpDay'
    <2>1. CASE MpTomorrow BY <1>0, <2>1 DEF MpTomorrow
    <2>2. CASE mpDay' = mpDay BY <1>0, <2>2
    <2> QED BY <2>1, <2>2 DEF MpConfigure, MpPlan, mpVars
<1>3. mpRow' \in MpRows /\ mpRow'.override = mpRow.override
    <2>1. CASE MpConfigure BY <1>0, <2>1 DEF MpConfigure, MpRows
    <2>2. CASE MpPlan BY <1>0, <2>2 DEF MpPlan, MpRows
    <2>3. CASE mpRow' = mpRow BY <1>0, <2>3
    <2> QED BY <2>1, <2>2, <2>3 DEF MpTomorrow, mpVars
<1>4. MpNow \in Nat /\ MpNow' \in Nat /\ MpNow <= MpNow'
    <2>1. PICK c, d : c = mpDay /\ d = mpDay' OBVIOUS
    <2>2. c \in Nat /\ d \in Nat /\ c <= d BY <1>0, <1>2, <2>1
    <2>3. MpNow = 2 * c + 1 /\ MpNow' = 2 * d + 1 BY <2>1 DEF MpNow
    <2> QED BY <2>2, <2>3
<1>5. MpTyped'
    <2>1. PICK n, m : n = MpNow /\ m = MpNow' OBVIOUS
    <2>2. \A i \in DOMAIN mpIncluded : mpIncluded[i].at <= m
        <3>1. SUFFICES ASSUME NEW i \in DOMAIN mpIncluded PROVE mpIncluded[i].at <= m OBVIOUS
        <3>2. mpIncluded[i].at <= n BY <2>1 DEF MpInv, MpTyped
        <3>3. mpIncluded[i].at \in Nat
            <4>1. MpHistoryOf(mpIncluded, BOOLEAN) BY DEF MpInv, MpTyped
            <4> QED BY <4>1, MpHistoryIs
        <3> QED BY <1>4, <2>1, <3>2, <3>3
    <2>3. \A w \in MpWorkers : mpWork[w].at = "price" /\ mpWork[w].backdated = TRUE => mpWork[w].from < m
        <3>1. SUFFICES ASSUME NEW w \in MpWorkers, mpWork[w].at = "price", mpWork[w].backdated = TRUE
                       PROVE  mpWork[w].from < m
            OBVIOUS
        <3>2. mpWork[w].from < n /\ mpWork[w] \in MpWorks BY <2>1, <3>1 DEF MpInv, MpTyped
        <3>3. mpWork[w].from \in MpTimes BY <3>1, <3>2 DEF MpWorks, MpIdle
        <3>4. mpWork[w].from \in Int BY <3>3 DEF MpTimes
        <3> QED BY <1>4, <2>1, <3>2, <3>4
    <2>4. MpHistoryOf(mpPrices, Nat) /\ MpHistoryOf(mpIncluded, BOOLEAN)
          /\ mpWork \in [MpWorkers -> MpWorks] /\ mpBackdated \in BOOLEAN
        BY DEF MpInv, MpTyped
    <2> QED BY <1>1, <1>2, <1>3, <2>1, <2>2, <2>3, <2>4 DEF MpTyped
<1>6. PICK b \in Nat : MpBase(b) BY DEF MpInv
<1>7. MpBase(b)' BY <1>0, <1>1, <1>3, <1>4, <1>5, <1>6, MpBaseStays
<1> QED BY <1>5, <1>6, <1>7 DEF MpInv

\* A PATCH of the price reads what the price before is.
LEMMA MpReadPriceStep ==
    ASSUME MpInv, NEW w \in MpWorkers, NEW price \in MpPrices, NEW from \in MpTimes, MpReadPrice(w, price, from)
    PROVE  MpInv'
<1>0. MpTyped /\ mpDay \in 0..MpLastDay /\ MpLastDay \in Nat /\ price \in Nat /\ MpDefault \in Nat
    BY MpAssumption DEF MpInv, MpTyped, MpAssumption
<1>1. PICK old, past : old = MpEffective(MpDefault) /\ past = (from < MpNow) OBVIOUS
<1>2. PICK s : s = [at |-> "price", old |-> old, new |-> price, from |-> from, backdated |-> past] OBVIOUS
<1>3. old \in Nat BY <1>0, <1>1, MpEffectiveIs
<1>4. past \in BOOLEAN
    <2>1. (from < MpNow) \in BOOLEAN OBVIOUS
    <2> QED BY <1>1, <2>1, Zenon
<1>5. s \in MpWorks BY <1>0, <1>2, <1>3, <1>4 DEF MpWorks
<1>6. MpGo(w, s) BY <1>1, <1>2 DEF MpReadPrice, MpOld
<1>7. UNCHANGED <<mpDay, mpRow, mpPrices, mpIncluded, mpBackdated>> BY DEF MpReadPrice
<1>8. mpWork' \in [MpWorkers -> MpWorks] /\ \A v \in MpWorkers : mpWork'[v] = IF v = w THEN s ELSE mpWork[v]
    BY <1>0, <1>5, <1>6, MpGoIs
<1>9. MpNow' = MpNow /\ MpNow \in Nat BY <1>0, <1>7, MpNowIs DEF MpNow
<1>10. s.backdated = TRUE => s.from < MpNow BY <1>1, <1>2
<1>11. MpTyped'
    <2>1. \A v \in MpWorkers : mpWork'[v].at = "price" /\ mpWork'[v].backdated = TRUE => mpWork'[v].from < MpNow
        BY <1>0, <1>8, <1>10 DEF MpTyped
    <2> QED BY <1>0, <1>7, <1>8, <1>9, <2>1 DEF MpTyped
<1>12. PICK b \in Nat : MpBase(b) BY DEF MpInv
<1>13. MpPatchSays(mpPrices, s, b)
    <2>1. SUFFICES ASSUME s.backdated = FALSE, MpAllAfter(mpPrices, from) PROVE old = b
        BY <1>2 DEF MpPatchSays
    <2>2. ~(from < MpNow) BY <1>1, <1>2, <2>1
    <2>3. from \in Int BY DEF MpTimes
    <2>4. MpNow <= from BY <1>9, <2>2, <2>3
    <2>5. MpNoneDue(mpPrices, MpNow)
        <3>1. SUFFICES ASSUME NEW i \in DOMAIN mpPrices, mpPrices[i].at <= MpNow PROVE FALSE BY DEF MpNoneDue
        <3>2. mpPrices[i].at > from BY <2>1 DEF MpAllAfter
        <3>3. mpPrices[i].at \in Nat
            <4>1. MpHistoryOf(mpPrices, Nat) BY <1>0 DEF MpTyped
            <4> QED BY <4>1, MpHistoryIs
        <3> QED BY <1>9, <2>3, <2>4, <3>1, <3>2, <3>3
    <2>6. MpRowSays(mpRow, b) BY <1>12, <2>5 DEF MpBase
    <2>7. old = IF mpRow.override # MpNone THEN mpRow.override ELSE MpDefault BY <1>0, <1>1, <2>5, MpEffectiveIs
    <2> QED BY <2>6, <2>7 DEF MpRowSays
<1>14. MpBase(b)' BY <1>0, <1>7, <1>8, <1>9, <1>11, <1>12, <1>13, MpBaseStays
<1> QED BY <1>11, <1>12, <1>14 DEF MpInv

\* Once it is written, the first of all prices still tells it.
LEMMA MpWritePriceIs ==
    ASSUME MpInv, NEW w \in MpWorkers, MpWritePrice(w)
    PROVE  \E e \in [at : MpTimes, old : Nat, new : Nat] :
               /\ mpPrices' = Append(mpPrices, e) /\ e.at = mpWork[w].from /\ e.old = mpWork[w].old
               /\ mpWork[w].at = "price" /\ MpGo(w, MpIdle)
               /\ mpRow' \in MpRows /\ mpRow'.included = mpRow.included
               /\ ~(e.at <= MpNow) => mpRow' = mpRow
               /\ mpBackdated' \in BOOLEAN
               /\ mpBackdated' = FALSE => mpBackdated = FALSE /\ mpWork[w].backdated = FALSE
               /\ mpBackdated' = TRUE => mpBackdated = TRUE \/ mpWork[w].backdated = TRUE
<1>1. PICK r : r = mpWork[w] OBVIOUS
<1>2. r.at = "price" /\ r \in MpWorks BY <1>1 DEF MpWritePrice, MpAt, MpInv, MpTyped
<1>3. r \in [at : {"price"}, old : Nat, new : Nat, from : MpTimes, backdated : BOOLEAN]
    BY <1>2 DEF MpWorks, MpIdle
<1>4. PICK e : e = [at |-> r.from, old |-> r.old, new |-> r.new] OBVIOUS
<1>5. e \in [at : MpTimes, old : Nat, new : Nat] BY <1>3, <1>4
<1>6. /\ mpPrices' = Append(mpPrices, e) /\ MpGo(w, MpIdle)
      /\ mpRow' = (IF r.from <= MpNow THEN [mpRow EXCEPT !.override = r.new, !.configured = TRUE] ELSE mpRow)
      /\ mpBackdated' = (mpBackdated \/ r.backdated)
    BY <1>1, <1>4 DEF MpWritePrice
<1>7. mpRow \in MpRows /\ mpBackdated \in BOOLEAN BY DEF MpInv, MpTyped
<1>8. mpRow' \in MpRows /\ mpRow'.included = mpRow.included BY <1>3, <1>6, <1>7 DEF MpRows
<1>9. ~(e.at <= MpNow) => mpRow' = mpRow BY <1>4, <1>6
<1>10. r.backdated \in BOOLEAN BY <1>3
<1>11. /\ mpBackdated' \in BOOLEAN
       /\ mpBackdated' = FALSE => mpBackdated = FALSE /\ r.backdated = FALSE
       /\ mpBackdated' = TRUE => mpBackdated = TRUE \/ r.backdated = TRUE
    BY <1>6, <1>7, <1>10, Zenon
<1> QED BY <1>1, <1>2, <1>4, <1>5, <1>6, <1>8, <1>9, <1>11

\* A PATCH of the price writes.
LEMMA MpWritePriceStep ==
    ASSUME MpInv, NEW w \in MpWorkers, MpWritePrice(w), NEW b \in Nat, MpBase(b)
    PROVE  MpTyped' /\ MpBase(b)'
<1>1. PICK e \in [at : MpTimes, old : Nat, new : Nat] :
          /\ mpPrices' = Append(mpPrices, e) /\ e.at = mpWork[w].from /\ e.old = mpWork[w].old
          /\ mpWork[w].at = "price" /\ MpGo(w, MpIdle)
          /\ mpRow' \in MpRows /\ mpRow'.included = mpRow.included
          /\ ~(e.at <= MpNow) => mpRow' = mpRow
          /\ mpBackdated' \in BOOLEAN
          /\ mpBackdated' = FALSE => mpBackdated = FALSE /\ mpWork[w].backdated = FALSE
          /\ mpBackdated' = TRUE => mpBackdated = TRUE \/ mpWork[w].backdated = TRUE
    BY MpWritePriceIs
<1>2. UNCHANGED <<mpDay, mpIncluded>> /\ MpTyped BY DEF MpWritePrice, MpInv
<1>3. PICK h, k, n, now : h = mpPrices /\ k = Append(mpPrices, e) /\ n = Len(mpPrices) + 1 /\ now = MpNow OBVIOUS
<1>4. MpHistoryOf(h, Nat) /\ MpHistoryOf(k, Nat) /\ DOMAIN h \subseteq DOMAIN k
      /\ (\A i \in DOMAIN h : k[i] = h[i] /\ i < n) /\ (\A i \in DOMAIN k : i \in DOMAIN h \/ i = n)
      /\ k[n] = e /\ n \in DOMAIN k
    BY <1>2, <1>3, MpAppendIs DEF MpTyped
<1>5. mpPrices' = k /\ MpNow' = now /\ now \in Nat BY <1>1, <1>2, <1>3, MpNowIs DEF MpNow, MpTyped
<1>6. MpIdle \in MpWorks /\ MpIdle.at # "price" BY DEF MpWorks, MpIdle
<1>7. mpWork' \in [MpWorkers -> MpWorks] /\ \A v \in MpWorkers : mpWork'[v] = IF v = w THEN MpIdle ELSE mpWork[v]
    BY <1>1, <1>2, <1>6, MpGoIs
<1>8. MpTyped'
    <2>1. \A v \in MpWorkers : mpWork'[v].at = "price" /\ mpWork'[v].backdated = TRUE => mpWork'[v].from < now
        BY <1>2, <1>3, <1>6, <1>7 DEF MpTyped
    <2>2. \A i \in DOMAIN mpIncluded : mpIncluded[i].at <= now BY <1>2, <1>3 DEF MpTyped
    <2> QED BY <1>1, <1>2, <1>4, <1>5, <1>7, <2>1, <2>2 DEF MpTyped
<1>9. ASSUME MpNoneDue(k, now) PROVE MpRowSays(mpRow', b) /\ mpBackdated' = FALSE
    <2>1. ~(e.at <= now) BY <1>4, <1>9 DEF MpNoneDue
    <2>2. MpNoneDue(h, now) BY <1>4, <1>9 DEF MpNoneDue
    <2>3. MpRowSays(mpRow, b) /\ mpBackdated = FALSE BY <1>3, <2>2 DEF MpBase
    <2>4. mpRow' = mpRow BY <1>1, <1>3, <2>1
    <2>5. mpWork[w].backdated # TRUE
        <3>1. SUFFICES ASSUME mpWork[w].backdated = TRUE PROVE FALSE OBVIOUS
        <3>2. e.at < now BY <1>1, <1>2, <1>3, <3>1 DEF MpTyped
        <3>3. e.at \in 0..(2 * MpLastDay + 2) BY DEF MpTimes
        <3>4. e.at \in Int BY <3>3
        <3> QED BY <1>5, <2>1, <3>2, <3>4
    <2>6. mpBackdated' # TRUE BY <1>1, <2>3, <2>5
    <2>7. mpBackdated' = FALSE BY <1>1, <2>6, Zenon
    <2> QED BY <2>3, <2>4, <2>7
<1>10. ASSUME mpBackdated' = FALSE PROVE MpFirstSays(k, b) /\ \A v \in MpWorkers : MpPatchSays(k, mpWork'[v], b)
    <2>1. mpBackdated = FALSE /\ mpWork[w].backdated = FALSE BY <1>1, <1>10
    <2>2. MpFirstSays(h, b) /\ \A v \in MpWorkers : MpPatchSays(h, mpWork[v], b) BY <1>3, <2>1 DEF MpBase
    <2>3. ASSUME NEW i \in DOMAIN k, MpOpens(k, i) PROVE k[i].old = b
        <3>1. CASE i \in DOMAIN h
            <4>1. MpOpens(h, i) BY <1>4, <2>3, <3>1 DEF MpOpens, MpSooner
            <4> QED BY <1>4, <2>2, <3>1, <4>1 DEF MpFirstSays
        <3>2. CASE i = n
            <4>1. MpAllAfter(h, e.at)
                <5>1. SUFFICES ASSUME NEW j \in DOMAIN h PROVE h[j].at > e.at BY DEF MpAllAfter
                <5>2. MpSooner(k, n, j) /\ j \in DOMAIN k /\ k[j] = h[j] /\ j < n BY <1>4, <2>3, <3>2, <5>1 DEF MpOpens
                <5>3. h[j].at \in Nat /\ e.at \in Nat /\ j \in Nat /\ n \in Nat
                    <6>1. k[n].at \in Nat /\ n \in Nat BY <1>4, MpHistoryIs
                    <6>2. h[j].at \in Nat /\ j \in Nat BY <1>4, MpHistoryIs
                    <6> QED BY <1>4, <6>1, <6>2
                <5> QED BY <1>4, <5>2, <5>3 DEF MpSooner
            <4>2. MpPatchSays(h, mpWork[w], b) BY <2>2
            <4>3. mpWork[w].old = b BY <1>1, <2>1, <4>1, <4>2 DEF MpPatchSays
            <4> QED BY <1>1, <1>4, <3>2, <4>3
        <3> QED BY <1>4, <2>3, <3>1, <3>2
    <2>4. ASSUME NEW v \in MpWorkers PROVE MpPatchSays(k, mpWork'[v], b)
        <3>1. CASE v = w BY <1>6, <1>7, <3>1 DEF MpPatchSays
        <3>2. CASE v # w
            <4>1. MpPatchSays(h, mpWork[v], b) /\ mpWork'[v] = mpWork[v] BY <1>7, <2>2, <3>2
            <4>2. \A t : MpAllAfter(k, t) => MpAllAfter(h, t) BY <1>4 DEF MpAllAfter
            <4> QED BY <4>1, <4>2 DEF MpPatchSays
        <3> QED BY <3>1, <3>2
    <2> QED BY <2>3, <2>4 DEF MpFirstSays
<1>11. MpBase(b)' BY <1>5, <1>9, <1>10 DEF MpBase
<1> QED BY <1>8, <1>11

\* A PATCH of the base fee reads,
LEMMA MpReadIncludedStep ==
    ASSUME MpInv, NEW w \in MpWorkers, NEW included \in BOOLEAN, MpReadIncluded(w, included)
    PROVE  MpInv'
<1>0. MpTyped /\ mpRow \in MpRows BY DEF MpInv, MpTyped
<1>1. PICK s : s = [at |-> "included", old |-> mpRow.included, new |-> included] OBVIOUS
<1>2. s \in MpWorks /\ s.at # "price" BY <1>0, <1>1 DEF MpWorks, MpRows
<1>3. MpGo(w, s) /\ UNCHANGED <<mpDay, mpRow, mpPrices, mpIncluded, mpBackdated>> BY <1>1 DEF MpReadIncluded
<1>4. mpWork' \in [MpWorkers -> MpWorks] /\ \A v \in MpWorkers : mpWork'[v] = IF v = w THEN s ELSE mpWork[v]
    BY <1>0, <1>2, <1>3, MpGoIs
<1>5. MpNow' = MpNow /\ MpNow \in Nat BY <1>0, <1>3, MpNowIs DEF MpNow, MpTyped
<1>6. MpTyped'
    <2>1. \A v \in MpWorkers : mpWork'[v].at = "price" /\ mpWork'[v].backdated = TRUE => mpWork'[v].from < MpNow
        BY <1>0, <1>2, <1>4 DEF MpTyped
    <2> QED BY <1>0, <1>3, <1>4, <1>5, <2>1 DEF MpTyped
<1>7. PICK b \in Nat : MpBase(b) BY DEF MpInv
<1>8. MpBase(b)' BY <1>0, <1>2, <1>3, <1>4, <1>5, <1>6, <1>7, MpBaseStays
<1> QED BY <1>6, <1>7, <1>8 DEF MpInv

\* and writes an entry of its own instant.
LEMMA MpWriteIncludedIs ==
    ASSUME MpTyped, NEW w \in MpWorkers, MpWriteIncluded(w)
    PROVE  \E e \in [at : MpTimes, old : BOOLEAN, new : BOOLEAN] :
               mpIncluded' = Append(mpIncluded, e) /\ e.at = MpNow /\ e.old = mpWork[w].old
<1>1. PICK r : r = mpWork[w] OBVIOUS
<1>2. r.at = "included" /\ r \in MpWorks BY <1>1 DEF MpWriteIncluded, MpAt, MpTyped
<1>3. r.old \in BOOLEAN /\ r.new \in BOOLEAN BY <1>2 DEF MpWorks, MpIdle
<1>4. PICK e : e = [at |-> MpNow, old |-> r.old, new |-> r.new] OBVIOUS
<1>5. MpNow \in MpTimes BY MpNowIs DEF MpTyped
<1>6. e \in [at : MpTimes, old : BOOLEAN, new : BOOLEAN] BY <1>3, <1>4, <1>5
<1>7. mpIncluded' = Append(mpIncluded, e) BY <1>1, <1>4 DEF MpWriteIncluded
<1> QED BY <1>1, <1>4, <1>6, <1>7

\* So it writes.
LEMMA MpWriteIncludedStep ==
    ASSUME MpInv, NEW w \in MpWorkers, MpWriteIncluded(w)
    PROVE  MpInv'
<1>0. MpTyped /\ mpRow \in MpRows /\ mpWork[w] \in MpWorks BY DEF MpInv, MpTyped
<1>1. PICK e \in [at : MpTimes, old : BOOLEAN, new : BOOLEAN] : mpIncluded' = Append(mpIncluded, e) /\ e.at = MpNow
    BY <1>0, MpWriteIncludedIs
<1>2. MpGo(w, MpIdle) /\ UNCHANGED <<mpDay, mpPrices, mpBackdated>>
      /\ mpRow' = [mpRow EXCEPT !.included = mpWork[w].new, !.configured = TRUE]
    BY DEF MpWriteIncluded
<1>3. mpRow' \in MpRows /\ mpRow'.override = mpRow.override
    <2>1. PICK r : r = mpWork[w] OBVIOUS
    <2>2. r.at = "included" /\ r \in MpWorks BY <1>0, <2>1 DEF MpWriteIncluded, MpAt
    <2>3. r.new \in BOOLEAN BY <2>2 DEF MpWorks, MpIdle
    <2> QED BY <1>0, <1>2, <2>1, <2>3 DEF MpRows
<1>4. MpIdle \in MpWorks /\ MpIdle.at # "price" BY DEF MpWorks, MpIdle
<1>5. mpWork' \in [MpWorkers -> MpWorks] /\ \A v \in MpWorkers : mpWork'[v] = IF v = w THEN MpIdle ELSE mpWork[v]
    BY <1>0, <1>2, <1>4, MpGoIs
<1>6. MpNow' = MpNow /\ MpNow \in Nat BY <1>0, <1>2, MpNowIs DEF MpNow, MpTyped
<1>7. MpTyped'
    <2>1. PICK h, k, n : h = mpIncluded /\ k = Append(mpIncluded, e) /\ n = Len(mpIncluded) + 1 OBVIOUS
    <2>2. MpHistoryOf(h, BOOLEAN) BY <1>0, <2>1 DEF MpTyped
    <2>3. MpHistoryOf(k, BOOLEAN) /\ (\A i \in DOMAIN h : k[i] = h[i])
          /\ (\A i \in DOMAIN k : i \in DOMAIN h \/ i = n) /\ k[n] = e
        BY <2>1, <2>2, MpAppendIs
    <2>4. \A i \in DOMAIN k : k[i].at <= MpNow BY <1>0, <1>1, <1>6, <2>1, <2>3 DEF MpTyped
    <2>5. \A v \in MpWorkers : mpWork'[v].at = "price" /\ mpWork'[v].backdated = TRUE => mpWork'[v].from < MpNow
        BY <1>0, <1>4, <1>5 DEF MpTyped
    <2> QED BY <1>0, <1>1, <1>2, <1>3, <1>5, <1>6, <2>1, <2>3, <2>4, <2>5 DEF MpTyped
<1>8. PICK b \in Nat : MpBase(b) BY DEF MpInv
<1>9. MpBase(b)' BY <1>0, <1>2, <1>3, <1>4, <1>5, <1>6, <1>7, <1>8, MpBaseStays
<1> QED BY <1>7, <1>8, <1>9 DEF MpInv

\* The invariant is inductive.
LEMMA MpInvStep == MpInv /\ [MpNext]_mpVars => MpInv'
<1>1. SUFFICES ASSUME MpInv, [MpNext]_mpVars PROVE MpInv' OBVIOUS
<1>2. CASE MpTomorrow \/ MpConfigure \/ MpPlan \/ UNCHANGED mpVars BY <1>1, <1>2, MpRowStep
<1>3. ASSUME NEW w \in MpWorkers, NEW included \in BOOLEAN, MpReadIncluded(w, included) PROVE MpInv'
    BY <1>1, <1>3, MpReadIncludedStep
<1>4. ASSUME NEW w \in MpWorkers, MpWriteIncluded(w) PROVE MpInv' BY <1>1, <1>4, MpWriteIncludedStep
<1>5. ASSUME NEW w \in MpWorkers, NEW price \in MpPrices, NEW from \in MpTimes, MpReadPrice(w, price, from) PROVE MpInv'
    BY <1>1, <1>5, MpReadPriceStep
<1>6. ASSUME NEW w \in MpWorkers, MpWritePrice(w) PROVE MpInv'
    <2>1. PICK b \in Nat : MpBase(b) BY <1>1 DEF MpInv
    <2>2. MpTyped' /\ MpBase(b)' BY <1>1, <1>6, <2>1, MpWritePriceStep
    <2> QED BY <2>1, <2>2 DEF MpInv
<1> QED BY <1>1, <1>2, <1>3, <1>4, <1>5, <1>6 DEF MpNext

\* What a history answers for an instant.
LEMMA MpAsOfIs ==
    ASSUME NEW V, NEW h, MpHistoryOf(h, V), NEW t \in Int, NEW otherwise
    PROVE  /\ DOMAIN h = {} => MpAsOf(h, t, otherwise) = otherwise
           /\ MpNoneDue(h, t) /\ DOMAIN h # {} => \E f : MpOpens(h, f) /\ MpAsOf(h, t, otherwise) = h[f].old
           /\ ~MpNoneDue(h, t) => MpLast(h, t) # 0 /\ MpAsOf(h, t, otherwise) = h[MpLast(h, t)].new
           /\ MpNoneDue(h, t) => MpLast(h, t) = 0
<1>1. PICK l, f : l = MpLast(h, t) /\ f = MpFirst(h, t) OBVIOUS
<1>2. ASSUME MpNoneDue(h, t) PROVE l = 0 BY <1>1, <1>2, MpLastIs DEF MpNoneDue
<1>3. ASSUME ~MpNoneDue(h, t) PROVE l # 0
    <2>1. MpIsLast(h, t, l) BY <1>1, <1>3, MpLastIs DEF MpNoneDue
    <2> QED BY <1>1, <2>1, MpOnlyOne
<1>4. ASSUME DOMAIN h = {} PROVE MpAsOf(h, t, otherwise) = otherwise
    <2>1. l = 0 BY <1>2, <1>4 DEF MpNoneDue
    <2>2. f = 0 BY <1>1, <1>4, MpFirstIs
    <2> QED BY <1>1, <2>1, <2>2 DEF MpAsOf
<1>5. ASSUME MpNoneDue(h, t), DOMAIN h # {} PROVE MpOpens(h, f) /\ MpAsOf(h, t, otherwise) = h[f].old
    <2>1. \A i \in DOMAIN h : h[i].at > t
        <3>1. SUFFICES ASSUME NEW i \in DOMAIN h PROVE h[i].at > t OBVIOUS
        <3>2. h[i].at \in Nat BY MpHistoryIs
        <3>3. ~(h[i].at <= t) BY <1>5 DEF MpNoneDue
        <3> QED BY <3>2, <3>3
    <2>2. MpIsFirst(h, t, f) BY <1>1, <1>5, <2>1, MpFirstIs
    <2>3. f # 0 BY <1>1, <2>2, MpOnlyOne
    <2>4. MpOpens(h, f) BY <2>1, <2>2 DEF MpIsFirst, MpOpens
    <2>5. l = 0 BY <1>2, <1>5
    <2> QED BY <1>1, <2>3, <2>4, <2>5 DEF MpAsOf
<1>6. ASSUME ~MpNoneDue(h, t) PROVE MpAsOf(h, t, otherwise) = h[l].new
    <2>1. l # 0 BY <1>3, <1>6
    <2> QED BY <1>1, <2>1 DEF MpAsOf
<1> QED BY <1>1, <1>2, <1>3, <1>4, <1>5, <1>6

\* The three queries agree.
LEMMA MpAgrees == MpInv => MpListIsQuote
<1>1. SUFFICES ASSUME MpInv, ~mpRow.included, MpReady(MpNow)
               PROVE  MpEffective(MpDefault) = MpPriceAt(MpNow) /\ MpEffective(0) = MpPriceAt(MpNow)
    BY DEF MpListIsQuote, MpListed, MpFee, MpReady
<1>2. PICK h, t, row : h = mpPrices /\ t = MpNow /\ row = mpRow OBVIOUS
<1>3. MpTyped /\ MpHistoryOf(h, Nat) /\ t \in Int /\ MpDefault \in Nat /\ 0 \in Nat
    BY <1>1, <1>2, MpNowIs, MpAssumption DEF MpInv, MpTyped, MpAssumption
<1>4. MpPriceAt(MpNow) = MpAsOf(h, t, MpOverride) BY <1>2 DEF MpPriceAt
<1>5. row.override # MpNone \/ MpLast(h, t) # 0 BY <1>1, <1>2 DEF MpReady
<1>6. CASE MpNoneDue(h, t)
    <2>1. row.override # MpNone BY <1>3, <1>5, <1>6, MpAsOfIs
    <2>2. MpEffective(MpDefault) = row.override /\ MpEffective(0) = row.override
        BY <1>2, <1>3, <1>6, <2>1, MpEffectiveIs
    <2>3. PICK b \in Nat : MpBase(b) BY <1>1 DEF MpInv
    <2>4. b = row.override /\ MpFirstSays(h, b) BY <1>2, <1>6, <2>1, <2>3 DEF MpBase, MpRowSays
    <2>5. CASE DOMAIN h = {}
        <3>1. MpAsOf(h, t, MpOverride) = MpOverride BY <1>3, <2>5, MpAsOfIs
        <3>2. MpOverride = row.override BY <1>2, <2>1 DEF MpOverride
        <3> QED BY <1>4, <2>2, <3>1, <3>2
    <2>6. CASE DOMAIN h # {}
        <3>1. PICK f : MpOpens(h, f) /\ MpAsOf(h, t, MpOverride) = h[f].old BY <1>3, <1>6, <2>6, MpAsOfIs
        <3>2. h[f].old = b BY <2>4, <3>1 DEF MpFirstSays, MpOpens
        <3> QED BY <1>4, <2>2, <2>4, <3>1, <3>2
    <2> QED BY <2>5, <2>6
<1>7. CASE ~MpNoneDue(h, t)
    <2>1. MpEffective(MpDefault) = h[MpLast(h, t)].new /\ MpEffective(0) = h[MpLast(h, t)].new
        BY <1>2, <1>3, <1>7, MpEffectiveIs
    <2>2. MpAsOf(h, t, MpOverride) = h[MpLast(h, t)].new BY <1>3, <1>7, MpAsOfIs
    <2> QED BY <1>4, <2>1, <2>2
<1> QED BY <1>6, <1>7

\* What can be billed has a price from then on.
LEMMA MpStaysBillable == MpInv => MpBillableIsQuotable
<1>1. SUFFICES ASSUME MpInv, MpReady(MpNow), NEW t \in MpMidnights, t > MpNow PROVE MpReady(t)
    BY DEF MpBillableIsQuotable, MpBillable
<1>2. PICK h, n : h = mpPrices /\ n = MpNow OBVIOUS
<1>3. MpHistoryOf(h, Nat) /\ n \in Nat BY <1>1, <1>2, MpNowIs DEF MpInv, MpTyped
<1>4. t \in Nat
    <2>1. PICK d \in 0..(MpLastDay + 1) : t = 2 * d BY DEF MpMidnights
    <2> QED BY <2>1, MpAssumption DEF MpAssumption
<1>5. MpLast(h, n) # 0 => MpLast(h, t) # 0
    <2>1. SUFFICES ASSUME MpLast(h, n) # 0 PROVE MpLast(h, t) # 0 OBVIOUS
    <2>2. ~MpNoneDue(h, n) BY <1>3, <2>1, MpLastIs DEF MpNoneDue
    <2>3. ~MpNoneDue(h, t) BY <1>1, <1>2, <1>3, <1>4, <2>2, MpDueStays
    <2>4. MpIsLast(h, t, MpLast(h, t)) BY <1>3, <2>3, MpLastIs DEF MpNoneDue
    <2> QED BY <1>3, <2>4, MpOnlyOne
<1> QED BY <1>1, <1>2, <1>5 DEF MpReady

\* There is one first entry.
LEMMA MpOneOpens ==
    ASSUME NEW V, NEW h, MpHistoryOf(h, V), NEW i, NEW j, MpOpens(h, i), MpOpens(h, j)
    PROVE  i = j
<1>1. i \in DOMAIN h /\ j \in DOMAIN h /\ MpSooner(h, i, j) /\ MpSooner(h, j, i) BY DEF MpOpens
<1>2. h[i].at \in Nat /\ h[j].at \in Nat /\ i \in Nat /\ j \in Nat BY <1>1, MpHistoryIs
<1> QED BY <1>1, <1>2 DEF MpSooner

\* A price set from an instant leaves what was charged before it,
LEMMA MpPriceKeeps ==
    ASSUME MpInv, NEW w \in MpWorkers, MpWritePrice(w), ~mpBackdated', NEW t \in Int, t < mpWork[w].from, MpReady(t), MpKnown(t)
    PROVE  MpCharge(t)' = MpCharge(t)
<1>1. PICK e \in [at : MpTimes, old : Nat, new : Nat] :
          /\ mpPrices' = Append(mpPrices, e) /\ e.at = mpWork[w].from
          /\ mpRow'.included = mpRow.included
          /\ mpBackdated' \in BOOLEAN
          /\ mpBackdated' = FALSE => mpBackdated = FALSE /\ mpWork[w].backdated = FALSE
    BY MpWritePriceIs
<1>2. mpBackdated' = FALSE BY <1>1, Zenon
<1>3. PICK h, k, n : h = mpPrices /\ k = Append(mpPrices, e) /\ n = Len(mpPrices) + 1 OBVIOUS
<1>4. MpHistoryOf(h, Nat) BY <1>3 DEF MpInv, MpTyped
<1>5. MpHistoryOf(k, Nat) /\ (\A i \in DOMAIN h : k[i] = h[i]) /\ (\A i \in DOMAIN k : i \in DOMAIN h \/ i = n)
      /\ k[n] = e /\ n \in DOMAIN k
    BY <1>3, <1>4, MpAppendIs
<1>6. MpIncludedAt(t)' = MpIncludedAt(t)
    <2>1. mpIncluded' = mpIncluded BY DEF MpWritePrice
    <2> QED BY <1>1, <2>1 DEF MpIncludedAt
<1>7. SUFFICES ASSUME ~MpIncludedAt(t) PROVE MpPriceAt(t)' = MpPriceAt(t) BY <1>6 DEF MpCharge
<1>8. PICK o, p : o = MpOverride /\ p = MpOverride' OBVIOUS
<1>9. MpPriceAt(t) = MpAsOf(h, t, o) /\ MpPriceAt(t)' = MpAsOf(k, t, p) BY <1>1, <1>3, <1>8 DEF MpPriceAt
<1>10. CASE ~MpNoneDue(h, t)
    <2>1. MpLast(h, t) # 0 /\ MpAsOf(h, t, o) = h[MpLast(h, t)].new BY <1>4, <1>10, MpAsOfIs
    <2>2. MpLast(k, t) = MpLast(h, t) /\ k[MpLast(h, t)] = h[MpLast(h, t)]
        <3>1. t < e.at /\ k = Append(h, e) BY <1>1, <1>3
        <3>2. MpLast(Append(h, e), t) = MpLast(h, t)
              /\ (MpLast(h, t) # 0 => Append(h, e)[MpLast(h, t)] = h[MpLast(h, t)])
            BY <1>4, <3>1, MpAddedAhead
        <3> QED BY <2>1, <3>1, <3>2
    <2>3. ~MpNoneDue(k, t) BY <1>5, <2>1, <2>2, MpAsOfIs
    <2>4. MpAsOf(k, t, p) = k[MpLast(k, t)].new BY <1>5, <2>3, MpAsOfIs
    <2> QED BY <1>9, <2>1, <2>2, <2>4
<1>11. CASE MpNoneDue(h, t)
    <2>1. PICK b \in Nat : MpBase(b) BY DEF MpInv
    <2>2. MpBase(b)' BY <2>1, MpWritePriceStep
    <2>3. MpFirstSays(h, b) BY <1>1, <1>2, <1>3, <2>1 DEF MpBase
    <2>4. MpFirstSays(k, b) BY <1>1, <1>2, <1>3, <2>2 DEF MpBase
    <2>5. MpNoneDue(k, t)
        <3>1. ~(e.at <= t)
            <4>1. e.at \in 0..(2 * MpLastDay + 2) BY DEF MpTimes
            <4>2. e.at \in Int BY <4>1
            <4> QED BY <1>1, <4>2
        <3> QED BY <1>5, <1>11, <3>1 DEF MpNoneDue
    <2>6. PICK f : MpOpens(k, f) /\ MpAsOf(k, t, p) = k[f].old BY <1>5, <2>5, MpAsOfIs
    <2>7. MpAsOf(k, t, p) = b BY <2>4, <2>6 DEF MpFirstSays, MpOpens
    <2>8. CASE DOMAIN h # {}
        <3>1. PICK g : MpOpens(h, g) /\ MpAsOf(h, t, o) = h[g].old BY <1>4, <1>11, <2>8, MpAsOfIs
        <3>2. MpAsOf(h, t, o) = b BY <2>3, <3>1 DEF MpFirstSays, MpOpens
        <3> QED BY <1>9, <2>7, <3>2
    <2>9. CASE DOMAIN h = {}
        <3>1. MpAsOf(h, t, o) = o BY <1>4, <2>9, MpAsOfIs
        <3>2. h = <<>>
            <4>1. PICK E : E = [at : MpTimes, old : Nat, new : Nat] OBVIOUS
            <4>2. h \in Seq(E) BY <1>4, <4>1 DEF MpHistoryOf
            <4> QED BY <2>9, <4>2
        <3>3. mpRow.override # MpNone BY <1>3, <1>7, <3>2 DEF MpKnown
        <3>4. MpNoneDue(h, MpNow) BY <2>9 DEF MpNoneDue
        <3>5. b = mpRow.override BY <1>3, <2>1, <3>3, <3>4 DEF MpBase, MpRowSays
        <3>6. o = mpRow.override BY <1>8, <3>3 DEF MpOverride
        <3> QED BY <1>9, <2>7, <3>1, <3>5, <3>6
    <2> QED BY <2>8, <2>9
<1> QED BY <1>10, <1>11

\* and so does an inclusion.
LEMMA MpInclusionKeeps ==
    ASSUME MpInv, NEW w \in MpWorkers, MpWriteIncluded(w), mpWork[w].old = mpRow.included, NEW t \in Int, t < MpNow
    PROVE  MpCharge(t)' = MpCharge(t)
<1>0. MpTyped BY DEF MpInv
<1>1. PICK e \in [at : MpTimes, old : BOOLEAN, new : BOOLEAN] :
          mpIncluded' = Append(mpIncluded, e) /\ e.at = MpNow /\ e.old = mpWork[w].old
    BY <1>0, MpWriteIncludedIs
<1>2. mpPrices' = mpPrices /\ mpRow'.override = mpRow.override
    <2>1. mpRow \in MpRows BY <1>0 DEF MpTyped
    <2>2. mpRow' = [mpRow EXCEPT !.included = mpWork[w].new, !.configured = TRUE] BY DEF MpWriteIncluded
    <2> QED BY <2>1, <2>2 DEF MpWriteIncluded, MpRows
<1>3. MpPriceAt(t)' = MpPriceAt(t) BY <1>2 DEF MpPriceAt, MpOverride
<1>4. SUFFICES MpIncludedAt(t)' = MpIncludedAt(t) BY <1>3 DEF MpCharge
<1>5. PICK h, k, n, now : h = mpIncluded /\ k = Append(mpIncluded, e) /\ n = Len(mpIncluded) + 1 /\ now = MpNow OBVIOUS
<1>6. MpHistoryOf(h, BOOLEAN) BY <1>0, <1>5 DEF MpTyped
<1>7. MpHistoryOf(k, BOOLEAN) /\ DOMAIN h \subseteq DOMAIN k /\ (\A i \in DOMAIN h : k[i] = h[i] /\ i < n)
      /\ (\A i \in DOMAIN k : i \in DOMAIN h \/ i = n) /\ k[n] = e /\ n \in DOMAIN k
    BY <1>5, <1>6, MpAppendIs
<1>8. PICK o, p : o = mpRow.included /\ p = mpRow'.included OBVIOUS
<1>9. MpIncludedAt(t) = MpAsOf(h, t, o) /\ MpIncludedAt(t)' = MpAsOf(k, t, p) BY <1>1, <1>5, <1>8 DEF MpIncludedAt
<1>10. now \in Nat /\ t < now BY <1>0, <1>5, MpNowIs DEF MpTyped
<1>11. CASE ~MpNoneDue(h, t)
    <2>1. MpLast(h, t) # 0 /\ MpAsOf(h, t, o) = h[MpLast(h, t)].new BY <1>6, <1>11, MpAsOfIs
    <2>2. MpLast(k, t) = MpLast(h, t) /\ k[MpLast(h, t)] = h[MpLast(h, t)]
        <3>1. t < e.at /\ k = Append(h, e) BY <1>1, <1>5
        <3>2. PICK B : B = BOOLEAN OBVIOUS
        <3>3. MpHistoryOf(h, B) /\ e \in [at : MpTimes, old : B, new : B] BY <1>6, <3>2
        <3>4. MpLast(Append(h, e), t) = MpLast(h, t) BY <3>1, <3>3, MpAddedAhead
        <3>5. MpIsLast(h, t, MpLast(h, t)) BY <1>6, <1>11, MpLastIs DEF MpNoneDue
        <3> QED BY <1>7, <3>1, <3>4, <3>5 DEF MpIsLast
    <2>3. ~MpNoneDue(k, t) BY <1>7, <2>1, <2>2, MpAsOfIs
    <2>4. MpAsOf(k, t, p) = k[MpLast(k, t)].new BY <1>7, <2>3, MpAsOfIs
    <2> QED BY <1>9, <2>1, <2>2, <2>4
<1>12. CASE MpNoneDue(h, t)
    <2>1. MpNoneDue(k, t) BY <1>1, <1>5, <1>7, <1>10, <1>12 DEF MpNoneDue
    <2>2. PICK f : MpOpens(k, f) /\ MpAsOf(k, t, p) = k[f].old BY <1>7, <2>1, MpAsOfIs
    <2>3. CASE DOMAIN h = {}
        <3>1. f = n BY <1>7, <2>2, <2>3 DEF MpOpens
        <3>2. MpAsOf(k, t, p) = o BY <1>1, <1>7, <1>8, <2>2, <3>1
        <3>3. MpAsOf(h, t, o) = o BY <1>6, <2>3, MpAsOfIs
        <3> QED BY <1>9, <3>2, <3>3
    <2>4. CASE DOMAIN h # {}
        <3>1. PICK g : MpOpens(h, g) /\ MpAsOf(h, t, o) = h[g].old BY <1>6, <1>12, <2>4, MpAsOfIs
        <3>2. g \in DOMAIN h /\ k[g] = h[g] /\ g < n /\ g \in DOMAIN k BY <1>7, <3>1 DEF MpOpens
        <3>3. f \in DOMAIN h
            <4>1. SUFFICES ASSUME f = n PROVE FALSE BY <1>7, <2>2 DEF MpOpens
            <4>2. MpSooner(k, n, g) BY <2>2, <3>2, <4>1 DEF MpOpens
            <4>3. h[g].at <= now BY <1>0, <1>5, <3>2 DEF MpTyped
            <4>4. h[g].at \in Nat /\ g \in Nat BY <1>6, <3>2, MpHistoryIs
            <4>5. n \in Nat BY <1>7, MpHistoryIs
            <4> QED BY <1>1, <1>5, <1>7, <1>10, <3>2, <4>2, <4>3, <4>4, <4>5 DEF MpSooner
        <3>4. MpOpens(h, f) BY <1>7, <2>2, <3>3 DEF MpOpens, MpSooner
        <3>5. f = g BY <1>6, <3>1, <3>4, MpOneOpens
        <3> QED BY <1>9, <2>2, <3>1, <3>2, <3>5
    <2> QED BY <2>3, <2>4
<1> QED BY <1>11, <1>12

\* Together: what was charged before is kept.
LEMMA MpEarlierStays == MpInv => MpEarlierIsKept
<1>1. SUFFICES ASSUME MpInv, NEW w \in MpWorkers, NEW t \in MpMidnights, ~mpBackdated'
               PROVE  /\ MpWritePrice(w) /\ t < mpWork[w].from => MpKept(t)
                      /\ MpWriteIncluded(w) /\ mpWork[w].old = mpRow.included /\ t < MpNow => MpKept(t)
    BY DEF MpEarlierIsKept
<1>2. t \in Int
    <2>1. PICK d \in 0..(MpLastDay + 1) : t = 2 * d BY DEF MpMidnights
    <2> QED BY <2>1
<1> QED BY <1>1, <1>2, MpPriceKeeps, MpInclusionKeeps DEF MpKept

\* The prices of a module: the list, the portfolio and the quote agree, what can be billed has
\* a price for every period to come, and a PATCH changes nothing of what was charged before
\* its own instant, whatever other PATCHes did between its read and its write: for any prices,
\* any number of PATCHes and any number of days.
THEOREM ModulePricesAreKept == MpSpec => ModulePricesSafe
<1>1. MpInv => MpListIsQuote /\ MpBillableIsQuotable BY MpAgrees, MpStaysBillable
<1> QED BY <1>1, MpInvInit, MpInvStep, MpEarlierStays, PTL DEF MpSpec, ModulePricesSafe

-------------------------------------------------------------------------------
(* All of them, as MCCommerce composes them. *)

\* An invoice that is not being calculated is not refused.
CommerceInv == ImInv /\ PpInv /\ MpInv /\ (subject # "math" => imStatus = "CALCULATED")

\* Every step of the composition is one of each component, or none.
LEMMA CommerceInvStep == CommerceInv /\ [CommerceNext]_commerceVars => CommerceInv'
<1>1. SUFFICES ASSUME CommerceInv, [CommerceNext]_commerceVars PROVE CommerceInv' OBVIOUS
<1>2. [ImNext]_imVars /\ [PpNext]_ppVars /\ [MpNext]_mpVars BY <1>1 DEF CommerceNext, commerceVars
<1>3. ImInv' BY <1>1, <1>2, ImAssumption, ImInvStep DEF CommerceInv
<1>4. PpInv' BY <1>1, <1>2, PpInvStep DEF CommerceInv
<1>5. MpInv' BY <1>1, <1>2, MpInvStep DEF CommerceInv
<1>6. subject' # "math" => imStatus' = "CALCULATED"
    BY <1>1 DEF CommerceInv, CommerceNext, commerceVars, imVars
<1> QED BY <1>3, <1>4, <1>5, <1>6 DEF CommerceInv

\* No step takes back what was agreed or adds what is not due.
LEMMA CommerceStepIsSafe ==
    CommerceInv /\ [CommerceNext]_commerceVars
    => [PpReadStays /\ MpEarlierIsKept /\ ImLineIsExact /\ ImRefusalIsDue]_commerceVars
<1>1. SUFFICES ASSUME CommerceInv, CommerceNext
               PROVE  PpReadStays /\ MpEarlierIsKept /\ ImLineIsExact /\ ImRefusalIsDue
    OBVIOUS
<1>2. PpReadStays
    <2>1. CASE PpNext /\ ppVars' # ppVars BY <1>1, <2>1, PpStepKeepsRead DEF CommerceInv
    <2>2. CASE ppVars' = ppVars
        <3>1. ppLedger' = ppLedger BY <2>2 DEF ppVars
        <3>2. ASSUME NEW d PROVE PpPrice(d)' = PpPrice(d) BY <3>1 DEF PpPrice, PpEntry, PpAfter
        <3> QED BY <3>2 DEF PpReadStays, PpStays
    <2> QED BY <1>1, <2>1, <2>2 DEF CommerceNext
<1>3. MpEarlierIsKept BY <1>1, MpEarlierStays DEF CommerceInv
<1>4. ImLineIsExact /\ ImRefusalIsDue
    <2>1. CASE ImNext BY <1>1, <2>1, ImAssumption, ImStepIsExact, ImStepRefusesDuly DEF CommerceInv
    <2>2. CASE subject # "math" /\ imVars' = imVars
        <3>1. imStatus' = "CALCULATED" /\ imLines' = imLines BY <1>1, <2>2 DEF CommerceInv, imVars
        <3>2. imLines \in Nat BY <1>1 DEF CommerceInv, ImInv
        <3>3. ImLineIsExact BY <3>1, <3>2 DEF ImLineIsExact
        <3>4. ImRefusalIsDue BY <3>1 DEF ImRefusalIsDue
        <3> QED BY <3>3, <3>4
    <2> QED BY <1>1, <2>1, <2>2 DEF CommerceNext
<1> QED BY <1>2, <1>3, <1>4

\* What is quoted and shown is what was agreed, in the plans and in the modules, and an invoice
\* adds up: for every value of the constants.
THEOREM AmountsAreKept == CommerceSpec => AmountsSafe
<1>1. CommerceInit => CommerceInv
    <2>1. SUFFICES ASSUME CommerceInit PROVE CommerceInv OBVIOUS
    <2>2. ImInit /\ PpInit /\ MpInit BY <2>1 DEF CommerceInit
    <2>3. ImInv BY <2>2, ImAssumption, ImInvInit
    <2>4. PpInv BY <2>2, PpInvInit
    <2>5. MpInv BY <2>2, MpInvInit
    <2> QED BY <2>2, <2>3, <2>4, <2>5 DEF CommerceInv, ImInit
<1>2. CommerceInv => PpRaisedOnce /\ MpListIsQuote /\ MpBillableIsQuotable /\ ImAddsUp
    <2>1. ImInv => ImAddsUp BY ImAssumption DEF ImInv, ImSums, ImAddsUp
    <2> QED BY <2>1, PpInvRaisedOnce, MpAgrees, MpStaysBillable DEF CommerceInv
<1> QED BY <1>1, <1>2, CommerceInvStep, CommerceStepIsSafe, PTL DEF CommerceSpec, AmountsSafe
=============================================================================
