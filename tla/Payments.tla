------------------------------- MODULE Payments -------------------------------
(***************************************************************************)
(* Charges and provider webhooks of services/cmd/payments/main.go.         *)
(*                                                                         *)
(* createCharge persists an attempt under the caller's idempotency key,    *)
(* asks the provider, and writes the provider's first answer into the      *)
(* attempt.  The provider later reports the outcome by signed webhooks,    *)
(* which it repeats until they are answered 2xx; stripeWebhook writes the  *)
(* outcome into the same attempt, has Billing settle it and only then      *)
(* marks the event PROCESSED.  No handler holds a transaction across two   *)
(* statements, so each statement and each remote call is a step of its     *)
(* own, and a handler may die between any two.                             *)
(*                                                                         *)
(* Refused requests that change nothing (validation, profile not ready,    *)
(* bad signature, amount mismatch, unknown attempt) are left out; so is    *)
(* the payment profile, which no statement modelled here reads back.       *)
(***************************************************************************)
EXTENDS Naturals, FiniteSets

CONSTANTS
    ChargeKeys,  \* idempotency keys of charges
    Chargers,    \* createCharge handlers
    Hooks        \* stripeWebhook handlers

VARIABLES
    attempt,     \* payments.attempts: status by idempotency key
    intent,      \* the provider's stored answer to the first request of a key
    emitted,     \* events the provider has issued and will go on delivering
    inbox,       \* payments.webhook_events: status by event
    settled,     \* billing.payment_settlements
    charge,      \* createCharge handlers in progress
    hook         \* stripeWebhook handlers in progress

payVars == <<attempt, intent, emitted, inbox, settled, charge, hook>>

Outcomes == {"SUCCEEDED", "FAILED"}
Events   == ChargeKeys \X Outcomes          \* payment_intent.succeeded, .payment_failed

Statuses == {"ABSENT", "PENDING", "RETRYABLE", "PROCESSING", "REQUIRES_ACTION"}
                \cup Outcomes

\* What the provider answers a confirmed off-session intent with; "declined"
\* is an HTTP error, which the provider replays under the same key as well.
Answers == {"processing", "requires_action", "canceled", "declined"}

IdleCharge == [pc |-> "idle"]
IdleHook   == [pc |-> "idle"]

ChargeStates ==
    {IdleCharge}
        \cup [pc : {"insert", "provider", "failed"}, key : ChargeKeys]
        \cup [pc : {"update"}, key : ChargeKeys, answer : Answers \ {"declined"}]

HookStates == {IdleHook} \cup [pc : {"apply", "settle", "finish"}, event : Events]

\* Every table and every handler holds what its column or code allows.
PayTypeOK ==
    /\ attempt \in [ChargeKeys -> Statuses]
    /\ intent \in [ChargeKeys -> Answers \cup {"none"}]
    /\ emitted \subseteq Events
    /\ inbox \in [Events -> {"NONE", "RECEIVED", "PROCESSED"}]
    /\ settled \subseteq Events
    /\ charge \in [Chargers -> ChargeStates]
    /\ hook \in [Hooks -> HookStates]

PayInit ==
    /\ attempt = [k \in ChargeKeys |-> "ABSENT"]
    /\ intent = [k \in ChargeKeys |-> "none"]
    /\ emitted = {}
    /\ inbox = [e \in Events |-> "NONE"]
    /\ settled = {}
    /\ charge = [c \in Chargers |-> IdleCharge]
    /\ hook = [h \in Hooks |-> IdleHook]

-----------------------------------------------------------------------------
(* createCharge *)

Goto(c, s) == charge' = [charge EXCEPT ![c] = s]

\* attemptByIdempotency: an attempt that exists is answered as it is, unless
\* it is RETRYABLE.
ReadAttempt(c, k) ==
    /\ charge[c] = IdleCharge
    /\ attempt[k] \in {"ABSENT", "RETRYABLE"}
    /\ Goto(c, [pc |-> IF attempt[k] = "ABSENT" THEN "insert" ELSE "provider",
                key |-> k])
    /\ UNCHANGED <<attempt, intent, emitted, inbox, settled, hook>>

\* Mutation of InsertAttempt: the provider is asked before the row exists.
InsertNothing(c) ==
    /\ charge[c].pc = "insert"
    /\ Goto(c, [pc |-> "provider", key |-> charge[c].key])
    /\ UNCHANGED <<attempt, intent, emitted, inbox, settled, hook>>

\* INSERT ... ON CONFLICT DO NOTHING: the loser of a race goes on to the
\* provider all the same.
InsertAttempt(c) ==
    /\ charge[c].pc = "insert"
    /\ LET k == charge[c].key
       IN /\ attempt' = [attempt EXCEPT ![k] = IF @ = "ABSENT" THEN "PENDING" ELSE @]
          /\ Goto(c, [pc |-> "provider", key |-> k])
    /\ UNCHANGED <<intent, emitted, inbox, settled, hook>>

\* The provider decides once per idempotency key and repeats its answer.
ProviderDecides(k, a) ==
    /\ intent[k] \in {"none", a}
    /\ intent' = [intent EXCEPT ![k] = a]

\* providerCharge returns the answer.
ProviderAnswers(c) ==
    /\ charge[c].pc = "provider"
    /\ \E a \in Answers :
          /\ ProviderDecides(charge[c].key, a)
          /\ Goto(c, IF a = "declined"
                     THEN [pc |-> "failed", key |-> charge[c].key]
                     ELSE [pc |-> "update", key |-> charge[c].key, answer |-> a])
    /\ UNCHANGED <<attempt, emitted, inbox, settled, hook>>

\* providerCharge fails on the way there, or on the way back.
ProviderLost(c) ==
    /\ charge[c].pc = "provider"
    /\ Goto(c, [pc |-> "failed", key |-> charge[c].key])
    /\ \/ UNCHANGED intent
       \/ \E a \in Answers : ProviderDecides(charge[c].key, a)
    /\ UNCHANGED <<attempt, emitted, inbox, settled, hook>>

\* Mutation of ChargeStatus: an accepted intent counts as paid.
ChargeStatusPaid(a) ==
    CASE a = "requires_action" -> "REQUIRES_ACTION"
      [] a = "canceled"        -> "FAILED"
      [] OTHER                 -> "SUCCEEDED"

\* The status the provider's answer is stored as.
ChargeStatus(a) ==
    CASE a = "requires_action" -> "REQUIRES_ACTION"
      [] a = "canceled"        -> "FAILED"
      [] OTHER                 -> "PROCESSING"

\* UPDATE payments.attempts ... WHERE id: whatever the row holds by now.
StoreAnswer(c) ==
    /\ charge[c].pc \in {"update", "failed"}
    /\ attempt' = [attempt EXCEPT ![charge[c].key] =
                     IF charge[c].pc = "failed" THEN "RETRYABLE"
                     ELSE ChargeStatus(charge[c].answer)]
    /\ Goto(c, IdleCharge)
    /\ UNCHANGED <<intent, emitted, inbox, settled, hook>>

\* The process dies, or its caller's context ends, between two statements.
ChargeDies(c) ==
    /\ charge[c] # IdleCharge
    /\ Goto(c, IdleCharge)
    /\ UNCHANGED <<attempt, intent, emitted, inbox, settled, hook>>

-----------------------------------------------------------------------------
(* The provider and stripeWebhook *)

\* An intent may fail, and succeeds at most once, after which it issues nothing
\* more; what was issued earlier may still be delivered.  Failures of one
\* intent are one event here.
Emit(k, o) ==
    /\ intent[k] # "none"
    /\ <<k, "SUCCEEDED">> \notin emitted
    /\ o = "SUCCEEDED" => intent[k] # "canceled"
    /\ emitted' = emitted \cup {<<k, o>>}
    /\ UNCHANGED <<attempt, intent, inbox, settled, charge, hook>>

Enter(h, s) == hook' = [hook EXCEPT ![h] = s]

\* Mutation of Receive: any event already recorded is answered "duplicate".
ReceiveOnce(h, e) ==
    /\ hook[h] = IdleHook
    /\ e \in emitted
    /\ inbox[e] = "NONE"
    /\ inbox' = [inbox EXCEPT ![e] = "RECEIVED"]
    /\ Enter(h, [pc |-> "apply", event |-> e])
    /\ UNCHANGED <<attempt, intent, emitted, settled, charge>>

\* The event is recorded; a delivery of a PROCESSED event is answered
\* "duplicate", a delivery of any other runs the handler again.
Receive(h, e) ==
    /\ hook[h] = IdleHook
    /\ e \in emitted
    /\ inbox[e] # "PROCESSED"
    /\ inbox' = [inbox EXCEPT ![e] = "RECEIVED"]
    /\ Enter(h, [pc |-> "apply", event |-> e])
    /\ UNCHANGED <<attempt, intent, emitted, settled, charge>>

\* UPDATE payments.attempts SET status=outcome WHERE id.
ApplyOutcome(h) ==
    /\ hook[h].pc = "apply"
    /\ LET e == hook[h].event
       IN /\ attempt' = [attempt EXCEPT ![e[1]] = e[2]]
          /\ Enter(h, [pc |-> "settle", event |-> e])
    /\ UNCHANGED <<intent, emitted, inbox, settled, charge>>

\* settleBilling: Billing answers 2xx to a new and to a repeated event.
Settle(h) ==
    /\ hook[h].pc = "settle"
    /\ settled' = settled \cup {hook[h].event}
    /\ Enter(h, [pc |-> "finish", event |-> hook[h].event])
    /\ UNCHANGED <<attempt, intent, emitted, inbox, charge>>

\* Mutation of SettleFails: the error of settleBilling is dropped.
SettleErrorIgnored(h) ==
    /\ hook[h].pc = "settle"
    /\ settled' \in {settled, settled \cup {hook[h].event}}
    /\ Enter(h, [pc |-> "finish", event |-> hook[h].event])
    /\ UNCHANGED <<attempt, intent, emitted, inbox, charge>>

\* settleBilling fails: Billing has settled the event or has not, and the
\* handler answers 502.
SettleFails(h) ==
    /\ hook[h].pc = "settle"
    /\ settled' \in {settled, settled \cup {hook[h].event}}
    /\ Enter(h, IdleHook)
    /\ UNCHANGED <<attempt, intent, emitted, inbox, charge>>

MarkProcessed(h) ==
    /\ hook[h].pc = "finish"
    /\ inbox' = [inbox EXCEPT ![hook[h].event] = "PROCESSED"]
    /\ Enter(h, IdleHook)
    /\ UNCHANGED <<attempt, intent, emitted, settled, charge>>

HookDies(h) ==
    /\ hook[h] # IdleHook
    /\ Enter(h, IdleHook)
    /\ UNCHANGED <<attempt, intent, emitted, inbox, settled, charge>>

-----------------------------------------------------------------------------
ChargeStep(c) ==
    \/ \E k \in ChargeKeys : ReadAttempt(c, k)
    \/ InsertAttempt(c)
    \/ ProviderAnswers(c)
    \/ ProviderLost(c)
    \/ StoreAnswer(c)
    \/ ChargeDies(c)

HookStep(h) ==
    \/ \E e \in Events : Receive(h, e)
    \/ ApplyOutcome(h)
    \/ Settle(h)
    \/ SettleFails(h)
    \/ MarkProcessed(h)
    \/ HookDies(h)

PayNext ==
    \/ \E c \in Chargers : ChargeStep(c)
    \/ \E k \in ChargeKeys, o \in Outcomes : Emit(k, o)
    \/ \E h \in Hooks : HookStep(h)

PaySpec == PayInit /\ [][PayNext]_payVars

\* The provider goes on delivering an event that is not answered 2xx, and
\* neither a handler's death nor Billing's refusal meets every delivery.
PayFairness ==
    \A e \in Events :
        /\ SF_payVars(\E h \in Hooks : Receive(h, e))
        /\ SF_payVars(\E h \in Hooks : ApplyOutcome(h) /\ hook[h].event = e)
        /\ SF_payVars(\E h \in Hooks : Settle(h) /\ hook[h].event = e)
        /\ SF_payVars(\E h \in Hooks : MarkProcessed(h) /\ hook[h].event = e)

PayFairSpec == PaySpec /\ PayFairness

-----------------------------------------------------------------------------
\* A provider request is made only for an attempt that is already persisted,
\* so that a webhook always finds its attempt (createCharge, L325-334).
AttemptBeforeRequest == \A k \in ChargeKeys : intent[k] # "none" => attempt[k] # "ABSENT"

\* An event is marked PROCESSED only when Billing has settled it, whatever
\* handlers of the same event died or were refused (stripeWebhook, L510-516).
ProcessedIsSettled == \A e \in Events : inbox[e] = "PROCESSED" => e \in settled

\* An attempt shows SUCCEEDED, and Billing is told so, only after the
\* provider's signed success event: no answer to createCharge is proof of
\* payment (createCharge, L340-347; stripeWebhook, L487-501).
SuccessIsEvidenced ==
    \A k \in ChargeKeys :
        attempt[k] = "SUCCEEDED" \/ <<k, "SUCCEEDED">> \in settled
            => inbox[<<k, "SUCCEEDED">>] # "NONE"

\* Every event the provider issues is settled by Billing in the end.
EmittedIsSettled == \A e \in Events : e \in emitted ~> e \in settled

\* Once the success of an attempt is processed and no handler is running, the
\* attempt shows it.  Violated: both UPDATEs of payments.attempts overwrite
\* whatever they find, so a late answer to createCharge, or the delivery of
\* an older failure, hides the success.
StatusIsCurrent ==
    (/\ \A c \in Chargers : charge[c] = IdleCharge
     /\ \A h \in Hooks : hook[h] = IdleHook)
    => \A k \in ChargeKeys :
          inbox[<<k, "SUCCEEDED">>] = "PROCESSED" => attempt[k] = "SUCCEEDED"
=============================================================================
