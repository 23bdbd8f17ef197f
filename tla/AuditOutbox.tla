------------------------------ MODULE AuditOutbox ------------------------------
(***************************************************************************)
(* The durable audit of mutations in services/cmd/gateway: main.go and     *)
(* partner_portal.go write an intent before they serve a mutation and      *)
(* replace it by an event afterwards (phase2_durability.go).               *)
(*                                                                         *)
(* A gateway may die at any point, and then its intents wait for the next  *)
(* gateway that starts: it finalizes EVERY intent it finds as INTERRUPTED, *)
(* also those of a gateway that is still serving (a rolling deployment).   *)
(* The service behind the gateway performs a call or not, in its own time, *)
(* whether or not the caller is still there.                               *)
(***************************************************************************)
EXTENDS Naturals, FiniteSets, Sequences

CONSTANTS
    AuMutations,  \* mutations that users request
    AuGateways,   \* gateway processes
    AuMaxStarts   \* bound: starts of a gateway

ASSUME AuAssumption == AuMaxStarts \in Nat

VARIABLES
    auOutbox,     \* identity.audit_outbox: mutations with an intent
    auEvents,     \* identity.audit_events: outcomes recorded of each mutation, in order
    auMutation,   \* how far the gateway has come with each, and which gateway
    auCalls,      \* calls the service behind has been given and not finished
    auExecuted,   \* mutations that took effect
    auGateway,    \* each gateway: down, up, or the intents it has still to recover
    auStarts,     \* bound used up
    auShared      \* history: mutations another gateway recovered while they were served

auVars == <<auOutbox, auEvents, auMutation, auCalls, auExecuted, auGateway, auStarts, auShared>>

AuDown == [at |-> "down", todo |-> {}]
AuUp == [at |-> "up", todo |-> {}]

AuInit ==
    /\ auOutbox = {} /\ auEvents = [m \in AuMutations |-> <<>>]
    /\ auMutation = [m \in AuMutations |-> [at |-> "new"]]
    /\ auCalls = {} /\ auExecuted = {}
    /\ auGateway = [g \in AuGateways |-> AuDown]
    /\ auStarts = 0 /\ auShared = {}

AuAt(m, at) == auMutation[m].at = at
AuMove(m, state) == auMutation' = [auMutation EXCEPT ![m] = state]
AuOwner(m) == auMutation[m].by
AuServed == {m \in AuMutations : auMutation[m].at \in {"intended", "calling", "answered"}}

\* One outcome is appended, and the intent deleted if it is still there.
AuAppend(m, outcome) == auEvents' = [auEvents EXCEPT ![m] = Append(@, outcome)]

-------------------------------------------------------------------------------
\* createAuditIntent; a failure answers 503 AUDIT_DURABILITY and nothing else happens.
AuIntend(m, g) ==
    /\ AuAt(m, "new") /\ auGateway[g] = AuUp
    /\ \/ /\ auOutbox' = auOutbox \cup {m}
          /\ AuMove(m, [at |-> "intended", by |-> g])
       \/ auOutbox' = auOutbox /\ AuMove(m, [at |-> "refused"])
    /\ UNCHANGED <<auEvents, auCalls, auExecuted, auGateway, auStarts, auShared>>

\* The handler: refused for want of a permission, or handed to a service.
AuServe(m) ==
    /\ AuAt(m, "intended")
    /\ \/ auCalls' = auCalls
          /\ AuMove(m, [at |-> "answered", by |-> AuOwner(m), outcome |-> "FAILED"])
       \/ auCalls' = auCalls \cup {m}
          /\ AuMove(m, [at |-> "calling", by |-> AuOwner(m)])
    /\ UNCHANGED <<auOutbox, auEvents, auExecuted, auGateway, auStarts, auShared>>
\* The service performs the call or refuses it.
AuEffect(m) ==
    /\ m \in auCalls
    /\ auCalls' = auCalls \ {m}
    /\ auExecuted' \in {auExecuted, auExecuted \cup {m}}
    /\ UNCHANGED <<auOutbox, auEvents, auMutation, auGateway, auStarts, auShared>>
\* The status recorded is the service's answer, or a failure when none came in time.
AuAnswer(m) ==
    /\ AuAt(m, "calling")
    /\ AuMove(m, [at |-> "answered", by |-> AuOwner(m),
                  outcome |-> IF m \notin auCalls /\ m \in auExecuted THEN "SUCCESS" ELSE "FAILED"])
    /\ UNCHANGED <<auOutbox, auEvents, auCalls, auExecuted, auGateway, auStarts, auShared>>
\* The answer is lost on its way although the service acted.
AuAnswerLost(m) ==
    /\ AuAt(m, "calling")
    /\ AuMove(m, [at |-> "answered", by |-> AuOwner(m), outcome |-> "FAILED"])
    /\ UNCHANGED <<auOutbox, auEvents, auCalls, auExecuted, auGateway, auStarts, auShared>>

\* Mutation of AuFinalize: the event and the deletion are not one transaction.
AuFinalizeInTwo(m) ==
    /\ AuAt(m, "answered")
    /\ AuAppend(m, auMutation[m].outcome)
    /\ auOutbox' \in {auOutbox, auOutbox \ {m}}
    /\ AuMove(m, [at |-> "over"])
    /\ UNCHANGED <<auCalls, auExecuted, auGateway, auStarts, auShared>>
\* The deferred finalizeAuditIntent: event and deletion together, or neither when the
\* three seconds are over; nobody tries again.
AuFinalize(m) ==
    /\ AuAt(m, "answered")
    /\ \/ AuAppend(m, auMutation[m].outcome) /\ auOutbox' = auOutbox \ {m}
       \/ UNCHANGED <<auEvents, auOutbox>>
    /\ AuMove(m, [at |-> "over"])
    /\ UNCHANGED <<auCalls, auExecuted, auGateway, auStarts, auShared>>

-------------------------------------------------------------------------------
\* A gateway starts: recoverAuditOutbox reads every intent there is ...
AuStart(g) ==
    /\ auGateway[g] = AuDown /\ auStarts < AuMaxStarts
    /\ auStarts' = auStarts + 1
    /\ auGateway' = [auGateway EXCEPT ![g] = [at |-> "recovering", todo |-> auOutbox]]
    /\ auShared' = auShared \cup (auOutbox \cap (AuServed \cup
                      UNION {auGateway[h].todo : h \in AuGateways}))
    /\ UNCHANGED <<auOutbox, auEvents, auMutation, auCalls, auExecuted>>
\* ... and finalizes one after the other, each in a transaction of its own.
AuRecover(g, m) ==
    /\ auGateway[g].at = "recovering" /\ m \in auGateway[g].todo
    /\ AuAppend(m, "INTERRUPTED")
    /\ auOutbox' = auOutbox \ {m}
    /\ auGateway' = [auGateway EXCEPT ![g].todo = @ \ {m}]
    /\ UNCHANGED <<auMutation, auCalls, auExecuted, auStarts, auShared>>
AuReady(g) ==
    /\ auGateway[g] = [at |-> "recovering", todo |-> {}]
    /\ auGateway' = [auGateway EXCEPT ![g] = AuUp]
    /\ UNCHANGED <<auOutbox, auEvents, auMutation, auCalls, auExecuted, auStarts, auShared>>
\* The process dies, or exits because the recovery failed.
AuDie(g) ==
    /\ auGateway[g] # AuDown
    /\ auGateway' = [auGateway EXCEPT ![g] = AuDown]
    /\ auMutation' = [m \in AuMutations |->
                        IF m \in AuServed /\ AuOwner(m) = g THEN [at |-> "over"] ELSE auMutation[m]]
    /\ UNCHANGED <<auOutbox, auEvents, auCalls, auExecuted, auStarts, auShared>>

AuNext ==
    \/ \E m \in AuMutations :
          \/ \E g \in AuGateways : AuIntend(m, g) \/ AuRecover(g, m)
          \/ AuServe(m) \/ AuEffect(m) \/ AuAnswer(m) \/ AuAnswerLost(m) \/ AuFinalize(m)
    \/ \E g \in AuGateways : AuStart(g) \/ AuReady(g) \/ AuDie(g)

AuSpec == AuInit /\ [][AuNext]_auVars

-------------------------------------------------------------------------------
(* A mutation that took effect, or still may, has left a trace: its intent  *)
(* or an event, wherever a gateway died and whoever recovered               *)
(* (docs/START-23.12_PHASE2_ACCEPTANCE.md:97, "cannot silently erase the    *)
(* existence of the mutation attempt").                                     *)
AuNothingUnseen ==
    \A m \in auExecuted \cup auCalls : m \in auOutbox \/ auEvents[m] # <<>>

(* A mutation is audited once, unless a gateway started while another was   *)
(* still serving it or recovering it (phase2_durability.go:104 deletes      *)
(* whatever is left).                                                       *)
AuOneEvent == \A m \in AuMutations : Len(auEvents[m]) <= 1 \/ m \in auShared

(* What the audit calls a success has happened, also when several events    *)
(* describe it, and an intent that is still there has no event.             *)
AuSuccessIsTrue ==
    \A m \in AuMutations :
        /\ (\E i \in 1..Len(auEvents[m]) : auEvents[m][i] = "SUCCESS") => m \in auExecuted
        /\ m \in auOutbox => auEvents[m] = <<>>

(* Not guaranteed by the code: what the audit calls a failure has not       *)
(* happened.  A service may act after its caller has given up.              *)
AuFailureIsTrue ==
    \A m \in AuMutations :
        (\E i \in 1..Len(auEvents[m]) : auEvents[m][i] = "FAILED") => m \notin auExecuted

\* Every mutation that ran left an intent or an event, one event at most, and a
\* SUCCESS event is about a mutation that did run.
AuditSafe ==
    /\ AuNothingUnseen
    /\ AuOneEvent
    /\ AuSuccessIsTrue
===============================================================================
