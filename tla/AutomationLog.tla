---------------------------- MODULE AutomationLog ----------------------------
(***************************************************************************)
(* The durable event and delivery log of services/cmd/automation/main.go:  *)
(* subscriptions, accepted events, one delivery row per event and          *)
(* subscribed consumer, and the claim / ack / fail protocol that           *)
(* consumers run against it.                                               *)
(*                                                                         *)
(* Every HTTP handler is one database transaction and therefore one        *)
(* action, except "fail": it reads the row and writes it in two statements *)
(* outside a transaction (main.go:283 and :285), so it is two actions and  *)
(* anything may happen between them.                                       *)
(*                                                                         *)
(* The caller is open: any registered consumer may call ack or fail for    *)
(* any of its deliveries at any time, as a worker whose lease has long     *)
(* expired does.  Wall-clock time appears as two facts about a delivery:   *)
(* "due" (available_at has been reached) and "leased" (lease_until has     *)
(* not passed); either may change at any moment.                           *)
(***************************************************************************)
EXTENDS Integers, FiniteSets, FiniteSetsExt

CONSTANTS
    Keys,         \* (producer_service, event_key) pairs
    Consumers,    \* consumer services
    Types,        \* event types
    Scopes,       \* (partner_id, module_key) pairs of events
    AnyScope,     \* the empty partner and module filter of a subscription
    Contents,     \* the rest of an envelope: payload, subject, correlation
    Times,        \* timestamps
    Omitted,      \* a timestamp the producer left out
    None,         \* no event stored under a key
    MaxAttempts,  \* the max_attempts values consumers register
    MaxClaims,    \* bound: claims of one delivery
    MaxFailing    \* bound: fail handlers between their read and their write

ASSUME LogAssumption ==
    /\ AnyScope \notin Scopes
    /\ Omitted \notin Times
    /\ MaxAttempts \subseteq 1..50
    /\ MaxClaims \in Nat /\ MaxFailing \in Nat
    /\ None \notin [type : Types, scope : Scopes, content : Contents,
                    occurred : Times, available : Times]

VARIABLES
    subs,        \* automation.subscriptions: max_attempts, 0 when not registered
    events,      \* automation.events
    deliveries,  \* automation.deliveries
    failing,     \* fail handlers that have read a row and not yet written it
    sent         \* history: the request that created each event

logVars == <<subs, events, deliveries, failing, sent>>

Slots == Keys \X Consumers

Envelope == [type : Types, scope : Scopes, content : Contents,
             occurred : Times, available : Times]

Request == [type : Types, scope : Scopes, content : Contents,
            occurred : Times \cup {Omitted}, available : Times \cup {Omitted}]

Delivery == [status : {"NONE", "PENDING", "PROCESSING", "ACKED", "DEAD_LETTER"},
             attempts : Nat, max : 0..50, due : BOOLEAN, leased : BOOLEAN]

FailHandler == [slot : Slots, status : {"PENDING", "DEAD_LETTER"}]

NoDelivery == [status |-> "NONE", attempts |-> 0, max |-> 0,
               due |-> FALSE, leased |-> FALSE]

TypeOK ==
    /\ subs \in [Consumers \X Types \X (Scopes \cup {AnyScope}) -> 0..50]
    /\ events \in [Keys -> Envelope \cup {None}]
    /\ deliveries \in [Slots -> Delivery]
    /\ failing \subseteq FailHandler
    /\ sent \in [Keys -> Request \cup {None}]

LogInit ==
    /\ subs = [x \in Consumers \X Types \X (Scopes \cup {AnyScope}) |-> 0]
    /\ events = [k \in Keys |-> None]
    /\ deliveries = [d \in Slots |-> NoDelivery]
    /\ failing = {}
    /\ sent = [k \in Keys |-> None]

-----------------------------------------------------------------------------
\* POST /subscriptions registers every listed type in one transaction and
\* overwrites max_attempts of a row that exists.
Subscribe(c, types, f, max) ==
    /\ types # {}
    /\ subs' = [x \in DOMAIN subs |->
                  IF x[1] = c /\ x[2] \in types /\ x[3] = f THEN max ELSE subs[x]]
    /\ UNCHANGED <<events, deliveries, failing, sent>>

-----------------------------------------------------------------------------

\* The envelope a request is first hashed and stored as: times left out are
\* the server's clock.
Normalized(r, now) ==
    LET o == IF r.occurred = Omitted THEN now ELSE r.occurred
    IN  [r EXCEPT !.occurred = o,
                  !.available = IF @ = Omitted THEN o ELSE @]

\* Mutation of stableReplayTimes: a replay is defaulted by the clock again.
replayTimesByClock(r, stored) ==
    Normalized(r, CHOOSE t \in Times : t # stored.occurred)

\* A replay takes the times it leaves out from the stored event.
stableReplayTimes(r, stored) ==
    [r EXCEPT !.occurred = IF @ = Omitted THEN stored.occurred ELSE @,
              !.available = IF @ = Omitted THEN stored.available ELSE @]

\* The answer to POST /events: 201, 200 or 409 EVENT_KEY_CONFLICT.
Answer(k, r) ==
    IF events[k] = None THEN "created"
    ELSE IF stableReplayTimes(r, events[k]) = events[k] THEN "duplicate"
    ELSE "conflict"

\* The registrations of consumer c that select envelope e.
Selected(c, e) == {f \in {e.scope, AnyScope} : subs[<<c, e.type, f>>] > 0}

\* A new event and its deliveries are inserted by one transaction; a replay,
\* whether duplicate or conflict, changes nothing.
Publish(k, r, now) ==
    /\ Answer(k, r) = "created"
    /\ LET e == Normalized(r, now)
       IN /\ events' = [events EXCEPT ![k] = e]
          /\ deliveries' = [d \in Slots |->
                IF d[1] = k /\ Selected(d[2], e) # {}
                THEN [status |-> "PENDING", attempts |-> 0,
                      max |-> Max({subs[<<d[2], e.type, f>>] : f \in Selected(d[2], e)}),
                      due |-> FALSE, leased |-> FALSE]
                ELSE deliveries[d]]
    /\ sent' = [sent EXCEPT ![k] = r]
    /\ UNCHANGED <<subs, failing>>

-----------------------------------------------------------------------------
\* Mutation of Claimable: any row without a lease is taken, whatever its status.
ClaimableWhenUnleased(d) ==
    deliveries[d].due /\ ~deliveries[d].leased

\* Mutation of Claimable: a row whose worker died is never taken again.
ClaimablePendingOnly(d) ==
    deliveries[d].due /\ deliveries[d].status = "PENDING"

Claimable(d) ==
    /\ deliveries[d].due
    /\ \/ deliveries[d].status = "PENDING"
       \/ deliveries[d].status = "PROCESSING" /\ ~deliveries[d].leased

\* POST /deliveries/claim takes up to its limit of c's claimable rows, less
\* those another claim has locked (SKIP LOCKED): any non-empty set of them.
Claim(c, taken) ==
    /\ taken # {}
    /\ \A d \in taken : d[2] = c /\ Claimable(d) /\ deliveries[d].attempts < MaxClaims
    /\ deliveries' = [d \in Slots |->
          IF d \in taken
          THEN [deliveries[d] EXCEPT !.status = "PROCESSING", !.attempts = @ + 1,
                                     !.leased = TRUE]
          ELSE deliveries[d]]
    /\ UNCHANGED <<subs, events, failing, sent>>

\* POST /deliveries/{id}/ack; any other status is answered 409.
Ack(d) ==
    /\ deliveries[d].status = "PROCESSING"
    /\ deliveries' = [deliveries EXCEPT ![d].status = "ACKED", ![d].leased = FALSE]
    /\ UNCHANGED <<subs, events, failing, sent>>

\* Mutation of FailRead: the last retry is given up one claim early.
FailReadOneEarly(d) ==
    /\ deliveries[d].status = "PROCESSING"
    /\ Cardinality(failing) < MaxFailing
    /\ failing' = failing \cup
          {[slot |-> d,
            status |-> IF deliveries[d].attempts + 1 >= deliveries[d].max
                       THEN "DEAD_LETTER" ELSE "PENDING"]}
    /\ UNCHANGED <<subs, events, deliveries, sent>>

\* POST /deliveries/{id}/fail, first statement: the SELECT that requires
\* PROCESSING and decides between a retry and the dead-letter status.
FailRead(d) ==
    /\ deliveries[d].status = "PROCESSING"
    /\ Cardinality(failing) < MaxFailing
    /\ failing' = failing \cup
          {[slot |-> d,
            status |-> IF deliveries[d].attempts >= deliveries[d].max
                       THEN "DEAD_LETTER" ELSE "PENDING"]}
    /\ UNCHANGED <<subs, events, deliveries, sent>>

\* Second statement: the UPDATE, whose WHERE clause does not name the status.
FailWrite(h) ==
    /\ failing' = failing \ {h}
    /\ deliveries' = [deliveries EXCEPT
          ![h.slot].status = h.status,
          ![h.slot].leased = FALSE,
          ![h.slot].due = IF h.status = "PENDING" THEN FALSE ELSE @]
    /\ UNCHANGED <<subs, events, sent>>

\* The fail handler dies, or loses its database, between the two statements.
FailDropped(h) ==
    /\ failing' = failing \ {h}
    /\ UNCHANGED <<subs, events, deliveries, sent>>

\* The clock passes available_at, or lease_until, of a delivery.
Due(d) ==
    /\ deliveries[d].status # "NONE" /\ ~deliveries[d].due
    /\ deliveries' = [deliveries EXCEPT ![d].due = TRUE]
    /\ UNCHANGED <<subs, events, failing, sent>>

LeaseExpires(d) ==
    /\ deliveries[d].status = "PROCESSING" /\ deliveries[d].leased
    /\ deliveries' = [deliveries EXCEPT ![d].leased = FALSE]
    /\ UNCHANGED <<subs, events, failing, sent>>

-----------------------------------------------------------------------------
LogNext ==
    \/ \E c \in Consumers, types \in SUBSET Types, f \in Scopes \cup {AnyScope},
          max \in MaxAttempts : Subscribe(c, types, f, max)
    \/ \E k \in Keys, r \in Request, now \in Times : Publish(k, r, now)
    \/ \E c \in Consumers, taken \in SUBSET Slots : Claim(c, taken)
    \/ \E d \in Slots : Ack(d) \/ FailRead(d) \/ Due(d) \/ LeaseExpires(d)
    \/ \E h \in failing : FailWrite(h) \/ FailDropped(h)

LogSpec == LogInit /\ [][LogNext]_logVars

-----------------------------------------------------------------------------
\* A producer that repeats the very request that created an event is told
\* "duplicate" however late it repeats it, also when it left the times to the
\* server: the comparison with the stored hash goes through stableReplayTimes.
ReplayIsDuplicate ==
    \A k \in Keys : events[k] # None => Answer(k, sent[k]) = "duplicate"

\* A delivery is given up only after at least max_attempts claims, although the
\* status is decided from a row read earlier than the write, while leases
\* expire and other workers claim and fail the same row.
DeadLetterOnlyExhausted ==
    \A d \in Slots : deliveries[d].status = "DEAD_LETTER" =>
        deliveries[d].attempts >= deliveries[d].max

\* No claim, lease expiry, ack or publish takes a settled delivery out of its
\* final status; the one step that can is the write of a fail handler that
\* read the row while it was still being processed.
SettledLeftOnlyByOverlappingFail ==
    [][\A d \in Slots :
        (deliveries[d].status \in {"ACKED", "DEAD_LETTER"} /\
         deliveries'[d].status # deliveries[d].status)
        => \E h \in failing : h.slot = d /\ h.status = deliveries'[d].status]_logVars

\* ADR-0006: "Consumers ... acknowledge success explicitly".  An acknowledged
\* delivery is over.  (Violated: a fail handler overlapping the ack writes
\* PENDING over ACKED.)
AckedStaysAcked ==
    [][\A d \in Slots : deliveries[d].status = "ACKED"
        => deliveries'[d].status = "ACKED"]_logVars

\* ADR-0006: consumers "receive bounded retries before dead-letter".  A
\* delivery is never handed out more than max_attempts times.  (Violated: the
\* claim query does not look at max_attempts, only the fail handler does.)
RetriesAreBounded ==
    \A d \in Slots : deliveries[d].attempts <= deliveries[d].max
=============================================================================
