----------------------------- MODULE OutboxRelay -----------------------------
(***************************************************************************)
(* The transactional outbox of services/internal/automation/outbox.go and  *)
(* the relay loop of services/cmd/tenantfinance/main.go that publishes it. *)
(*                                                                         *)
(* A relay claims due rows under a lease, sends each to the Automation     *)
(* service and, by the answer, marks it PUBLISHED or puts it back with a   *)
(* new available_at.  available_at is part of the envelope the log hashes, *)
(* so it is kept: "stamp" counts how often the row was put back.  What the *)
(* log does with a request is all that matters here of that service: the   *)
(* first envelope of a key is stored, an equal one is a duplicate (2xx), a *)
(* different one a conflict (409).  AutomationLog models that handler.     *)
(*                                                                         *)
(* The network may refuse a request, lose its answer, or deliver it after  *)
(* the relay has given up on it; a relay may stop between any two steps    *)
(* and comes back with an empty batch.                                     *)
(***************************************************************************)
EXTENDS Integers

CONSTANTS
    Rows,         \* outbox rows of one producer, one per event_key
    Relays,       \* running copies of the publisher loop
    None,         \* nothing stored in the log; no call in progress
    LostAnswers,  \* may the answer to a delivered request be lost?
    MaxStamp,     \* bound: times a row is put back
    MaxCrashes    \* bound: crashes of relays

ASSUME RelayAssumption ==
    /\ LostAnswers \in BOOLEAN
    /\ MaxStamp \in Nat /\ MaxCrashes \in Nat
    /\ None \notin Nat

VARIABLES
    outbox,   \* automation_outbox.events
    batch,    \* records a relay has claimed and not handled yet
    call,     \* the request a relay is making
    wire,     \* requests on their way to the Automation service
    log,      \* automation.events: the stamp each key was accepted with
    crashes

relayVars == <<outbox, batch, call, wire, log, crashes>>

Row     == [status : {"ABSENT", "PENDING", "PROCESSING", "PUBLISHED"},
            stamp : Nat, due : BOOLEAN, leased : BOOLEAN]
Record  == [row : Rows, stamp : Nat]
Call    == [row : Rows, stamp : Nat, answer : {"waiting", "ok", "error"}]
Message == [relay : Relays, row : Rows, stamp : Nat]

NoCall == [row |-> None, stamp |-> 0, answer |-> "idle"]

TypeOK ==
    /\ outbox \in [Rows -> Row]
    /\ batch \in [Relays -> SUBSET Record]
    /\ call \in [Relays -> Call \cup {NoCall}]
    /\ wire \subseteq Message
    /\ log \in [Rows -> Nat \cup {None}]
    /\ crashes \in Nat

Init ==
    /\ outbox = [k \in Rows |-> [status |-> "ABSENT", stamp |-> 0,
                                 due |-> FALSE, leased |-> FALSE]]
    /\ batch = [r \in Relays |-> {}]
    /\ call = [r \in Relays |-> NoCall]
    /\ wire = {}
    /\ log = [k \in Rows |-> None]
    /\ crashes = 0

-----------------------------------------------------------------------------
\* The insert that commits with the business transaction; a key already
\* there is left alone (ON CONFLICT DO NOTHING).
EnqueueTx(k) ==
    /\ outbox[k].status = "ABSENT"
    /\ outbox' = [outbox EXCEPT ![k].status = "PENDING", ![k].due = TRUE]
    /\ UNCHANGED <<batch, call, wire, log, crashes>>

\* Mutation of Claimable: a row whose relay died is never taken again.
ClaimablePendingOnly(k) ==
    outbox[k].due /\ outbox[k].status = "PENDING"

Claimable(k) ==
    /\ outbox[k].due
    /\ \/ outbox[k].status = "PENDING"
       \/ outbox[k].status = "PROCESSING" /\ ~outbox[k].leased

\* publishOutboxOnce starts by claiming a batch; rows locked by another relay
\* are skipped, so any non-empty set of claimable rows may be returned.
ClaimOutbox(r, taken) ==
    /\ batch[r] = {} /\ call[r] = NoCall
    /\ taken # {}
    /\ \A k \in taken : Claimable(k)
    /\ outbox' = [k \in Rows |->
          IF k \in taken
          THEN [outbox[k] EXCEPT !.status = "PROCESSING", !.leased = TRUE]
          ELSE outbox[k]]
    /\ batch' = [batch EXCEPT ![r] =
          {[row |-> k, stamp |-> outbox[k].stamp] : k \in taken}]
    /\ UNCHANGED <<call, wire, log, crashes>>

Send(r, x) ==
    /\ call[r] = NoCall /\ x \in batch[r]
    /\ batch' = [batch EXCEPT ![r] = @ \ {x}]
    /\ call' = [call EXCEPT ![r] =
          [row |-> x.row, stamp |-> x.stamp, answer |-> "waiting"]]
    /\ wire' = wire \cup {[relay |-> r, row |-> x.row, stamp |-> x.stamp]}
    /\ UNCHANGED <<outbox, log, crashes>>

\* Mutation of NotSent: the loop goes on as if the request had been answered.
NotSentTreatedAsSent(r, x) ==
    /\ call[r] = NoCall /\ x \in batch[r]
    /\ x.stamp < MaxStamp
    /\ batch' = [batch EXCEPT ![r] = @ \ {x}]
    /\ call' = [call EXCEPT ![r] =
          [row |-> x.row, stamp |-> x.stamp, answer |-> "ok"]]
    /\ UNCHANGED <<outbox, wire, log, crashes>>

\* The request cannot be built, signed or sent, or is refused on arrival.
NotSent(r, x) ==
    /\ call[r] = NoCall /\ x \in batch[r]
    /\ x.stamp < MaxStamp
    /\ batch' = [batch EXCEPT ![r] = @ \ {x}]
    /\ call' = [call EXCEPT ![r] =
          [row |-> x.row, stamp |-> x.stamp, answer |-> "error"]]
    /\ UNCHANGED <<outbox, wire, log, crashes>>

Accepts(m) == log[m.row] \in {None, m.stamp}

\* The Automation service handles a request, whoever still waits for it.
Receive(m) ==
    /\ m \in wire
    /\ wire' = wire \ {m}
    /\ log' = [log EXCEPT ![m.row] = IF @ = None THEN m.stamp ELSE @]
    /\ call' = IF call[m.relay] = [row |-> m.row, stamp |-> m.stamp, answer |-> "waiting"]
               THEN [call EXCEPT ![m.relay].answer = IF Accepts(m) THEN "ok" ELSE "error"]
               ELSE call
    /\ UNCHANGED <<outbox, batch, crashes>>

\* The relay's client gives up; the request may be on the wire or handled.
TimesOut(r) ==
    /\ LostAnswers
    /\ call[r].answer \in {"waiting", "ok"}
    /\ call[r].stamp < MaxStamp
    /\ call' = [call EXCEPT ![r].answer = "error"]
    /\ UNCHANGED <<outbox, batch, wire, log, crashes>>

\* The row is marked only while PROCESSING; otherwise the error makes
\* publishOutboxOnce return and drop the rest of its batch.
MarkOutboxPublished(r) ==
    /\ call[r].answer = "ok"
    /\ LET k == call[r].row
       IN IF outbox[k].status = "PROCESSING"
          THEN /\ outbox' = [outbox EXCEPT ![k].status = "PUBLISHED", ![k].leased = FALSE]
               /\ batch' = batch
          ELSE /\ batch' = [batch EXCEPT ![r] = {}]
               /\ outbox' = outbox
    /\ call' = [call EXCEPT ![r] = NoCall]
    /\ UNCHANGED <<wire, log, crashes>>

\* Mutation of FailOutbox: the WHERE clause does not name the status.
FailOutboxAnyStatus(r) ==
    /\ call[r].answer = "error"
    /\ outbox[call[r].row].stamp < MaxStamp
    /\ outbox' = [outbox EXCEPT ![call[r].row] =
          [status |-> "PENDING", stamp |-> @.stamp + 1, due |-> FALSE, leased |-> FALSE]]
    /\ call' = [call EXCEPT ![r] = NoCall]
    /\ UNCHANGED <<batch, wire, log, crashes>>

\* A row still PROCESSING is put back with available_at = now + 15 seconds.
FailOutbox(r) ==
    /\ call[r].answer = "error"
    /\ LET k == call[r].row
       IN IF outbox[k].status = "PROCESSING"
          THEN /\ outbox[k].stamp < MaxStamp
               /\ outbox' = [outbox EXCEPT ![k] =
                     [status |-> "PENDING", stamp |-> @.stamp + 1,
                      due |-> FALSE, leased |-> FALSE]]
          ELSE outbox' = outbox
    /\ call' = [call EXCEPT ![r] = NoCall]
    /\ UNCHANGED <<batch, wire, log, crashes>>

\* The process stops and restarts, or the claim's result never reaches it.
Crash(r) ==
    /\ crashes < MaxCrashes
    /\ batch[r] # {} \/ call[r] # NoCall
    /\ crashes' = crashes + 1
    /\ batch' = [batch EXCEPT ![r] = {}]
    /\ call' = [call EXCEPT ![r] = NoCall]
    /\ UNCHANGED <<outbox, wire, log>>

\* The clock passes available_at, or lease_until.
Due(k) ==
    /\ outbox[k].status # "ABSENT" /\ ~outbox[k].due
    /\ outbox' = [outbox EXCEPT ![k].due = TRUE]
    /\ UNCHANGED <<batch, call, wire, log, crashes>>

LeaseExpires(k) ==
    /\ outbox[k].status = "PROCESSING" /\ outbox[k].leased
    /\ outbox' = [outbox EXCEPT ![k].leased = FALSE]
    /\ UNCHANGED <<batch, call, wire, log, crashes>>

-----------------------------------------------------------------------------
\* One pass of the loop of relay r, in the order the code makes its calls.
Relay(r) ==
    \/ \E taken \in SUBSET Rows : ClaimOutbox(r, taken)
    \/ \E x \in batch[r] : Send(r, x) \/ NotSent(r, x)
    \/ MarkOutboxPublished(r)
    \/ FailOutbox(r)

Next ==
    \/ \E k \in Rows : EnqueueTx(k) \/ Due(k) \/ LeaseExpires(k)
    \/ \E r \in Relays : Relay(r) \/ TimesOut(r) \/ Crash(r)
    \/ \E m \in wire : Receive(m)

Spec == Init /\ [][Next]_relayVars

\* The loop ticks every two seconds for as long as the process lives, the
\* service answers what it receives, and time passes.
Fairness ==
    /\ \A r \in Relays : WF_relayVars(Relay(r))
    /\ WF_relayVars(\E m \in wire : Receive(m))
    /\ \A k \in Rows : WF_relayVars(Due(k)) /\ WF_relayVars(LeaseExpires(k))

FairSpec == Spec /\ Fairness

-----------------------------------------------------------------------------
\* PUBLISHED is only ever written for a row whose event the log has stored,
\* whatever was lost, delayed or done twice: the producer may forget it.
PublishedIsLogged ==
    \A k \in Rows : outbox[k].status = "PUBLISHED" => log[k] # None

\* No late answer, stale relay or expired lease takes a row out of PUBLISHED.
PublishedIsFinal ==
    [][\A k \in Rows : outbox[k].status = "PUBLISHED"
         => outbox'[k].status = "PUBLISHED"]_relayVars

\* Whatever is lost, late, repeated or restarted, an enqueued event reaches the
\* log, and its row is closed unless it was put back after the log had stored
\* the event under the earlier time (ResendIsIdempotent below).
EveryRowPublishedOrRejected ==
    \A k \in Rows : (outbox[k].status # "ABSENT") ~>
        \/ outbox[k].status = "PUBLISHED"
        \/ log[k] # None /\ log[k] # outbox[k].stamp

\* ADR-0006: "A relay publishes the outbox record idempotently to the
\* Automation service."  A row whose event is already in the log can be sent
\* again and is told so.  (Violated: FailOutbox rewrites available_at, which
\* the log's envelope hash covers, so after one lost answer every later
\* attempt is a 409 conflict and the row never becomes PUBLISHED.)
ResendIsIdempotent ==
    \A k \in Rows : (outbox[k].status = "PENDING" /\ log[k] # None)
        => log[k] = outbox[k].stamp
=============================================================================
