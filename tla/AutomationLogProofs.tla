------------------------- MODULE AutomationLogProofs -------------------------
(***************************************************************************)
(* Proofs about AutomationLog, for every set of keys, consumers and event  *)
(* types and every bound.                                                  *)
(***************************************************************************)
EXTENDS AutomationLog, TLAPS

\* What the log keeps true beyond the types: rows exist only for accepted
\* events, a fail handler in flight has a row, and both a decision to give up
\* that is still to be written and one that has been written are justified by
\* the attempts counter, which only grows.
RowsHaveEvents ==
    \A d \in Slots : deliveries[d].status # "NONE" => events[d[1]] # None

FailingJustified ==
    \A h \in failing :
        /\ deliveries[h.slot].status # "NONE"
        /\ h.status = "DEAD_LETTER" =>
              deliveries[h.slot].attempts >= deliveries[h.slot].max

LogInv == TypeOK /\ RowsHaveEvents /\ FailingJustified /\ DeadLetterOnlyExhausted

-----------------------------------------------------------------------------
\* The largest registration of the at most two filters that select an event.
LEMMA MaxOfPair ==
    ASSUME NEW S \in SUBSET (0..50), NEW a, NEW b, S \subseteq {a, b}, S # {}
    PROVE  Max(S) \in 0..50
<1>1. \E x \in S : \A y \in S : x >= y
  <2>1. CASE a \in S /\ b \in S
    BY <2>1
  <2>2. CASE a \notin S
    <3>1. S = {b} /\ b \in 0..50
      BY <2>2
    <3> QED BY <3>1
  <2>3. CASE b \notin S
    <3>1. S = {a} /\ a \in 0..50
      BY <2>3
    <3> QED BY <3>1
  <2> QED BY <2>1, <2>2, <2>3
<1> QED BY <1>1 DEF Max

\* A fan-out delivery is a delivery, whatever filters selected its event.
LEMMA FanOutTyped ==
    ASSUME TypeOK, NEW c \in Consumers, NEW e \in Envelope, Selected(c, e) # {}
    PROVE  Max({subs[<<c, e.type, f>>] : f \in Selected(c, e)}) \in 0..50
<1> DEFINE S == {subs[<<c, e.type, f>>] : f \in Selected(c, e)}
<1>1. e.type \in Types /\ e.scope \in Scopes
  BY DEF Envelope
<1>2. \A f \in Selected(c, e) : subs[<<c, e.type, f>>] \in 0..50
  BY <1>1 DEF Selected, TypeOK
<1>3. S \subseteq {subs[<<c, e.type, e.scope>>], subs[<<c, e.type, AnyScope>>]}
  BY DEF Selected
<1>4. S \in SUBSET (0..50) /\ S # {}
  BY <1>2
<1> HIDE DEF S
<1>5. Max(S) \in 0..50
  BY <1>3, <1>4, MaxOfPair
<1> QED BY <1>5 DEF S

\* A request is normalized to an envelope.
LEMMA NormalizedTyped ==
    ASSUME NEW r \in Request, NEW now \in Times
    PROVE  Normalized(r, now) \in Envelope
BY DEF Normalized, Request, Envelope

-----------------------------------------------------------------------------
\* The invariant holds before anything is registered or published.
LEMMA LogInitInv == LogInit => LogInv
BY DEF LogInit, LogInv, TypeOK, RowsHaveEvents, FailingJustified,
       DeadLetterOnlyExhausted, NoDelivery, Delivery, Slots

\* Registering a consumer, or changing its limit, leaves stored deliveries alone.
LEMMA SubscribeInv ==
    ASSUME LogInv, NEW c \in Consumers, NEW types \in SUBSET Types,
           NEW f \in Scopes \cup {AnyScope}, NEW max \in MaxAttempts,
           Subscribe(c, types, f, max)
    PROVE  LogInv'
BY LogAssumption DEF Subscribe, LogInv, TypeOK, RowsHaveEvents, FailingJustified,
       DeadLetterOnlyExhausted

\* A new event and its fan-out are typed, and no delivery that exists is rewritten.
LEMMA PublishInv ==
    ASSUME LogInv, NEW k \in Keys, NEW r \in Request, NEW now \in Times,
           Publish(k, r, now)
    PROVE  LogInv'
<1> DEFINE e == Normalized(r, now)
<1>1. e \in Envelope
  BY NormalizedTyped
<1>2. events[k] = None
  BY DEF Publish, Answer
<1>3. TypeOK
  BY DEF LogInv
<1> DEFINE row(d) == [status |-> "PENDING", attempts |-> 0,
                      max |-> Max({subs[<<d[2], e.type, f>>] : f \in Selected(d[2], e)}),
                      due |-> FALSE, leased |-> FALSE]
<1>4. /\ events' = [events EXCEPT ![k] = e]
      /\ deliveries' = [d \in Slots |->
            IF d[1] = k /\ Selected(d[2], e) # {} THEN row(d) ELSE deliveries[d]]
      /\ sent' = [sent EXCEPT ![k] = r]
      /\ subs' = subs /\ failing' = failing
  BY DEF Publish
<1>5. ASSUME NEW d \in Slots, Selected(d[2], e) # {}
      PROVE  row(d) \in Delivery
  <2>1. d[2] \in Consumers
    BY DEF Slots
  <2>2. Max({subs[<<d[2], e.type, f>>] : f \in Selected(d[2], e)}) \in 0..50
    BY <1>1, <1>3, <1>5, <2>1, FanOutTyped
  <2> QED BY <2>2 DEF Delivery
<1>6. \A d \in Slots : d[1] = k => deliveries[d].status = "NONE"
  BY <1>2 DEF LogInv, RowsHaveEvents
<1>7. \A d \in Slots : row(d).status = "PENDING"
  OBVIOUS
<1> HIDE DEF row, e
<1>8. TypeOK'
  BY <1>1, <1>3, <1>4, <1>5 DEF TypeOK
<1>9. RowsHaveEvents'
  <2>1. e # None
    BY <1>1, LogAssumption DEF Envelope
  <2> QED BY <2>1, <1>3, <1>4, <1>6 DEF LogInv, RowsHaveEvents, TypeOK, Slots
<1>10. \A h \in failing : h.slot \in Slots /\ h.slot[1] # k
  BY <1>3, <1>6 DEF LogInv, FailingJustified, TypeOK, FailHandler
<1>11. FailingJustified'
  BY <1>4, <1>10 DEF LogInv, FailingJustified
<1>12. DeadLetterOnlyExhausted'
  BY <1>4, <1>7 DEF LogInv, DeadLetterOnlyExhausted
<1> QED BY <1>8, <1>9, <1>11, <1>12 DEF LogInv

\* A step that only works on rows that are there, keeps their limit, never lowers
\* their attempts and dead-letters none preserves the invariant.
LEMMA RowStepInv ==
    ASSUME LogInv, UNCHANGED <<subs, events, failing, sent>>,
           deliveries' \in [Slots -> Delivery],
           \A d \in Slots :
              /\ deliveries'[d].max = deliveries[d].max
              /\ deliveries'[d].attempts >= deliveries[d].attempts
              /\ deliveries'[d].status = "NONE" <=> deliveries[d].status = "NONE"
              /\ deliveries'[d].status = "DEAD_LETTER" => deliveries[d].status = "DEAD_LETTER"
    PROVE  LogInv'
<1>1. TypeOK'
  BY DEF LogInv, TypeOK
<1>2. RowsHaveEvents'
  BY DEF LogInv, RowsHaveEvents
<1>3. \A d \in Slots : /\ deliveries[d].attempts \in Nat /\ deliveries[d].max \in Nat
                       /\ deliveries'[d].attempts \in Nat
  <2>1. \A d \in Slots : deliveries[d] \in Delivery /\ deliveries'[d] \in Delivery
    BY DEF LogInv, TypeOK
  <2> QED BY <2>1 DEF Delivery
<1>4. FailingJustified'
  <2>1. \A h \in failing : h.slot \in Slots
    BY DEF LogInv, TypeOK, FailHandler
  <2> QED BY <1>3, <2>1 DEF LogInv, FailingJustified
<1>5. DeadLetterOnlyExhausted'
  BY <1>3 DEF LogInv, DeadLetterOnlyExhausted
<1> QED BY <1>1, <1>2, <1>4, <1>5 DEF LogInv

\* What a claim makes of a row.
LEMMA ClaimedRow ==
    ASSUME NEW r \in Delivery, NEW row,
           row = [r EXCEPT !.status = "PROCESSING", !.attempts = r.attempts + 1, !.leased = TRUE]
    PROVE  /\ row \in Delivery /\ row.max = r.max /\ row.status = "PROCESSING"
           /\ row.attempts = r.attempts + 1 /\ r.attempts \in Nat
<1>1. r.attempts \in Nat /\ r.attempts + 1 \in Nat
  BY DEF Delivery
<1>2. row \in Delivery
  BY <1>1 DEF Delivery
<1>3. row.max = r.max /\ row.status = "PROCESSING" /\ row.attempts = r.attempts + 1
  BY Zenon DEF Delivery
<1> QED BY <1>1, <1>2, <1>3

\* A claim only raises attempts, so verdicts reached earlier stay justified.
LEMMA ClaimInv ==
    ASSUME LogInv, NEW c \in Consumers, NEW taken \in SUBSET Slots, Claim(c, taken)
    PROVE  LogInv'
<1>1. deliveries \in [Slots -> Delivery]
  BY DEF LogInv, TypeOK
<1>2. \A d \in taken : deliveries[d].status \in {"PENDING", "PROCESSING"}
  BY DEF Claim, Claimable
<1> DEFINE claimed(d) == [deliveries[d] EXCEPT !.status = "PROCESSING", !.attempts = @ + 1,
                                               !.leased = TRUE]
<1>3. ASSUME NEW d \in Slots
      PROVE  /\ claimed(d) \in Delivery
             /\ claimed(d).max = deliveries[d].max
             /\ claimed(d).attempts = deliveries[d].attempts + 1
             /\ claimed(d).status = "PROCESSING"
             /\ deliveries[d].attempts \in Nat
  <2>1. deliveries[d] \in Delivery
    BY <1>1
  <2> QED BY <2>1, ClaimedRow
<1>4. deliveries' = [d \in Slots |-> IF d \in taken THEN claimed(d) ELSE deliveries[d]]
  BY DEF Claim
<1>5. UNCHANGED <<subs, events, failing, sent>>
  BY DEF Claim
<1> HIDE DEF claimed
<1>6. deliveries' \in [Slots -> Delivery]
  BY <1>1, <1>3, <1>4
<1>7. \A d \in Slots :
         /\ deliveries'[d].max = deliveries[d].max
         /\ deliveries'[d].attempts >= deliveries[d].attempts
         /\ deliveries'[d].status = "NONE" <=> deliveries[d].status = "NONE"
         /\ deliveries'[d].status = "DEAD_LETTER" => deliveries[d].status = "DEAD_LETTER"
  BY <1>2, <1>3, <1>4
<1> QED BY <1>5, <1>6, <1>7, RowStepInv

\* An ack changes status and lease of one delivery.
LEMMA AckInv ==
    ASSUME LogInv, NEW d \in Slots, Ack(d)
    PROVE  LogInv'
<1>1. deliveries \in [Slots -> Delivery]
  BY DEF LogInv, TypeOK
<1>2. deliveries[d] \in Delivery
  BY <1>1
<1> DEFINE row == [deliveries[d] EXCEPT !.status = "ACKED", !.leased = FALSE]
<1>3. /\ deliveries' = [deliveries EXCEPT ![d] = row]
      /\ deliveries[d].status = "PROCESSING"
      /\ UNCHANGED <<subs, events, failing, sent>>
  BY DEF Ack
<1>4. /\ row \in Delivery /\ row.max = deliveries[d].max
      /\ row.attempts = deliveries[d].attempts /\ row.status = "ACKED"
  BY <1>2 DEF Delivery
<1> HIDE DEF row
<1>5. deliveries' \in [Slots -> Delivery]
  BY <1>1, <1>3, <1>4
<1>6. \A x \in Slots : deliveries[x].attempts \in Nat
  BY <1>1 DEF Delivery
<1>7. \A x \in Slots :
         /\ deliveries'[x].max = deliveries[x].max
         /\ deliveries'[x].attempts >= deliveries[x].attempts
         /\ deliveries'[x].status = "NONE" <=> deliveries[x].status = "NONE"
         /\ deliveries'[x].status = "DEAD_LETTER" => deliveries[x].status = "DEAD_LETTER"
  BY <1>1, <1>3, <1>4, <1>6
<1> QED BY <1>3, <1>5, <1>7, RowStepInv

\* The decision is recorded with the attempts it was taken from.
LEMMA FailReadInv ==
    ASSUME LogInv, NEW d \in Slots, FailRead(d)
    PROVE  LogInv'
BY DEF FailRead, LogInv, TypeOK, RowsHaveEvents, FailingJustified,
       DeadLetterOnlyExhausted, FailHandler

\* The write may come late, yet the attempts it relies on have only grown.
LEMMA FailWriteInv ==
    ASSUME LogInv, NEW h \in failing, FailWrite(h)
    PROVE  LogInv'
<1>1. h \in FailHandler
  BY DEF LogInv, TypeOK
<1> USE DEF FailWrite
<1>2. TypeOK'
  BY <1>1 DEF LogInv, TypeOK, Delivery, FailHandler
<1>3. RowsHaveEvents'
  BY <1>1 DEF LogInv, RowsHaveEvents, FailingJustified, TypeOK, Delivery, FailHandler
<1>4. FailingJustified'
  BY <1>1 DEF LogInv, FailingJustified, TypeOK, Delivery, FailHandler
<1>5. DeadLetterOnlyExhausted'
  BY <1>1 DEF LogInv, FailingJustified, DeadLetterOnlyExhausted, TypeOK, Delivery, FailHandler
<1> QED BY <1>2, <1>3, <1>4, <1>5 DEF LogInv

\* The clock changes due and leased only.
LEMMA TimeInv ==
    ASSUME LogInv, NEW d \in Slots, Due(d) \/ LeaseExpires(d)
    PROVE  LogInv'
<1>1. deliveries \in [Slots -> Delivery]
  BY DEF LogInv, TypeOK
<1>2. deliveries[d] \in Delivery
  BY <1>1
<1>3. PICK row \in Delivery :
         /\ deliveries' = [deliveries EXCEPT ![d] = row]
         /\ row.max = deliveries[d].max /\ row.attempts = deliveries[d].attempts
         /\ row.status = deliveries[d].status
  <2>1. CASE Due(d)
    <3>1. [deliveries[d] EXCEPT !.due = TRUE] \in Delivery
      BY <1>2 DEF Delivery
    <3>2. deliveries' = [deliveries EXCEPT ![d] = [deliveries[d] EXCEPT !.due = TRUE]]
      BY <2>1 DEF Due
    <3> QED BY <1>2, <3>1, <3>2 DEF Delivery
  <2>2. CASE LeaseExpires(d)
    <3>1. [deliveries[d] EXCEPT !.leased = FALSE] \in Delivery
      BY <1>2 DEF Delivery
    <3>2. deliveries' = [deliveries EXCEPT ![d] = [deliveries[d] EXCEPT !.leased = FALSE]]
      BY <2>2 DEF LeaseExpires
    <3> QED BY <1>2, <3>1, <3>2 DEF Delivery
  <2> QED BY <2>1, <2>2
<1>4. UNCHANGED <<subs, events, failing, sent>>
  BY DEF Due, LeaseExpires
<1>5. deliveries' \in [Slots -> Delivery]
  BY <1>1, <1>3
<1>6. \A x \in Slots : deliveries[x].attempts \in Nat
  BY <1>1 DEF Delivery
<1>7. \A x \in Slots :
         /\ deliveries'[x].max = deliveries[x].max
         /\ deliveries'[x].attempts >= deliveries[x].attempts
         /\ deliveries'[x].status = deliveries[x].status
  BY <1>1, <1>3, <1>6
<1> QED BY <1>4, <1>5, <1>7, RowStepInv

\* Every handler, and time, preserves the invariant.
LEMMA LogStepInv == LogInv /\ [LogNext]_logVars => LogInv'
<1> SUFFICES ASSUME LogInv, [LogNext]_logVars PROVE LogInv'
  OBVIOUS
<1>1. CASE UNCHANGED logVars
  BY <1>1 DEF logVars, LogInv, TypeOK, RowsHaveEvents, FailingJustified,
              DeadLetterOnlyExhausted
<1>2. ASSUME NEW h \in failing, FailDropped(h) PROVE LogInv'
  BY <1>2 DEF FailDropped, LogInv, TypeOK, RowsHaveEvents, FailingJustified,
              DeadLetterOnlyExhausted
<1>3. CASE LogNext
  BY <1>2, <1>3, SubscribeInv, PublishInv, ClaimInv, AckInv, FailReadInv,
     FailWriteInv, TimeInv DEF LogNext
<1> QED BY <1>1, <1>3

\* The invariant of the log holds in every reachable state.
THEOREM LogInvariant == LogSpec => []LogInv
<1> QED BY LogInitInv, LogStepInv, PTL DEF LogSpec

\* Every state the log can reach is well typed, for all constants.
THEOREM LogTypeCorrect == LogSpec => []TypeOK
BY LogInvariant, PTL DEF LogInv

\* A delivery is dead-lettered only after max_attempts claims, although the
\* fail handler writes a decision it took from an earlier read of the row.
THEOREM DeadLettersAreExhausted == LogSpec => []DeadLetterOnlyExhausted
BY LogInvariant, PTL DEF LogInv

-----------------------------------------------------------------------------
\* A request that left times to the server, repeated against the envelope they
\* were filled into, is completed to that very envelope.
LEMMA ReplayCompletes ==
    ASSUME NEW r \in Request, NEW now \in Times
    PROVE  stableReplayTimes(r, Normalized(r, now)) = Normalized(r, now)
<1> DEFINE o == IF r.occurred = Omitted THEN now ELSE r.occurred
           a == IF r.available = Omitted THEN o ELSE r.available
<1>1. r \in [type : Types, scope : Scopes, content : Contents,
             occurred : Times \cup {Omitted}, available : Times \cup {Omitted}]
  BY DEF Request
<1>2. Normalized(r, now) = [r EXCEPT !.occurred = o, !.available = a]
  BY DEF Normalized
<1>3. Normalized(r, now).occurred = o /\ Normalized(r, now).available = a
  BY <1>1, <1>2
<1> QED BY <1>1, <1>2, <1>3 DEF stableReplayTimes

\* Events and the requests that created them change in Publish only.
LEMMA OnlyPublishWrites ==
    ASSUME LogNext
    PROVE  \/ UNCHANGED <<events, sent>>
           \/ \E k \in Keys, r \in Request, now \in Times : Publish(k, r, now)
BY DEF LogNext, Subscribe, Claim, Ack, FailRead, Due, LeaseExpires, FailWrite, FailDropped

\* A producer that repeats a request is always told "duplicate"
\* (main.go:209): what was stored is what the repetition is completed to.
THEOREM RepetitionsAreDuplicates == LogSpec => []ReplayIsDuplicate
<1>1. LogInit => ReplayIsDuplicate
  BY DEF LogInit, ReplayIsDuplicate
<1>2. TypeOK /\ ReplayIsDuplicate /\ [LogNext]_logVars => ReplayIsDuplicate'
  <2> SUFFICES ASSUME TypeOK, ReplayIsDuplicate, [LogNext]_logVars PROVE ReplayIsDuplicate'
    OBVIOUS
  <2>1. CASE UNCHANGED <<events, sent>>
    BY <2>1 DEF ReplayIsDuplicate, Answer
  <2>2. ASSUME NEW k \in Keys, NEW r \in Request, NEW now \in Times, Publish(k, r, now)
        PROVE  ReplayIsDuplicate'
    <3>1. /\ events' = [events EXCEPT ![k] = Normalized(r, now)]
          /\ sent' = [sent EXCEPT ![k] = r]
      BY <2>2 DEF Publish
    <3>2. events \in [Keys -> Envelope \cup {None}] /\ sent \in [Keys -> Request \cup {None}]
      BY DEF TypeOK
    <3>3. events'[k] = Normalized(r, now) /\ sent'[k] = r
      BY <3>1, <3>2
    <3>4. \A j \in Keys \ {k} : events'[j] = events[j] /\ sent'[j] = sent[j]
      BY <3>1, <3>2
    <3>5. stableReplayTimes(sent'[k], events'[k]) = events'[k]
      BY <3>3, ReplayCompletes
    <3> QED BY <3>4, <3>5 DEF ReplayIsDuplicate, Answer
  <2> QED BY <2>1, <2>2, OnlyPublishWrites DEF logVars
<1> QED BY <1>1, <1>2, LogTypeCorrect, PTL DEF LogSpec

\* What a step may do to the status and the attempts of a delivery that exists.
LEMMA StepOfDelivery ==
    ASSUME LogInv, [LogNext]_logVars, NEW d \in Slots, deliveries[d].status # "NONE"
    PROVE  \/ /\ deliveries'[d].status = deliveries[d].status
              /\ deliveries'[d].attempts = deliveries[d].attempts
           \/ Claimable(d)
           \/ /\ deliveries[d].status = "PROCESSING"
              /\ deliveries'[d].attempts = deliveries[d].attempts
           \/ /\ \E h \in failing : h.slot = d /\ h.status = deliveries'[d].status
              /\ deliveries'[d].attempts = deliveries[d].attempts
<1> DEFINE Goal == \/ /\ deliveries'[d].status = deliveries[d].status
                      /\ deliveries'[d].attempts = deliveries[d].attempts
                   \/ Claimable(d)
                   \/ /\ deliveries[d].status = "PROCESSING"
                      /\ deliveries'[d].attempts = deliveries[d].attempts
                   \/ /\ \E h \in failing : h.slot = d /\ h.status = deliveries'[d].status
                      /\ deliveries'[d].attempts = deliveries[d].attempts
<1>1. deliveries \in [Slots -> Delivery]
  BY DEF LogInv, TypeOK
<1>2. ASSUME UNCHANGED deliveries
      PROVE  Goal
  BY <1>2
<1>3. ASSUME NEW k \in Keys, NEW r \in Request, NEW now \in Times, Publish(k, r, now)
      PROVE  Goal
  <2>1. d[1] # k
    BY <1>3 DEF Publish, Answer, LogInv, RowsHaveEvents
  <2> QED BY <1>3, <2>1 DEF Publish
<1>4. ASSUME NEW c \in Consumers, NEW taken \in SUBSET Slots, Claim(c, taken)
      PROVE  Goal
  <2>1. CASE d \in taken
    BY <1>4, <2>1 DEF Claim
  <2>2. CASE d \notin taken
    BY <1>4, <2>2 DEF Claim
  <2> QED BY <2>1, <2>2
<1>5. ASSUME NEW x \in Slots, Ack(x) \/ Due(x) \/ LeaseExpires(x)
      PROVE  Goal
  <2>1. x # d => deliveries'[d] = deliveries[d]
    BY <1>1, <1>5 DEF Ack, Due, LeaseExpires
  <2>2. deliveries[d] \in Delivery
    BY <1>1
  <2>3. CASE x = d
    BY <1>1, <1>5, <2>2, <2>3 DEF Ack, Due, LeaseExpires, Delivery
  <2> QED BY <2>1, <2>3
<1>6. ASSUME NEW h \in failing, FailWrite(h)
      PROVE  Goal
  <2>1. h \in FailHandler
    BY DEF LogInv, TypeOK
  <2>2. h.slot # d => deliveries'[d] = deliveries[d]
    BY <1>1, <1>6, <2>1 DEF FailWrite, FailHandler
  <2>3. CASE h.slot = d
    BY <1>1, <1>6, <2>1, <2>3 DEF FailWrite, FailHandler, Delivery
  <2> QED BY <2>2, <2>3
<1>7. ASSUME LogNext
      PROVE  Goal
  <2>1. \A c \in Consumers, types \in SUBSET Types, f \in Scopes \cup {AnyScope},
           max \in MaxAttempts : Subscribe(c, types, f, max) => UNCHANGED deliveries
    BY DEF Subscribe
  <2>2. \A x \in Slots : FailRead(x) => UNCHANGED deliveries
    BY DEF FailRead
  <2>3. \A h \in failing : FailDropped(h) => UNCHANGED deliveries
    BY DEF FailDropped
  <2> HIDE DEF Goal
  <2> QED BY <1>2, <1>3, <1>4, <1>5, <1>6, <1>7, <2>1, <2>2, <2>3 DEF LogNext
<1> QED BY <1>2, <1>7 DEF logVars

\* Only the late write of a fail handler takes a settled delivery out of its
\* status (main.go:285), with the status it had decided on.
THEOREM OnlyFailUnsettles == LogSpec => SettledLeftOnlyByOverlappingFail
<1>1. LogInv /\ [LogNext]_logVars =>
        [\A d \in Slots :
            (deliveries[d].status \in {"ACKED", "DEAD_LETTER"} /\
             deliveries'[d].status # deliveries[d].status)
            => \E h \in failing : h.slot = d /\ h.status = deliveries'[d].status]_logVars
  BY StepOfDelivery DEF Claimable
<1> QED BY <1>1, LogInvariant, PTL DEF LogSpec, SettledLeftOnlyByOverlappingFail

-----------------------------------------------------------------------------
\* An accepted event is never changed or replaced.
LEMMA EventsStay ==
    ASSUME LogInv, [LogNext]_logVars, NEW k \in Keys, events[k] # None
    PROVE  events'[k] = events[k]
BY OnlyPublishWrites DEF logVars, Publish, Answer, LogInv, TypeOK

\* A delivery that exists keeps existing.
LEMMA DeliveriesStay ==
    ASSUME LogInv, [LogNext]_logVars, NEW d \in Slots, deliveries[d].status # "NONE"
    PROVE  deliveries'[d].status # "NONE"
<1>1. deliveries \in [Slots -> Delivery] /\ deliveries[d] \in Delivery
  BY DEF LogInv, TypeOK
<1> DEFINE Goal == deliveries'[d].status # "NONE"
<1>2. ASSUME UNCHANGED deliveries PROVE Goal
  BY <1>2
<1>3. ASSUME NEW k \in Keys, NEW r \in Request, NEW now \in Times, Publish(k, r, now) PROVE Goal
  BY <1>3 DEF Publish
<1>4. ASSUME NEW c \in Consumers, NEW taken \in SUBSET Slots, Claim(c, taken) PROVE Goal
  BY <1>1, <1>4 DEF Claim, Delivery
<1>5. ASSUME NEW x \in Slots, Ack(x) \/ Due(x) \/ LeaseExpires(x) PROVE Goal
  BY <1>1, <1>5 DEF Ack, Due, LeaseExpires, Delivery
<1>6. ASSUME NEW h \in failing, FailWrite(h) PROVE Goal
  <2>1. h.slot \in Slots /\ h.status \in {"PENDING", "DEAD_LETTER"}
    BY DEF LogInv, TypeOK, FailHandler
  <2>2. CASE h.slot = d
    BY <1>1, <1>6, <2>1, <2>2 DEF FailWrite, Delivery
  <2>3. CASE h.slot # d
    BY <1>1, <1>6, <2>1, <2>3 DEF FailWrite
  <2> QED BY <2>2, <2>3
<1>7. ASSUME LogNext PROVE Goal
  <2>1. \A c \in Consumers, types \in SUBSET Types, f \in Scopes \cup {AnyScope},
           max \in MaxAttempts : Subscribe(c, types, f, max) => UNCHANGED deliveries
    BY DEF Subscribe
  <2>2. \A x \in Slots : FailRead(x) => UNCHANGED deliveries
    BY DEF FailRead
  <2>3. \A h \in failing : FailDropped(h) => UNCHANGED deliveries
    BY DEF FailDropped
  <2> HIDE DEF Goal
  <2> QED BY <1>2, <1>3, <1>4, <1>5, <1>6, <1>7, <2>1, <2>2, <2>3 DEF LogNext
<1> QED BY <1>2, <1>7 DEF logVars

\* No claim, publish, clock tick or fail handler acknowledges a delivery.
LEMMA OnlyAckAcks ==
    ASSUME LogInv, NEW d \in Slots, deliveries'[d].status = "ACKED",
           \/ UNCHANGED deliveries
           \/ \E k \in Keys, r \in Request, now \in Times : Publish(k, r, now)
           \/ \E c \in Consumers, taken \in SUBSET Slots : Claim(c, taken)
           \/ \E x \in Slots : Due(x) \/ LeaseExpires(x)
           \/ \E h \in failing : FailWrite(h)
    PROVE  deliveries[d].status = "ACKED"
<1>1. deliveries \in [Slots -> Delivery] /\ deliveries[d] \in Delivery
  BY DEF LogInv, TypeOK
<1>2. CASE UNCHANGED deliveries
  BY <1>2
<1>3. ASSUME NEW k \in Keys, NEW r \in Request, NEW now \in Times, Publish(k, r, now)
      PROVE  deliveries[d].status = "ACKED"
  BY <1>3 DEF Publish
<1>4. ASSUME NEW c \in Consumers, NEW taken \in SUBSET Slots, Claim(c, taken)
      PROVE  deliveries[d].status = "ACKED"
  BY <1>1, <1>4 DEF Claim, Delivery
<1>5. ASSUME NEW x \in Slots, Due(x) \/ LeaseExpires(x)
      PROVE  deliveries[d].status = "ACKED"
  BY <1>1, <1>5 DEF Due, LeaseExpires, Delivery
<1>6. ASSUME NEW h \in failing, FailWrite(h)
      PROVE  deliveries[d].status = "ACKED"
  <2>1. h.slot \in Slots /\ h.status \in {"PENDING", "DEAD_LETTER"}
    BY DEF LogInv, TypeOK, FailHandler
  <2>2. CASE h.slot = d
    BY <1>1, <1>6, <2>1, <2>2 DEF FailWrite, Delivery
  <2>3. CASE h.slot # d
    BY <1>1, <1>6, <2>1, <2>3 DEF FailWrite
  <2> QED BY <2>2, <2>3
<1> QED BY <1>2, <1>3, <1>4, <1>5, <1>6
=============================================================================
