-------------------------- MODULE OutboxRelayProofs --------------------------
(***************************************************************************)
(* Proofs about OutboxRelay, for every set of rows and relays, any number  *)
(* of crashes and retries, and whether or not answers are lost.            *)
(***************************************************************************)
EXTENDS OutboxRelay, TLAPS

\* A relay that has a positive answer in its hands has it for a key the log
\* stores: what makes PublishedIsLogged inductive.
AnswerIsLogged ==
    \A r \in Relays : call[r].answer = "ok" => log[call[r].row] # None

RelayInv == TypeOK /\ AnswerIsLogged /\ PublishedIsLogged

-----------------------------------------------------------------------------
\* The invariant holds with an empty outbox.
LEMMA RelayInitInv == Init => RelayInv
BY DEF Init, RelayInv, TypeOK, AnswerIsLogged, PublishedIsLogged, Row, NoCall

\* A step that stores nothing new in the log, publishes no row and gives no
\* relay a positive answer preserves the two facts about the log.
LEMMA QuietStep ==
    ASSUME RelayInv, TypeOK', log' = log,
           \A k \in Rows : outbox'[k].status = "PUBLISHED" => outbox[k].status = "PUBLISHED",
           \A r \in Relays : call'[r].answer = "ok" => call'[r] = call[r]
    PROVE  RelayInv'
BY DEF RelayInv, AnswerIsLogged, PublishedIsLogged

\* Inserting a row and the clock never write PUBLISHED.
LEMMA EnqueueInv ==
    ASSUME RelayInv, NEW k \in Rows, EnqueueTx(k) \/ Due(k) \/ LeaseExpires(k)
    PROVE  RelayInv'
<1>1. outbox \in [Rows -> Row] /\ outbox[k] \in Row
  BY DEF RelayInv, TypeOK
<1>2. PICK row \in Row :
         /\ outbox' = [outbox EXCEPT ![k] = row]
         /\ row.status = "PUBLISHED" => outbox[k].status = "PUBLISHED"
  <2>1. CASE EnqueueTx(k)
    <3>1. [outbox[k] EXCEPT !.status = "PENDING", !.due = TRUE] \in Row
      BY <1>1 DEF Row
    <3>2. outbox' = [outbox EXCEPT ![k] = [outbox[k] EXCEPT !.status = "PENDING", !.due = TRUE]]
      BY <2>1 DEF EnqueueTx
    <3> QED BY <1>1, <3>1, <3>2 DEF Row
  <2>2. CASE Due(k)
    <3>1. [outbox[k] EXCEPT !.due = TRUE] \in Row
      BY <1>1 DEF Row
    <3>2. outbox' = [outbox EXCEPT ![k] = [outbox[k] EXCEPT !.due = TRUE]]
      BY <2>2 DEF Due
    <3> QED BY <1>1, <3>1, <3>2 DEF Row
  <2>3. CASE LeaseExpires(k)
    <3>1. [outbox[k] EXCEPT !.leased = FALSE] \in Row
      BY <1>1 DEF Row
    <3>2. outbox' = [outbox EXCEPT ![k] = [outbox[k] EXCEPT !.leased = FALSE]]
      BY <2>3 DEF LeaseExpires
    <3> QED BY <1>1, <3>1, <3>2 DEF Row
  <2> QED BY <2>1, <2>2, <2>3
<1>3. UNCHANGED <<batch, call, wire, log, crashes>>
  BY DEF EnqueueTx, Due, LeaseExpires
<1>4. TypeOK'
  BY <1>1, <1>2, <1>3 DEF RelayInv, TypeOK
<1>5. \A x \in Rows : outbox'[x].status = "PUBLISHED" => outbox[x].status = "PUBLISHED"
  BY <1>1, <1>2
<1> QED BY <1>3, <1>4, <1>5, QuietStep

\* Claiming changes rows to PROCESSING and fills a batch.
LEMMA ClaimOutboxInv ==
    ASSUME RelayInv, NEW r \in Relays, NEW taken \in SUBSET Rows, ClaimOutbox(r, taken)
    PROVE  RelayInv'
<1>1. \A k \in Rows : outbox[k] \in Row
  BY DEF RelayInv, TypeOK
<1> DEFINE row(k) == [outbox[k] EXCEPT !.status = "PROCESSING", !.leased = TRUE]
           claimed == {[row |-> k, stamp |-> outbox[k].stamp] : k \in taken}
<1>2. \A k \in Rows : row(k) \in Row /\ row(k).status = "PROCESSING"
  BY <1>1 DEF Row
<1>3. claimed \in SUBSET Record
  BY <1>1 DEF Row, Record
<1>4. /\ outbox' = [k \in Rows |-> IF k \in taken THEN row(k) ELSE outbox[k]]
      /\ batch' = [batch EXCEPT ![r] = claimed]
      /\ UNCHANGED <<call, wire, log, crashes>>
  BY DEF ClaimOutbox
<1> HIDE DEF row, claimed
<1>5. TypeOK'
  BY <1>1, <1>2, <1>3, <1>4 DEF RelayInv, TypeOK
<1>6. \A x \in Rows : outbox'[x].status = "PUBLISHED" => outbox[x].status = "PUBLISHED"
  BY <1>2, <1>4
<1> QED BY <1>4, <1>5, <1>6, QuietStep

\* A request being sent, or not sent, is not answered "ok".
LEMMA SendInv ==
    ASSUME RelayInv, NEW r \in Relays, NEW x \in batch[r], Send(r, x) \/ NotSent(r, x)
    PROVE  RelayInv'
<1>1. x \in Record
  BY DEF RelayInv, TypeOK
<1>2. PICK a \in {"waiting", "error"} :
         call' = [call EXCEPT ![r] = [row |-> x.row, stamp |-> x.stamp, answer |-> a]]
  BY DEF Send, NotSent
<1>3. [row |-> x.row, stamp |-> x.stamp, answer |-> a] \in Call
  BY <1>1, <1>2 DEF Record, Call
<1>4. /\ batch' = [batch EXCEPT ![r] = @ \ {x}]
      /\ UNCHANGED <<outbox, log, crashes>>
      /\ wire' = wire \/ wire' = wire \cup {[relay |-> r, row |-> x.row, stamp |-> x.stamp]}
  BY DEF Send, NotSent
<1>5. [relay |-> r, row |-> x.row, stamp |-> x.stamp] \in Message
  BY <1>1 DEF Record, Message
<1>6. TypeOK'
  BY <1>2, <1>3, <1>4, <1>5 DEF RelayInv, TypeOK
<1>7. \A q \in Relays : call'[q].answer = "ok" => call'[q] = call[q]
  BY <1>2 DEF RelayInv, TypeOK
<1> QED BY <1>4, <1>6, <1>7, QuietStep

\* The step that creates a positive answer: after it the key is stored.
LEMMA ReceiveInv ==
    ASSUME RelayInv, NEW m \in wire, Receive(m)
    PROVE  RelayInv'
<1>1. m \in Message /\ m.row \in Rows /\ m.relay \in Relays /\ m.stamp \in Nat
  BY DEF RelayInv, TypeOK, Message
<1>2. log' \in [Rows -> Nat \cup {None}] /\ log'[m.row] # None
  BY <1>1, RelayAssumption DEF RelayInv, TypeOK, Receive
<1>3. \A k \in Rows : log[k] # None => log'[k] # None
  BY <1>1, <1>2 DEF RelayInv, TypeOK, Receive
<1>4. \A q \in Relays : \/ call'[q] = call[q]
                        \/ /\ q = m.relay /\ call'[q] \in Call /\ call'[q].row = m.row
  <2>1. CASE call[m.relay] = [row |-> m.row, stamp |-> m.stamp, answer |-> "waiting"]
    <3>1. PICK a \in {"ok", "error"} : call' = [call EXCEPT ![m.relay].answer = a]
      BY <2>1 DEF Receive
    <3>2. call'[m.relay] = [row |-> m.row, stamp |-> m.stamp, answer |-> a]
      BY <1>1, <2>1, <3>1 DEF RelayInv, TypeOK
    <3> QED BY <1>1, <3>1, <3>2 DEF RelayInv, TypeOK, Call
  <2>2. CASE call[m.relay] # [row |-> m.row, stamp |-> m.stamp, answer |-> "waiting"]
    BY <2>2 DEF Receive
  <2> QED BY <2>1, <2>2
<1>5. call' \in [Relays -> Call \cup {NoCall}]
  <2>1. \A q \in Relays : call'[q] \in Call \cup {NoCall}
    BY <1>4 DEF RelayInv, TypeOK
  <2>2. call' = [q \in Relays |-> call'[q]]
    BY DEF Receive, RelayInv, TypeOK
  <2> QED BY <2>1, <2>2
<1>6. TypeOK'
  BY <1>2, <1>5 DEF RelayInv, TypeOK, Receive
<1>7. AnswerIsLogged'
  <2> SUFFICES ASSUME NEW q \in Relays, call'[q].answer = "ok"
               PROVE  log'[call'[q].row] # None
    BY DEF AnswerIsLogged
  <2>1. CASE call'[q] = call[q]
    <3>1. call[q] \in Call
      BY <2>1 DEF RelayInv, TypeOK, NoCall
    <3> QED BY <1>3, <2>1, <3>1 DEF RelayInv, AnswerIsLogged, Call
  <2>2. CASE call'[q].row = m.row
    BY <1>2, <2>2
  <2> QED BY <1>4, <2>1, <2>2
<1>8. PublishedIsLogged'
  BY <1>3 DEF RelayInv, PublishedIsLogged, Receive
<1> QED BY <1>6, <1>7, <1>8 DEF RelayInv

\* A relay that gives up forgets its answer.
LEMMA TimesOutInv ==
    ASSUME RelayInv, NEW r \in Relays, TimesOut(r)
    PROVE  RelayInv'
<1>1. call[r] \in Call
  BY DEF RelayInv, TypeOK, TimesOut, NoCall
<1> DEFINE c == [call[r] EXCEPT !.answer = "error"]
<1>2. c \in Call /\ c.answer = "error"
  BY <1>1 DEF Call
<1>3. call' = [call EXCEPT ![r] = c] /\ UNCHANGED <<outbox, batch, wire, log, crashes>>
  BY DEF TimesOut
<1> HIDE DEF c
<1>4. TypeOK'
  BY <1>2, <1>3 DEF RelayInv, TypeOK
<1>5. \A q \in Relays : call'[q].answer = "ok" => call'[q] = call[q]
  BY <1>2, <1>3 DEF RelayInv, TypeOK
<1> QED BY <1>3, <1>4, <1>5, QuietStep

\* The step that publishes: the row's key is stored because the answer was
\* positive.
LEMMA MarkInv ==
    ASSUME RelayInv, NEW r \in Relays, MarkOutboxPublished(r)
    PROVE  RelayInv'
<1> DEFINE k == call[r].row
           row == [outbox[k] EXCEPT !.status = "PUBLISHED", !.leased = FALSE]
<1>1. call[r] \in Call /\ k \in Rows /\ log[k] # None
  BY DEF RelayInv, TypeOK, AnswerIsLogged, MarkOutboxPublished, NoCall, Call
<1>2. outbox[k] \in Row /\ row \in Row
  <2>1. outbox[k] \in Row
    BY <1>1 DEF RelayInv, TypeOK
  <2> QED BY <2>1 DEF Row
<1>3. \/ outbox' = [outbox EXCEPT ![k] = row]
      \/ outbox' = outbox
  BY DEF MarkOutboxPublished
<1>4. /\ call' = [call EXCEPT ![r] = NoCall]
      /\ batch' = batch \/ batch' = [batch EXCEPT ![r] = {}]
      /\ UNCHANGED <<wire, log, crashes>>
  BY DEF MarkOutboxPublished
<1> HIDE DEF k, row
<1>5. TypeOK'
  BY <1>1, <1>2, <1>3, <1>4 DEF RelayInv, TypeOK
<1>6. AnswerIsLogged'
  BY <1>4 DEF RelayInv, TypeOK, AnswerIsLogged, NoCall
<1>7. PublishedIsLogged'
  BY <1>1, <1>3, <1>4 DEF RelayInv, TypeOK, PublishedIsLogged
<1> QED BY <1>5, <1>6, <1>7 DEF RelayInv

\* Putting a row back leaves PUBLISHED rows alone.
LEMMA FailOutboxInv ==
    ASSUME RelayInv, NEW r \in Relays, FailOutbox(r)
    PROVE  RelayInv'
<1> DEFINE k == call[r].row
           row == [status |-> "PENDING", stamp |-> outbox[k].stamp + 1,
                   due |-> FALSE, leased |-> FALSE]
<1>1. call[r] \in Call /\ k \in Rows
  BY DEF RelayInv, TypeOK, FailOutbox, NoCall, Call
<1>2. row \in Row /\ row.status = "PENDING"
  BY <1>1 DEF RelayInv, TypeOK, Row
<1>3. \/ outbox' = [outbox EXCEPT ![k] = row]
      \/ outbox' = outbox
  BY DEF FailOutbox
<1>4. /\ call' = [call EXCEPT ![r] = NoCall]
      /\ UNCHANGED <<batch, wire, log, crashes>>
  BY DEF FailOutbox
<1> HIDE DEF k, row
<1>5. TypeOK'
  BY <1>1, <1>2, <1>3, <1>4 DEF RelayInv, TypeOK
<1>6. \A x \in Rows : outbox'[x].status = "PUBLISHED" => outbox[x].status = "PUBLISHED"
  BY <1>1, <1>2, <1>3 DEF RelayInv, TypeOK
<1>7. \A q \in Relays : call'[q].answer = "ok" => call'[q] = call[q]
  BY <1>4 DEF RelayInv, TypeOK, NoCall
<1> QED BY <1>4, <1>5, <1>6, <1>7, QuietStep

\* A crash loses memory only.
LEMMA CrashInv ==
    ASSUME RelayInv, NEW r \in Relays, Crash(r)
    PROVE  RelayInv'
<1>1. TypeOK'
  BY DEF Crash, RelayInv, TypeOK
<1>2. \A q \in Relays : call'[q].answer = "ok" => call'[q] = call[q]
  BY DEF Crash, RelayInv, TypeOK, NoCall
<1> QED BY <1>1, <1>2, QuietStep DEF Crash

\* Every step of relays, service and clock preserves the invariant.
LEMMA RelayStepInv == RelayInv /\ [Next]_relayVars => RelayInv'
<1> SUFFICES ASSUME RelayInv, [Next]_relayVars PROVE RelayInv'
  OBVIOUS
<1>1. CASE UNCHANGED relayVars
  BY <1>1 DEF relayVars, RelayInv, TypeOK, AnswerIsLogged, PublishedIsLogged
<1>2. CASE Next
  BY <1>2, EnqueueInv, ClaimOutboxInv, SendInv, ReceiveInv, TimesOutInv, MarkInv,
     FailOutboxInv, CrashInv DEF Next, Relay
<1> QED BY <1>1, <1>2

\* The invariant of the relay holds in every reachable state.
THEOREM RelayInvariant == Spec => []RelayInv
<1> QED BY RelayInitInv, RelayStepInv, PTL DEF Spec

\* Every reachable state of the outbox, the relays and the wire is well typed.
THEOREM RelayTypeCorrect == Spec => []TypeOK
BY RelayInvariant, PTL DEF RelayInv

\* A row marked PUBLISHED is in the log: no lost or late answer, expired lease,
\* competing relay or crash makes the producer forget an event that was not
\* stored.
THEOREM PublishedRowsAreLogged == Spec => []PublishedIsLogged
BY RelayInvariant, PTL DEF RelayInv

-----------------------------------------------------------------------------
\* No step, however late its relay, takes a row out of PUBLISHED.
LEMMA PublishedStays ==
    ASSUME RelayInv, [Next]_relayVars, NEW k \in Rows, outbox[k].status = "PUBLISHED"
    PROVE  outbox'[k].status = "PUBLISHED"
<1>1. outbox \in [Rows -> Row]
  BY DEF RelayInv, TypeOK
<1>2. CASE UNCHANGED outbox
  BY <1>2
<1>3. ASSUME NEW x \in Rows, EnqueueTx(x) \/ Due(x) \/ LeaseExpires(x)
      PROVE  outbox'[k].status = "PUBLISHED"
  BY <1>1, <1>3 DEF EnqueueTx, Due, LeaseExpires, Row
<1>4. ASSUME NEW r \in Relays, NEW taken \in SUBSET Rows, ClaimOutbox(r, taken)
      PROVE  outbox'[k].status = "PUBLISHED"
  BY <1>4 DEF ClaimOutbox, Claimable
<1>5. ASSUME NEW r \in Relays, MarkOutboxPublished(r) \/ FailOutbox(r)
      PROVE  outbox'[k].status = "PUBLISHED"
  BY <1>1, <1>5 DEF MarkOutboxPublished, FailOutbox, Row
<1>6. ASSUME NEW r \in Relays, TimesOut(r) \/ Crash(r) \/ \E x \in batch[r] : Send(r, x) \/ NotSent(r, x)
      PROVE  UNCHANGED outbox
  BY <1>6 DEF TimesOut, Crash, Send, NotSent
<1>7. ASSUME NEW m \in wire, Receive(m) PROVE UNCHANGED outbox
  BY <1>7 DEF Receive
<1> QED BY <1>2, <1>3, <1>4, <1>5, <1>6, <1>7 DEF Next, Relay, relayVars

\* PUBLISHED is final, whatever a stale relay or a late answer does.
THEOREM PublishedRowsAreFinal == Spec => PublishedIsFinal
<1>1. RelayInv /\ [Next]_relayVars =>
        [\A k \in Rows : outbox[k].status = "PUBLISHED"
           => outbox'[k].status = "PUBLISHED"]_relayVars
  BY PublishedStays
<1> QED BY <1>1, RelayInvariant, PTL DEF Spec, PublishedIsFinal

-----------------------------------------------------------------------------
\* Whatever a relay holds, the wire carries or the log stores of a row was taken
\* from the row after its insert committed, with one of the stamps it has had.
FromOutbox(x) == outbox[x.row].status # "ABSENT" /\ x.stamp <= MaxStamp

OriginInv ==
    /\ \A k \in Rows : outbox[k].stamp <= MaxStamp
    /\ \A k \in Rows : log[k] # None => outbox[k].status # "ABSENT"
    /\ \A r \in Relays : call[r] # NoCall => FromOutbox(call[r])
    /\ \A r \in Relays : \A x \in batch[r] : FromOutbox(x)
    /\ \A m \in wire : FromOutbox(m)

\* A row's insert is never undone, and a row is put back MaxStamp times at most.
LEMMA RowsStay ==
    ASSUME RelayInv, OriginInv, [Next]_relayVars, NEW k \in Rows
    PROVE  /\ outbox[k].status # "ABSENT" => outbox'[k].status # "ABSENT"
           /\ outbox'[k].stamp <= MaxStamp
<1> DEFINE Goal == /\ outbox[k].status # "ABSENT" => outbox'[k].status # "ABSENT"
                   /\ outbox'[k].stamp <= MaxStamp
<1>1. /\ outbox \in [Rows -> Row] /\ outbox[k] \in Row /\ outbox[k].stamp <= MaxStamp
      /\ MaxStamp \in Nat
  BY RelayAssumption DEF RelayInv, TypeOK, OriginInv
<1>2. ASSUME UNCHANGED outbox PROVE Goal
  BY <1>1, <1>2
<1>3. ASSUME NEW x \in Rows, EnqueueTx(x) \/ Due(x) \/ LeaseExpires(x) PROVE Goal
  BY <1>1, <1>3 DEF EnqueueTx, Due, LeaseExpires, Row
<1>4. ASSUME NEW r \in Relays, NEW taken \in SUBSET Rows, ClaimOutbox(r, taken) PROVE Goal
  BY <1>1, <1>4 DEF ClaimOutbox, Row
<1>5. ASSUME NEW r \in Relays, MarkOutboxPublished(r) PROVE Goal
  BY <1>1, <1>5 DEF MarkOutboxPublished, Row
<1>6. ASSUME NEW r \in Relays, FailOutbox(r) PROVE Goal
  BY <1>1, <1>6 DEF FailOutbox, Row
<1>7. ASSUME Next PROVE Goal
  <2>1. \A r \in Relays : TimesOut(r) \/ Crash(r) => UNCHANGED outbox
    BY DEF TimesOut, Crash
  <2>2. \A r \in Relays : \A x \in batch[r] : Send(r, x) \/ NotSent(r, x) => UNCHANGED outbox
    BY DEF Send, NotSent
  <2>3. \A m \in wire : Receive(m) => UNCHANGED outbox
    BY DEF Receive
  <2> HIDE DEF Goal
  <2> QED BY <1>2, <1>3, <1>4, <1>5, <1>6, <1>7, <2>1, <2>2, <2>3 DEF Next, Relay
<1> QED BY <1>2, <1>7 DEF relayVars

\* A relay that holds less, or answers the call it is making, invents no origin.
LEMMA HoldsNothingNew ==
    ASSUME RelayInv, OriginInv, [Next]_relayVars, log' = log, wire' \subseteq wire,
           \A r \in Relays : batch'[r] \subseteq batch[r],
           \A r \in Relays : \/ call'[r] \in {call[r], NoCall}
                             \/ /\ call[r] # NoCall
                                /\ call'[r].row = call[r].row /\ call'[r].stamp = call[r].stamp
    PROVE  OriginInv'
<1>1. \A k \in Rows : /\ outbox[k].status # "ABSENT" => outbox'[k].status # "ABSENT"
                      /\ outbox'[k].stamp <= MaxStamp
  BY RowsStay
<1>2. \A r \in Relays : \A x \in batch[r] : x.row \in Rows
  BY DEF RelayInv, TypeOK, Record
<1>3. \A r \in Relays : call[r] # NoCall => call[r].row \in Rows
  BY DEF RelayInv, TypeOK, Call
<1>4. \A m \in wire : m.row \in Rows
  BY DEF RelayInv, TypeOK, Message
<1>5. \A r \in Relays : call'[r] # NoCall => outbox'[call'[r].row].status # "ABSENT" /\ call'[r].stamp <= MaxStamp
  BY <1>1, <1>3 DEF OriginInv, FromOutbox
<1>6. \A r \in Relays : \A x \in batch'[r] : outbox'[x.row].status # "ABSENT" /\ x.stamp <= MaxStamp
  BY <1>1, <1>2 DEF OriginInv, FromOutbox
<1>7. \A m \in wire' : outbox'[m.row].status # "ABSENT" /\ m.stamp <= MaxStamp
  BY <1>1, <1>4 DEF OriginInv, FromOutbox
<1>8. NoCall' = NoCall
  BY DEF NoCall
<1> QED BY <1>1, <1>5, <1>6, <1>7, <1>8 DEF OriginInv, FromOutbox

\* The steps that take a record from the outbox, put it on the wire or store it
\* pass its origin on; all others hold nothing new.
LEMMA OriginStepInv == RelayInv /\ OriginInv /\ [Next]_relayVars => OriginInv'
<1> SUFFICES ASSUME RelayInv, OriginInv, [Next]_relayVars PROVE OriginInv'
  OBVIOUS
<1>1. \A k \in Rows : /\ outbox[k].status # "ABSENT" => outbox'[k].status # "ABSENT"
                      /\ outbox'[k].stamp <= MaxStamp
  BY RowsStay
<1>2. CASE UNCHANGED relayVars
  BY <1>2, HoldsNothingNew DEF relayVars
<1>3. ASSUME NEW k \in Rows, EnqueueTx(k) \/ Due(k) \/ LeaseExpires(k) PROVE OriginInv'
  BY <1>3, HoldsNothingNew DEF EnqueueTx, Due, LeaseExpires
<1>4. ASSUME NEW r \in Relays, MarkOutboxPublished(r) \/ FailOutbox(r) \/ Crash(r) PROVE OriginInv'
  <2>1. \A q \in Relays : batch'[q] \subseteq batch[q]
    BY <1>4 DEF MarkOutboxPublished, FailOutbox, Crash, RelayInv, TypeOK
  <2>2. \A q \in Relays : call'[q] \in {call[q], NoCall}
    BY <1>4 DEF MarkOutboxPublished, FailOutbox, Crash, RelayInv, TypeOK
  <2> QED BY <1>4, <2>1, <2>2, HoldsNothingNew DEF MarkOutboxPublished, FailOutbox, Crash
<1>5. ASSUME NEW r \in Relays, TimesOut(r) PROVE OriginInv'
  <2>1. call[r] # NoCall
    BY <1>5 DEF TimesOut, NoCall
  <2>2. call[r] \in Call
    BY <2>1 DEF RelayInv, TypeOK
  <2>3. call'[r].row = call[r].row /\ call'[r].stamp = call[r].stamp
    BY <1>5, <2>2 DEF TimesOut, RelayInv, TypeOK, Call
  <2>4. \A q \in Relays \ {r} : call'[q] = call[q]
    BY <1>5 DEF TimesOut, RelayInv, TypeOK
  <2> QED BY <1>5, <2>1, <2>3, <2>4, HoldsNothingNew DEF TimesOut
<1>6. ASSUME NEW r \in Relays, NEW taken \in SUBSET Rows, ClaimOutbox(r, taken) PROVE OriginInv'
  <2>1. /\ outbox' = [k \in Rows |-> IF k \in taken
                      THEN [outbox[k] EXCEPT !.status = "PROCESSING", !.leased = TRUE] ELSE outbox[k]]
        /\ batch' = [batch EXCEPT ![r] = {[row |-> k, stamp |-> outbox[k].stamp] : k \in taken}]
        /\ UNCHANGED <<call, wire, log>>
    BY <1>6 DEF ClaimOutbox
  <2>2. \A k \in taken : outbox'[k].status # "ABSENT" /\ outbox[k].stamp <= MaxStamp
    BY <2>1 DEF RelayInv, TypeOK, Row, OriginInv
  <2>3. \A x \in batch'[r] : outbox'[x.row].status # "ABSENT" /\ x.stamp <= MaxStamp
    <3>1. batch'[r] = {[row |-> k, stamp |-> outbox[k].stamp] : k \in taken}
      BY <2>1 DEF RelayInv, TypeOK
    <3> QED BY <2>2, <3>1
  <2>4. \A q \in Relays \ {r} : batch'[q] = batch[q]
    BY <2>1 DEF RelayInv, TypeOK
  <2>5. \A q \in Relays : \A x \in batch[q] : x.row \in Rows
    BY DEF RelayInv, TypeOK, Record
  <2>6. \A q \in Relays : call[q] # NoCall => call[q].row \in Rows
    BY DEF RelayInv, TypeOK, Call
  <2>7. \A m \in wire : m.row \in Rows
    BY DEF RelayInv, TypeOK, Message
  <2>8. NoCall' = NoCall
    BY DEF NoCall
  <2> QED BY <1>1, <2>1, <2>3, <2>4, <2>5, <2>6, <2>7, <2>8 DEF OriginInv, FromOutbox
<1>7. ASSUME NEW r \in Relays, NEW x \in batch[r], Send(r, x) \/ NotSent(r, x) PROVE OriginInv'
  <2>1. x.row \in Rows /\ FromOutbox(x)
    BY DEF RelayInv, TypeOK, Record, OriginInv
  <2>2. UNCHANGED <<outbox, log>>
    BY <1>7 DEF Send, NotSent
  <2>3. \A q \in Relays : batch'[q] \subseteq batch[q]
    BY <1>7 DEF Send, NotSent, RelayInv, TypeOK
  <2>4. \A q \in Relays : call'[q] = call[q] \/ (call'[q].row = x.row /\ call'[q].stamp = x.stamp)
    BY <1>7 DEF Send, NotSent, RelayInv, TypeOK
  <2>5. \A m \in wire' : m \in wire \/ (m.row = x.row /\ m.stamp = x.stamp)
    BY <1>7 DEF Send, NotSent
  <2>6. NoCall' = NoCall
    BY DEF NoCall
  <2> QED BY <2>1, <2>2, <2>3, <2>4, <2>5, <2>6 DEF OriginInv, FromOutbox
<1>8. ASSUME NEW m \in wire, Receive(m) PROVE OriginInv'
  <2>1. m.row \in Rows /\ m.relay \in Relays /\ FromOutbox(m)
    BY DEF RelayInv, TypeOK, Message, OriginInv
  <2>2. UNCHANGED <<outbox, batch>> /\ wire' \subseteq wire
    BY <1>8 DEF Receive
  <2>3. \A k \in Rows : log'[k] # None => log[k] # None \/ k = m.row
    BY <1>8 DEF Receive, RelayInv, TypeOK
  <2>4. \A q \in Relays : \/ call'[q] = call[q]
                          \/ call'[q].row = m.row /\ call'[q].stamp = m.stamp
    <3>1. CASE call[m.relay] = [row |-> m.row, stamp |-> m.stamp, answer |-> "waiting"]
      BY <1>8, <2>1, <3>1 DEF Receive, RelayInv, TypeOK
    <3>2. CASE call[m.relay] # [row |-> m.row, stamp |-> m.stamp, answer |-> "waiting"]
      BY <1>8, <3>2 DEF Receive
    <3> QED BY <3>1, <3>2
  <2>5. NoCall' = NoCall
    BY DEF NoCall
  <2> QED BY <2>1, <2>2, <2>3, <2>4, <2>5 DEF OriginInv, FromOutbox
<1> QED BY <1>2, <1>3, <1>4, <1>5, <1>6, <1>7, <1>8 DEF Next, Relay

\* Every request on the wire, and so every event the log stores, is about a row
\* whose insert committed with its business transaction (outbox.go:66).
THEOREM RequestsComeFromTheOutbox == Spec => []OriginInv
<1>1. Init => OriginInv
  BY RelayAssumption DEF Init, OriginInv, NoCall
<1> QED BY <1>1, OriginStepInv, RelayInvariant, PTL DEF Spec
=============================================================================
