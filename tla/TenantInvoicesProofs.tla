------------------------- MODULE TenantInvoicesProofs -------------------------
(***************************************************************************)
(* Proofs about TenantInvoices, for every set of ids, sources, request     *)
(* keys, contents, policies and workers.                                   *)
(***************************************************************************)
EXTENDS TenantInvoices, TLAPS

\* Ids are primary keys, and an id no invoice has carries no event.
IdsAreKeys == \A x, y \in invoices : x.id = y.id => x = y

FreshIdsAreClean == \A i \in Unused : ready[i] = 0 /\ i \notin enqueued

\* Invoices of a source are created final.
AutomatedAreReady ==
    \A x \in invoices : x.source # None => x.status = "READY_FOR_ISSUE"

\* What a job carries from its earlier steps to its commit.
JobsArePrepared ==
    \A w \in Workers :
        /\ job[w].op = "finalize" /\ job[w].pc = "commit" => job[w].policy # None
        /\ job[w].op = "automate" /\ job[w].pc \in {"recheck", "insert"} => job[w].policy # None
        /\ job[w].op = "automate" /\ job[w].pc # "error" => job[w].content \in Complete

\* The part of the invariant that speaks of stored invoices and their events.
StoreInv ==
    /\ invoices \subseteq Invoice /\ ready \in [Ids -> Nat] /\ enqueued \subseteq Ids
    /\ IdsAreKeys /\ FreshIdsAreClean /\ AutomatedAreReady
    /\ OneInvoicePerSource /\ ReadyEventExactlyOnce /\ ReadyIsComplete

JobTypeOK ==
    /\ policy \in Policies
    /\ job \in [Workers -> FinalizeJob \cup IntakeJob \cup {Idle}]

InvoiceInv == StoreInv /\ JobTypeOK /\ JobsArePrepared /\ SuccessMeansInvoiced

store == <<invoices, ready, enqueued>>

-----------------------------------------------------------------------------
\* A step that leaves the store alone.
LEMMA StoreUnchanged == StoreInv /\ UNCHANGED store => StoreInv'
BY DEF StoreInv, store, IdsAreKeys, FreshIdsAreClean, AutomatedAreReady, Unused,
       OneInvoicePerSource, ReadyEventExactlyOnce, ReadyIsComplete

\* An invoice with a new id is added: a draft without events, or a final one
\* with its events and for a source that has none.
LEMMA AddInvoice ==
    ASSUME StoreInv, NEW x \in Invoice, x.id \in Unused,
           invoices' = invoices \cup {x},
           \/ /\ x.status = "DRAFT" /\ x.source = None
              /\ UNCHANGED <<ready, enqueued>>
           \/ /\ x.status = "READY_FOR_ISSUE" /\ WriteReady(x)
              /\ \A y \in invoices : y.source # x.source
              /\ x.content \in Complete /\ x.policy # None
    PROVE  StoreInv'
<1>1. x.id \in Ids /\ \A y \in invoices : y.id # x.id
  BY DEF Unused
<1>2. \A y \in invoices : y.id \in Ids /\ y \in Invoice
  BY DEF StoreInv, Invoice
<1>3. ready[x.id] = 0 /\ x.id \notin enqueued
  BY DEF StoreInv, FreshIdsAreClean
<1>4. invoices' \subseteq Invoice /\ ready' \in [Ids -> Nat] /\ enqueued' \subseteq Ids
  BY <1>1, <1>3 DEF StoreInv, WriteReady
<1>5. IdsAreKeys'
  BY <1>1 DEF StoreInv, IdsAreKeys
<1>6. \A i \in Ids : i # x.id => ready'[i] = ready[i] /\ (i \in enqueued' <=> i \in enqueued)
  BY DEF WriteReady, StoreInv
<1>7. FreshIdsAreClean'
  BY <1>6 DEF StoreInv, FreshIdsAreClean, Unused
<1>8. AutomatedAreReady'
  BY DEF StoreInv, AutomatedAreReady
<1>9. OneInvoicePerSource'
  BY DEF StoreInv, OneInvoicePerSource
<1>10. ReadyEventExactlyOnce'
  <2>1. ready'[x.id] = IF x.status = "READY_FOR_ISSUE" THEN 1 ELSE 0
    BY <1>1, <1>3 DEF StoreInv, WriteReady
  <2>2. x.id \in enqueued' <=> x.status = "READY_FOR_ISSUE"
    BY <1>3 DEF WriteReady
  <2>3. \A y \in invoices : ready'[y.id] = ready[y.id] /\ (y.id \in enqueued' <=> y.id \in enqueued)
    BY <1>1, <1>2, <1>6
  <2> QED BY <2>1, <2>2, <2>3 DEF StoreInv, ReadyEventExactlyOnce
<1>11. ReadyIsComplete'
  BY DEF StoreInv, ReadyIsComplete
<1> QED BY <1>4, <1>5, <1>7, <1>8, <1>9, <1>10, <1>11 DEF StoreInv

\* A manual draft is replaced by a newer version of itself: still a draft, or
\* final, complete and with its events.
LEMMA ReplaceDraft ==
    ASSUME StoreInv, NEW x \in invoices, NEW y \in Invoice,
           x.status = "DRAFT", x.source = None, y.source = None, y.id = x.id,
           invoices' = (invoices \ {x}) \cup {y},
           \/ /\ y.status = "DRAFT"
              /\ UNCHANGED <<ready, enqueued>>
           \/ /\ y.status = "READY_FOR_ISSUE" /\ WriteReady(x)
              /\ y.content \in Complete /\ y.policy # None
    PROVE  StoreInv'
<1>1. x.id \in Ids /\ ready[x.id] = 0 /\ x.id \notin enqueued
  BY DEF StoreInv, Invoice, ReadyEventExactlyOnce
<1>2. \A z \in invoices \ {x} : z.id \in Ids /\ z.id # x.id
  BY DEF StoreInv, IdsAreKeys, Invoice
<1>3. invoices' \subseteq Invoice /\ ready' \in [Ids -> Nat] /\ enqueued' \subseteq Ids
  BY <1>1 DEF StoreInv, WriteReady
<1>4. IdsAreKeys'
  BY <1>2 DEF StoreInv, IdsAreKeys
<1>5. \A i \in Ids : i # x.id => ready'[i] = ready[i] /\ (i \in enqueued' <=> i \in enqueued)
  BY DEF WriteReady, StoreInv
<1>6. Unused' = Unused
  BY DEF Unused
<1>7. FreshIdsAreClean'
  BY <1>5, <1>6 DEF StoreInv, FreshIdsAreClean, Unused
<1>8. AutomatedAreReady'
  BY DEF StoreInv, AutomatedAreReady
<1>9. OneInvoicePerSource'
  BY DEF StoreInv, OneInvoicePerSource
<1>10. ReadyEventExactlyOnce'
  <2>1. ready'[y.id] = IF y.status = "READY_FOR_ISSUE" THEN 1 ELSE 0
    BY <1>1 DEF StoreInv, WriteReady
  <2>2. y.id \in enqueued' <=> y.status = "READY_FOR_ISSUE"
    BY <1>1 DEF WriteReady
  <2>3. \A z \in invoices \ {x} :
           ready'[z.id] = ready[z.id] /\ (z.id \in enqueued' <=> z.id \in enqueued)
    BY <1>2, <1>5
  <2> QED BY <2>1, <2>2, <2>3 DEF StoreInv, ReadyEventExactlyOnce
<1>11. ReadyIsComplete'
  BY DEF StoreInv, ReadyIsComplete
<1> QED BY <1>3, <1>4, <1>7, <1>8, <1>9, <1>10, <1>11 DEF StoreInv

-----------------------------------------------------------------------------
\* A step that leaves the jobs alone and keeps every final invoice preserves
\* what the jobs rely on.
LEMMA JobsUnchanged ==
    ASSUME InvoiceInv, UNCHANGED job, policy' \in Policies,
           \A x \in invoices : x.status = "READY_FOR_ISSUE" => x \in invoices'
    PROVE  JobTypeOK' /\ JobsArePrepared' /\ SuccessMeansInvoiced'
BY DEF InvoiceInv, JobTypeOK, JobsArePrepared, SuccessMeansInvoiced

\* A manual draft takes an unused id and key, so no unique fact breaks.
LEMMA CreateInv ==
    ASSUME InvoiceInv, NEW id \in Ids, NEW k \in Keys, NEW c \in Contents,
           createManualDraft(id, k, c)
    PROVE  InvoiceInv'
<1> DEFINE x == [id |-> id, source |-> None, key |-> k, hash |-> c, content |-> c,
                 status |-> "DRAFT", policy |-> None]
<1>1. x \in Invoice /\ x.id \in Unused /\ x.status = "DRAFT" /\ x.source = None
  BY DEF createManualDraft, Invoice, RequestKeys
<1>2. invoices' = invoices \cup {x} /\ UNCHANGED <<ready, enqueued, policy, job>>
  BY DEF createManualDraft
<1> HIDE DEF x
<1>3. StoreInv'
  BY <1>1, <1>2, AddInvoice DEF InvoiceInv
<1>4. JobTypeOK' /\ JobsArePrepared' /\ SuccessMeansInvoiced'
  BY <1>2, JobsUnchanged DEF InvoiceInv, JobTypeOK
<1> QED BY <1>3, <1>4 DEF InvoiceInv

\* An edit replaces the content of a draft and announces nothing.
LEMMA UpdateInv ==
    ASSUME InvoiceInv, NEW x \in invoices, NEW c \in Contents, updateManualDraft(x, c)
    PROVE  InvoiceInv'
<1> DEFINE y == [x EXCEPT !.content = c]
<1>1. x \in Invoice /\ x.status = "DRAFT" /\ x.source = None
  BY DEF InvoiceInv, StoreInv, updateManualDraft, Manual
<1>2. y \in Invoice /\ y.source = None /\ y.id = x.id /\ y.status = "DRAFT"
  BY <1>1 DEF Invoice
<1>3. invoices' = (invoices \ {x}) \cup {y} /\ UNCHANGED <<ready, enqueued, policy, job>>
  BY DEF updateManualDraft
<1> HIDE DEF y
<1>4. StoreInv'
  BY <1>1, <1>2, <1>3, ReplaceDraft DEF InvoiceInv
<1>5. JobTypeOK' /\ JobsArePrepared' /\ SuccessMeansInvoiced'
  BY <1>1, <1>3, JobsUnchanged DEF InvoiceInv, JobTypeOK
<1> QED BY <1>4, <1>5 DEF InvoiceInv

\* Changing the policy leaves invoices, and policies already read, alone.
LEMMA PolicyInv ==
    ASSUME InvoiceInv, NEW p \in Policies, savePolicy(p)
    PROVE  InvoiceInv'
<1>1. StoreInv'
  BY StoreUnchanged DEF InvoiceInv, savePolicy, store
<1>2. JobTypeOK' /\ JobsArePrepared' /\ SuccessMeansInvoiced'
  BY JobsUnchanged DEF savePolicy
<1> QED BY <1>1, <1>2 DEF InvoiceInv

\* Worker w moves to job j, and the store keeps every final invoice.
LEMMA JobStep ==
    ASSUME InvoiceInv, NEW w \in Workers, NEW j \in FinalizeJob \cup IntakeJob \cup {Idle},
           job' = [job EXCEPT ![w] = j], policy' = policy,
           \A x \in invoices : x.status = "READY_FOR_ISSUE" => x \in invoices',
           j.op = "finalize" /\ j.pc = "commit" => j.policy # None,
           j.op = "automate" /\ j.pc \in {"recheck", "insert"} => j.policy # None,
           j.op = "automate" /\ j.pc # "error" => j.content \in Complete,
           j.op = "automate" /\ j.pc = "ok" =>
              \E x \in invoices' : x.source = j.source /\ x.hash = j.content
                                   /\ x.status = "READY_FOR_ISSUE"
    PROVE  JobTypeOK' /\ JobsArePrepared' /\ SuccessMeansInvoiced'
<1>1. \A v \in Workers : job'[v] = IF v = w THEN j ELSE job[v]
  BY DEF InvoiceInv, JobTypeOK
<1>2. JobTypeOK'
  BY DEF InvoiceInv, JobTypeOK
<1>3. JobsArePrepared'
  BY <1>1 DEF InvoiceInv, JobsArePrepared
<1>4. SuccessMeansInvoiced'
  BY <1>1 DEF InvoiceInv, SuccessMeansInvoiced
<1> QED BY <1>2, <1>3, <1>4

\* Jobs start and end without touching the store.
LEMMA StartInv ==
    ASSUME InvoiceInv, NEW w \in Workers,
           \/ Release(w)
           \/ \E x \in invoices : StartFinalize(w, x)
           \/ \E s \in Sources, c \in Contents : StartIntake(w, s, c)
    PROVE  InvoiceInv'
<1>1. UNCHANGED <<invoices, ready, enqueued, policy>>
  BY DEF Release, StartFinalize, StartIntake
<1>2. StoreInv'
  BY <1>1, StoreUnchanged DEF InvoiceInv, store
<1>3. PICK j : /\ job' = [job EXCEPT ![w] = j]
               /\ \/ j = Idle
                  \/ \E x \in invoices : j = [op |-> "finalize", id |-> x.id, policy |-> None,
                                              pc |-> "policy"]
                  \/ \E s \in Sources, c \in Contents :
                        j = [op |-> "automate", source |-> s, content |-> c, policy |-> None,
                             pc |-> IF c \in Complete THEN "lookup" ELSE "error"]
  BY DEF Release, StartFinalize, StartIntake
<1>4. \A x \in invoices : x.id \in Ids
  BY DEF InvoiceInv, StoreInv, Invoice
<1>5. JobTypeOK' /\ JobsArePrepared' /\ SuccessMeansInvoiced'
  <2>1. CASE j = Idle
    BY <1>1, <1>3, <2>1, JobStep DEF Idle
  <2>2. ASSUME NEW x \in invoices,
               j = [op |-> "finalize", id |-> x.id, policy |-> None, pc |-> "policy"]
        PROVE  JobTypeOK' /\ JobsArePrepared' /\ SuccessMeansInvoiced'
    <3>1. j \in FinalizeJob /\ j.op = "finalize" /\ j.pc = "policy"
      BY <1>4, <2>2 DEF FinalizeJob
    <3> QED BY <1>1, <1>3, <3>1, JobStep
  <2>3. ASSUME NEW s \in Sources, NEW c \in Contents,
               j = [op |-> "automate", source |-> s, content |-> c, policy |-> None,
                    pc |-> IF c \in Complete THEN "lookup" ELSE "error"]
        PROVE  JobTypeOK' /\ JobsArePrepared' /\ SuccessMeansInvoiced'
    <3>1. /\ j \in IntakeJob /\ j.op = "automate" /\ j.pc \in {"lookup", "error"}
          /\ j.pc # "error" => j.content \in Complete
      BY <2>3 DEF IntakeJob
    <3> QED BY <1>1, <1>3, <3>1, JobStep
  <2> QED BY <1>3, <2>1, <2>2, <2>3
<1> QED BY <1>2, <1>5 DEF InvoiceInv

\* After its second step a job carries a policy.
LEMMA ReadPolicyInv ==
    ASSUME InvoiceInv, NEW w \in Workers, ReadPolicy(w)
    PROVE  InvoiceInv'
<1>1. StoreInv'
  BY StoreUnchanged DEF InvoiceInv, ReadPolicy, store
<1>2. policy \in Policies /\ policy # None
  BY InvoiceAssumption DEF InvoiceInv, JobTypeOK
<1> DEFINE pc == IF job[w].op = "finalize" THEN "commit" ELSE "recheck"
           j == [job[w] EXCEPT !.policy = policy, !.pc = pc]
<1>3. job' = [job EXCEPT ![w] = j]
  BY DEF ReadPolicy
<1>4. CASE job[w] \in FinalizeJob
  <2>1. j \in FinalizeJob /\ j.op = "finalize" /\ j.policy # None
    BY <1>2, <1>4 DEF FinalizeJob
  <2>2. invoices' = invoices /\ policy' = policy
    BY DEF ReadPolicy
  <2> HIDE DEF j
  <2>3. JobTypeOK' /\ JobsArePrepared' /\ SuccessMeansInvoiced'
    BY <1>3, <2>1, <2>2, JobStep
  <2> QED BY <1>1, <2>3 DEF InvoiceInv
<1>5. CASE job[w] \in IntakeJob
  <2>1. /\ j \in IntakeJob /\ j.op = "automate" /\ j.policy # None /\ j.pc = "recheck"
        /\ j.content = job[w].content
    BY <1>2, <1>5 DEF IntakeJob
  <2>2. job[w].content \in Complete
    BY <1>5 DEF InvoiceInv, JobsArePrepared, IntakeJob, ReadPolicy
  <2>3. invoices' = invoices /\ policy' = policy
    BY DEF ReadPolicy
  <2> HIDE DEF j
  <2>4. JobTypeOK' /\ JobsArePrepared' /\ SuccessMeansInvoiced'
    BY <1>3, <2>1, <2>2, <2>3, JobStep
  <2> QED BY <1>1, <2>4 DEF InvoiceInv
<1> QED BY <1>4, <1>5 DEF InvoiceInv, JobTypeOK, ReadPolicy

\* The transaction that finalizes a draft, or finds it is no draft any more.
LEMMA FinalizeInv ==
    ASSUME InvoiceInv, NEW w \in Workers, FinalizeCommit(w)
    PROVE  InvoiceInv'
<1>1. PICK x \in invoices :
         /\ x.id = job[w].id
         /\ IF x.status = "DRAFT" /\ x.content \in Complete
            THEN /\ invoices' = (invoices \ {x}) \cup
                        {[x EXCEPT !.status = "READY_FOR_ISSUE", !.policy = job[w].policy]}
                 /\ WriteReady(x)
            ELSE UNCHANGED <<invoices, ready, enqueued>>
  BY DEF FinalizeCommit
<1>2. x \in Invoice
  BY DEF InvoiceInv, StoreInv
<1>3. job[w] \in FinalizeJob /\ job[w].policy # None
  BY DEF InvoiceInv, JobTypeOK, JobsArePrepared, FinalizeCommit, IntakeJob, Idle
<1>4. job[w].policy \in Policies
  BY <1>3 DEF FinalizeJob
<1>5. StoreInv' /\ \A z \in invoices : z.status = "READY_FOR_ISSUE" => z \in invoices'
  <2>1. CASE x.status = "DRAFT" /\ x.content \in Complete
    <3> DEFINE y == [x EXCEPT !.status = "READY_FOR_ISSUE", !.policy = job[w].policy]
    <3>1. x.source = None
      BY <2>1 DEF InvoiceInv, StoreInv, AutomatedAreReady
    <3>2. /\ y \in Invoice /\ y.source = None /\ y.id = x.id /\ y.status = "READY_FOR_ISSUE"
          /\ y.content \in Complete /\ y.policy # None
      BY <1>2, <1>3, <1>4, <2>1, <3>1 DEF Invoice
    <3>3. invoices' = (invoices \ {x}) \cup {y} /\ WriteReady(x)
      BY <1>1, <2>1
    <3> HIDE DEF y
    <3>4. StoreInv'
      BY <2>1, <3>1, <3>2, <3>3, ReplaceDraft DEF InvoiceInv
    <3> QED BY <2>1, <3>3, <3>4
  <2>2. CASE ~(x.status = "DRAFT" /\ x.content \in Complete)
    BY <1>1, <2>2, StoreUnchanged DEF InvoiceInv, store
  <2> QED BY <2>1, <2>2
<1>6. JobTypeOK' /\ JobsArePrepared' /\ SuccessMeansInvoiced'
  BY <1>5, JobStep DEF FinalizeCommit, Idle
<1> QED BY <1>5, <1>6 DEF InvoiceInv

-----------------------------------------------------------------------------
\* The job of a worker inside createAutomatedReady.
LEMMA IntakeJobFacts ==
    ASSUME InvoiceInv, NEW w \in Workers, job[w].op = "automate"
    PROVE  /\ job[w] \in IntakeJob /\ job[w].source \in Sources /\ job[w].content \in Contents
           /\ job[w].pc # "error" => job[w].content \in Complete
           /\ job[w].pc \in {"recheck", "insert"} => job[w].policy \in Policies
<1>1. job[w] \in IntakeJob
  BY DEF InvoiceInv, JobTypeOK, FinalizeJob, Idle
<1> QED BY <1>1 DEF InvoiceInv, JobsArePrepared, IntakeJob

\* A step of the intake that only moves its pc: to "ok" only when the invoice
\* is there, to "insert" only from "recheck".
LEMMA IntakeMoves ==
    ASSUME InvoiceInv, NEW w \in Workers, job[w].op = "automate", job[w].pc # "error",
           NEW p \in {"policy", "insert", "ok", "error"},
           job' = [job EXCEPT ![w].pc = p], UNCHANGED <<invoices, ready, enqueued, policy>>,
           p = "insert" => job[w].pc = "recheck",
           p = "ok" => \E x \in invoices : x.source = job[w].source /\ x.hash = job[w].content
    PROVE  InvoiceInv'
<1> DEFINE j == [job[w] EXCEPT !.pc = p]
<1>1. job[w] \in IntakeJob
  BY IntakeJobFacts
<1>2. j \in IntakeJob /\ j.pc = p /\ j.op = "automate" /\ j.source = job[w].source
      /\ j.content = job[w].content /\ j.policy = job[w].policy
  BY <1>1 DEF IntakeJob
<1>3. j.content \in Complete
  BY <1>2, IntakeJobFacts
<1>4. p = "insert" => j.policy # None
  BY <1>2, IntakeJobFacts, InvoiceAssumption
<1>5. p = "ok" => \E x \in invoices' : x.source = j.source /\ x.hash = j.content
                                         /\ x.status = "READY_FOR_ISSUE"
  <2>1. j.source # None
    BY <1>2, IntakeJobFacts, InvoiceAssumption
  <2> QED BY <1>2, <2>1 DEF InvoiceInv, StoreInv, AutomatedAreReady
<1>6. job' = [job EXCEPT ![w] = j]
  OBVIOUS
<1> HIDE DEF j
<1>7. JobTypeOK' /\ JobsArePrepared' /\ SuccessMeansInvoiced'
  BY <1>2, <1>3, <1>4, <1>5, <1>6, JobStep
<1>8. StoreInv'
  BY StoreUnchanged DEF InvoiceInv, store
<1> QED BY <1>7, <1>8 DEF InvoiceInv

\* A lookup answers "ok" only for a stored invoice of that content; a refusal
\* or an error never does.
LEMMA LookupInv ==
    ASSUME InvoiceInv, NEW w \in Workers,
           FirstLookup(w) \/ Recheck(w) \/ InsertRefused(w) \/ IntakeFails(w)
    PROVE  InvoiceInv'
<1>1. CASE FirstLookup(w) \/ Recheck(w)
  <2>1. PICK p \in {"policy", "insert", "ok", "error"} :
           /\ job' = [job EXCEPT ![w].pc = p]
           /\ p = "insert" => job[w].pc = "recheck"
           /\ p = "ok" => \E x \in invoices : x.source = job[w].source
                                              /\ x.hash = job[w].content
    BY <1>1 DEF FirstLookup, Recheck, Lookup, Existing, Taken
  <2> QED BY <1>1, <2>1, IntakeMoves DEF FirstLookup, Recheck, Lookup
<1>2. CASE InsertRefused(w) \/ IntakeFails(w)
  BY <1>2, IntakeMoves DEF InsertRefused, IntakeFails
<1> QED BY <1>1, <1>2

\* The insert: the unique indexes, not the earlier lookups, keep the source to
\* one invoice.
LEMMA InsertInv ==
    ASSUME InvoiceInv, NEW w \in Workers, NEW id \in Ids, Insert(w, id)
    PROVE  InvoiceInv'
<1> DEFINE s == job[w].source
           x == [id |-> id, source |-> s, key |-> AutoKey[s], hash |-> job[w].content,
                 content |-> job[w].content, status |-> "READY_FOR_ISSUE",
                 policy |-> job[w].policy]
           j == [job[w] EXCEPT !.pc = "ok"]
<1>1. job[w].op = "automate" /\ job[w].pc = "insert"
  BY DEF Insert
<1>2. /\ job[w] \in IntakeJob /\ s \in Sources /\ job[w].content \in Contents
      /\ job[w].content \in Complete /\ job[w].policy \in Policies
  BY <1>1, IntakeJobFacts
<1>3. s # None /\ job[w].policy # None
  BY <1>2, InvoiceAssumption
<1>4. x \in Invoice
  BY <1>2 DEF Invoice, RequestKeys
<1>5. \A y \in invoices : y.source # s
  BY DEF Insert, UniqueViolation, Taken
<1>6. invoices' = invoices \cup {x} /\ WriteReady(x) /\ job' = [job EXCEPT ![w] = j]
      /\ policy' = policy /\ id \in Unused
  BY DEF Insert
<1>7. /\ x.id = id /\ x.source = s /\ x.status = "READY_FOR_ISSUE" /\ x.content \in Complete
      /\ x.policy # None /\ x.hash = job[w].content
  BY <1>2, <1>3
<1>8. /\ j \in IntakeJob /\ j.op = "automate" /\ j.pc = "ok" /\ j.source = s
      /\ j.content = job[w].content
  BY <1>2 DEF IntakeJob
<1> HIDE DEF x, j, s
<1>9. StoreInv'
  BY <1>4, <1>5, <1>6, <1>7, AddInvoice DEF InvoiceInv
<1>10. JobTypeOK' /\ JobsArePrepared' /\ SuccessMeansInvoiced'
  BY <1>2, <1>6, <1>7, <1>8, JobStep
<1> QED BY <1>9, <1>10 DEF InvoiceInv

-----------------------------------------------------------------------------
\* The invariant holds with no invoices.
LEMMA InvoiceInitInv == Init => InvoiceInv
BY DEF Init, InvoiceInv, StoreInv, JobTypeOK, JobsArePrepared, SuccessMeansInvoiced,
       IdsAreKeys, FreshIdsAreClean, AutomatedAreReady, OneInvoicePerSource,
       ReadyEventExactlyOnce, ReadyIsComplete, Unused, Idle

\* Every step of users and workers preserves the invariant.
LEMMA InvoiceStepInv == InvoiceInv /\ [Next]_invoiceVars => InvoiceInv'
<1> SUFFICES ASSUME InvoiceInv, [Next]_invoiceVars PROVE InvoiceInv'
  OBVIOUS
<1>1. CASE UNCHANGED invoiceVars
  <2>1. StoreInv'
    BY <1>1, StoreUnchanged DEF InvoiceInv, store, invoiceVars
  <2>2. JobTypeOK' /\ JobsArePrepared' /\ SuccessMeansInvoiced'
    BY <1>1, JobsUnchanged DEF InvoiceInv, JobTypeOK, invoiceVars
  <2> QED BY <2>1, <2>2 DEF InvoiceInv
<1>2. CASE Next
  BY <1>2, CreateInv, UpdateInv, PolicyInv, StartInv, ReadPolicyInv, FinalizeInv,
     LookupInv, InsertInv DEF Next, IntakeStep
<1> QED BY <1>1, <1>2

\* The invariant of the store holds in every reachable state.
THEOREM InvoiceInvariant == Spec => []InvoiceInv
<1> QED BY InvoiceInitInv, InvoiceStepInv, PTL DEF Spec

\* Every reachable state of the invoices and of the jobs on them is well typed.
THEOREM InvoiceTypeCorrect == Spec => []TypeOK
<1>1. InvoiceInv => TypeOK
  BY DEF InvoiceInv, StoreInv, JobTypeOK, TypeOK
<1> QED BY <1>1, InvoiceInvariant, PTL

\* However many workers race on a source, it has at most one invoice.
THEOREM SourcesAreBilledOnce == Spec => []OneInvoicePerSource
<1>1. InvoiceInv => OneInvoicePerSource
  BY DEF InvoiceInv, StoreInv
<1> QED BY <1>1, InvoiceInvariant, PTL

\* A final invoice has exactly one ready event and one outbox event, a draft
\* has none.
THEOREM ReadyEventsAreExact == Spec => []ReadyEventExactlyOnce
<1>1. InvoiceInv => ReadyEventExactlyOnce
  BY DEF InvoiceInv, StoreInv
<1> QED BY <1>1, InvoiceInvariant, PTL

\* A final invoice was complete and had its policy when it was frozen, whatever
\* edits ran between the reads of its finalization and the commit.
THEOREM FinalInvoicesAreComplete == Spec => []ReadyIsComplete
<1>1. InvoiceInv => ReadyIsComplete
  BY DEF InvoiceInv, StoreInv
<1> QED BY <1>1, InvoiceInvariant, PTL

\* An intake reported successful has a final invoice of its content.
THEOREM SuccessIsInvoiced == Spec => []SuccessMeansInvoiced
<1>1. InvoiceInv => SuccessMeansInvoiced
  BY DEF InvoiceInv
<1> QED BY <1>1, InvoiceInvariant, PTL

-----------------------------------------------------------------------------
\* No step changes or removes a final invoice.
LEMMA FrozenStep ==
    ASSUME InvoiceInv, [Next]_invoiceVars, NEW x \in invoices, x.status = "READY_FOR_ISSUE"
    PROVE  x \in invoices'
<1>1. CASE UNCHANGED invoices
  BY <1>1
<1>2. ASSUME NEW id \in Ids, NEW k \in Keys, NEW c \in Contents, createManualDraft(id, k, c)
      PROVE  x \in invoices'
  BY <1>2 DEF createManualDraft
<1>3. ASSUME NEW y \in invoices, NEW c \in Contents, updateManualDraft(y, c)
      PROVE  x \in invoices'
  BY <1>3 DEF updateManualDraft
<1>4. ASSUME NEW w \in Workers, FinalizeCommit(w) PROVE x \in invoices'
  BY <1>4 DEF FinalizeCommit
<1>5. ASSUME NEW w \in Workers, NEW id \in Ids, Insert(w, id) PROVE x \in invoices'
  BY <1>5 DEF Insert
<1>6. ASSUME NEW w \in Workers,
             \/ \E y \in invoices : StartFinalize(w, y)
             \/ \E s \in Sources, c \in Contents : StartIntake(w, s, c)
             \/ ReadPolicy(w) \/ FirstLookup(w) \/ Recheck(w) \/ InsertRefused(w)
             \/ IntakeFails(w) \/ Release(w)
      PROVE  UNCHANGED invoices
  BY <1>6 DEF StartFinalize, StartIntake, ReadPolicy, FirstLookup, Recheck, Lookup,
              InsertRefused, IntakeFails, Release
<1>7. ASSUME NEW p \in Policies, savePolicy(p) PROVE UNCHANGED invoices
  BY <1>7 DEF savePolicy
<1> QED BY <1>1, <1>2, <1>3, <1>4, <1>5, <1>6, <1>7 DEF Next, IntakeStep, invoiceVars

\* A final invoice is never touched again, also not by a finalize or an edit
\* that read it while it was a draft.
THEOREM FinalInvoicesAreFrozen == Spec => ReadyIsFrozen
<1>1. InvoiceInv /\ [Next]_invoiceVars =>
        [\A x \in invoices : x.status = "READY_FOR_ISSUE" => x \in invoices']_invoiceVars
  BY FrozenStep
<1> QED BY <1>1, InvoiceInvariant, PTL DEF Spec, ReadyIsFrozen
=============================================================================
