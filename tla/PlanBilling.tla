------------------------------- MODULE PlanBilling -------------------------------
(***************************************************************************)
(* services/cmd/billing/plans.go: the subscription of a partner to a plan, *)
(* the changes it asks for, and the invoices of its periods.               *)
(*                                                                         *)
(* A cycle may run for the day's cron and for any number of requests at    *)
(* once: it reads the changes that are due, then who is due, then each     *)
(* partner, invoices it in a transaction of its own and moves the next     *)
(* billing date.  An invoice is identified by its kind, its first day and  *)
(* the plan.  A failed call, a client that goes away or a restart leaves   *)
(* the rest of a handler undone.                                           *)
(*                                                                         *)
(* A plan is named by its price.  The prices of a date are PlanPrices';  *)
(* collection and standing are Dunning's.                                  *)
(***************************************************************************)
EXTENDS Integers

CONSTANTS
    PbPlans,    \* the plans
    PbMonth,    \* days of a month
    PbYear,     \* days of a year, full months
    PbWorkers,  \* cycles and requests in progress at once
    PbLastDay,  \* bound: the last day
    PbMaxRuns,  \* bound: cycles
    PbMaxCalls  \* bound: requests, changes of standing and of mode

ASSUME PbAssumption ==
    /\ PbPlans \subseteq Nat \ {0} /\ {PbMonth, PbYear} \subseteq Nat \ {0} /\ PbYear % PbMonth = 0
    /\ {PbLastDay, PbMaxRuns, PbMaxCalls} \subseteq Nat

VARIABLES
    pbDay,      \* today
    pbPaid,     \* billing.partner_commercial_modes: the partner is one that pays
    pbSub,      \* billing.partner_plan_subscriptions
    pbInvoices, \* billing.invoices: kind, first day and plan of each
    pbWork,     \* what each worker does
    pbFirst,    \* history: the first day of the first period
    pbFree,     \* history: first days of the periods passed when the partner did not pay
    pbOwed,     \* history: the invoices a subscription or an upgrade is to be charged by
    pbCut,      \* history: the invoices whose handler stopped before them, or just after
    pbExcuse,   \* history: the plan changed under a period being billed, or a cycle wrote an old date
    pbRuns, pbCalls

pbVars == <<pbDay, pbPaid, pbSub, pbInvoices, pbWork, pbFirst, pbFree, pbOwed, pbCut, pbExcuse, pbRuns, pbCalls>>
pbHistory == <<pbFirst, pbFree, pbOwed, pbCut, pbExcuse>>

PbNextMonth(d) == PbMonth * (d \div PbMonth + 1)
PbEnd(freq, start) == IF freq = "ANNUAL" THEN start + PbYear ELSE PbNextMonth(start)
PbNoChange == [plan |-> 0, freq |-> "MONTHLY", at |-> 0]
PbSub(plan, freq, next) == [plan |-> plan, freq |-> freq, active |-> TRUE, next |-> next, change |-> PbNoChange]
PbNone == PbSub(0, "MONTHLY", 0)
PbKey(kind, start, plan) == [kind |-> kind, start |-> start, plan |-> plan]

\* The days an invoice is for; an upgrade's are those of a period invoiced already.
PbRecurs(k) == k.kind # "UPGRADE"
PbCovers(k) == k.start..(PbEnd(IF k.kind = "MONTHLY" THEN "MONTHLY" ELSE "ANNUAL", k.start) - 1)

PbIdle == [at |-> "idle"]
PbInit ==
    /\ pbDay = 0 /\ pbPaid = TRUE
    /\ pbSub \in {PbNone} \cup {PbSub(p, f, PbMonth) : p \in PbPlans, f \in {"MONTHLY", "ANNUAL"}}
    /\ pbInvoices = {} /\ pbWork = [w \in PbWorkers |-> PbIdle]
    /\ pbFirst = PbMonth /\ pbFree = {} /\ pbOwed = {} /\ pbCut = {} /\ pbExcuse = FALSE
    /\ pbRuns = 0 /\ pbCalls = 0

PbAt(w, at) == pbWork[w].at = at
PbGo(w, state) == pbWork' = [pbWork EXCEPT ![w] = state]
PbCall == pbCalls < PbMaxCalls /\ pbCalls' = pbCalls + 1

-------------------------------------------------------------------------------
PbTomorrow ==
    /\ pbDay < PbLastDay /\ pbDay' = pbDay + 1
    /\ UNCHANGED <<pbPaid, pbSub, pbInvoices, pbWork, pbHistory, pbRuns, pbCalls>>
\* The partner becomes, or is no longer, one that does not pay.
PbMode ==
    /\ PbCall /\ pbPaid' = ~pbPaid
    /\ UNCHANGED <<pbDay, pbSub, pbInvoices, pbWork, pbHistory, pbRuns>>
\* A charge fails, or is paid after all.
PbStanding ==
    /\ PbCall /\ pbSub.plan # 0 /\ pbSub' = [pbSub EXCEPT !.active = ~@]
    /\ UNCHANGED <<pbDay, pbPaid, pbInvoices, pbWork, pbHistory, pbRuns>>

\* A plan changed under a period that is being billed, or that was billed and not passed.
PbMidway ==
    \/ \E k \in pbInvoices : PbRecurs(k) /\ k.start >= pbSub.next
    \/ \E v \in PbWorkers : pbWork[v].at \in {"invoice", "advance"} /\ PbRecurs(pbWork[v].key)
PbReplan(plan, freq) ==
    /\ pbSub' = [pbSub EXCEPT !.plan = plan, !.freq = freq, !.change = PbNoChange]
    /\ pbExcuse' = (pbExcuse \/ (PbMidway /\ (plan # pbSub.plan \/ freq # pbSub.freq)))

-------------------------------------------------------------------------------
(* runPlanBillingCycle *)
\* The day, and the change that is due on it (applyDuePlanChanges).
PbBegin(w) ==
    /\ PbAt(w, "idle") /\ pbRuns < PbMaxRuns /\ pbRuns' = pbRuns + 1
    /\ LET due == pbSub.active /\ pbSub.change.plan # 0 /\ pbSub.change.at <= pbDay IN
       PbGo(w, [at |-> IF due THEN "apply" ELSE "list", now |-> pbDay, change |-> pbSub.change])
    /\ UNCHANGED <<pbDay, pbPaid, pbSub, pbInvoices, pbHistory, pbCalls>>
\* Whatever the subscription has become.
PbApply(w) ==
    /\ PbAt(w, "apply") /\ PbGo(w, [pbWork[w] EXCEPT !.at = "list"])
    /\ PbReplan(pbWork[w].change.plan, pbWork[w].change.freq)
    /\ UNCHANGED <<pbDay, pbPaid, pbInvoices, pbFirst, pbFree, pbOwed, pbCut, pbRuns, pbCalls>>
PbList(w) ==
    /\ PbAt(w, "list")
    /\ PbGo(w, IF pbSub.plan # 0 /\ pbSub.active /\ pbSub.next <= pbWork[w].now THEN [at |-> "load"] ELSE PbIdle)
    /\ UNCHANGED <<pbDay, pbPaid, pbSub, pbInvoices, pbHistory, pbRuns, pbCalls>>
\* One period, from the date the subscription has now: it is not asked again whether it is due.
PbLoad(w) ==
    /\ PbAt(w, "load")
    /\ LET kind == IF pbSub.freq = "ANNUAL" THEN "RENEWAL" ELSE "MONTHLY" IN
       PbGo(w, [at |-> "invoice", paid |-> pbPaid, key |-> PbKey(kind, pbSub.next, pbSub.plan),
                then |-> "advance", end |-> PbEnd(pbSub.freq, pbSub.next)])
    /\ UNCHANGED <<pbDay, pbPaid, pbSub, pbInvoices, pbHistory, pbRuns, pbCalls>>

\* createPlanInvoice.  An invoice that exists is not made again, but the entry for it in the
\* ledger of finance is: its unique index refuses it, and the handler answers an error.
PbOnce(k) == k \notin pbInvoices
PbInvoice(w) ==
    /\ PbAt(w, "invoice")
    /\ LET r == pbWork[w] IN
       IF r.paid /\ ~PbOnce(r.key)
       THEN PbGo(w, [at |-> "refused", key |-> r.key]) /\ UNCHANGED pbInvoices
       ELSE /\ PbGo(w, IF r.then = "advance" THEN [r EXCEPT !.at = "advance"] ELSE PbIdle)
            /\ pbInvoices' = IF r.paid THEN pbInvoices \cup {r.key} ELSE pbInvoices
    /\ UNCHANGED <<pbDay, pbPaid, pbSub, pbHistory, pbRuns, pbCalls>>
\* The collection is asked for, and then the date is moved.
PbPast(now, end) == PbNextMonth(now)   \* mutation of PbNextDate: the month that follows today
PbNextDate(now, end) == end
PbAdvance(w) ==
    /\ PbAt(w, "advance") /\ PbGo(w, PbIdle)
    /\ LET r == pbWork[w] IN
       /\ pbSub' = [pbSub EXCEPT !.next = PbNextDate(pbDay, r.end)]
       /\ pbFree' = IF r.paid THEN pbFree ELSE pbFree \cup PbCovers(r.key)
       /\ pbExcuse' = (pbExcuse \/ pbSub.next # r.key.start)
    /\ UNCHANGED <<pbDay, pbPaid, pbInvoices, pbFirst, pbOwed, pbCut, pbRuns, pbCalls>>
PbRefuse(w) ==
    /\ PbAt(w, "refused") /\ PbGo(w, PbIdle)
    /\ UNCHANGED <<pbDay, pbPaid, pbSub, pbInvoices, pbHistory, pbRuns, pbCalls>>

-------------------------------------------------------------------------------
(* partnerPlan: PUT or PATCH *)
\* What is to be done is decided by the subscription, the mode and the day read here.
PbDecision(plan, freq) ==
    CASE pbSub.plan = 0       -> [at |-> "create"]
      [] pbSub.plan # 0 /\ pbSub.freq # freq -> [at |-> "schedule", when |-> pbSub.next]
      [] pbSub.plan # 0 /\ pbSub.freq = freq /\ plan > pbSub.plan -> [at |-> "upgrade"]
      [] OTHER -> [at |-> "schedule", when |-> IF freq = "ANNUAL" THEN pbSub.next ELSE PbNextMonth(pbDay)]
PbAsk(w, plan, freq) ==
    /\ PbAt(w, "idle") /\ PbCall /\ (plan # pbSub.plan \/ freq # pbSub.freq)
    /\ LET d == PbDecision(plan, freq) IN
       PbGo(w, [at |-> d.at, plan |-> plan, freq |-> freq, now |-> pbDay, paid |-> pbPaid,
                when |-> IF d.at = "schedule" THEN d.when ELSE 0])
    /\ UNCHANGED <<pbDay, pbPaid, pbSub, pbInvoices, pbHistory, pbRuns>>
\* The first subscription: of two, one row.  A year is paid in advance.
PbCharge(w, kind) ==
    LET r == pbWork[w]
        k == PbKey(kind, r.now, r.plan)
    IN  /\ PbGo(w, [at |-> "invoice", paid |-> r.paid, key |-> k, then |-> "idle", end |-> 0])
        /\ pbOwed' = IF r.paid THEN pbOwed \cup {k} ELSE pbOwed
PbCreate(w) ==
    /\ PbAt(w, "create")
    /\ LET r == pbWork[w] IN
       IF pbSub.plan # 0 THEN PbGo(w, PbIdle) /\ UNCHANGED <<pbSub, pbFirst, pbFree, pbOwed>>
       ELSE /\ pbSub' = PbSub(r.plan, r.freq, PbEnd(r.freq, r.now))
            /\ IF r.freq = "ANNUAL"
               THEN /\ PbCharge(w, "PREPAY") /\ pbFirst' = r.now
                    /\ pbFree' = IF r.paid THEN pbFree ELSE PbCovers(PbKey("PREPAY", r.now, r.plan))
               ELSE /\ PbGo(w, PbIdle) /\ pbFirst' = PbNextMonth(r.now) /\ UNCHANGED <<pbFree, pbOwed>>
    /\ UNCHANGED <<pbDay, pbPaid, pbInvoices, pbCut, pbExcuse, pbRuns, pbCalls>>
PbSchedule(w) ==
    /\ PbAt(w, "schedule") /\ PbGo(w, PbIdle)
    /\ LET r == pbWork[w] IN pbSub' = [pbSub EXCEPT !.change = [plan |-> r.plan, freq |-> r.freq, at |-> r.when]]
    /\ UNCHANGED <<pbDay, pbPaid, pbInvoices, pbHistory, pbRuns, pbCalls>>
\* An upgrade is at once, and charged the difference; the frequency stays as it is.
PbUpgrade(w) ==
    /\ PbAt(w, "upgrade") /\ PbCharge(w, "UPGRADE")
    /\ PbReplan(pbWork[w].plan, pbSub.freq)
    /\ UNCHANGED <<pbDay, pbPaid, pbInvoices, pbFirst, pbFree, pbCut, pbRuns, pbCalls>>

\* A call that fails, a client that goes away or a restart ends a handler where it is.
PbStop(w) ==
    /\ ~PbAt(w, "idle") /\ PbGo(w, PbIdle)
    /\ pbCut' = IF pbWork[w].at \in {"invoice", "advance"} THEN pbCut \cup {pbWork[w].key} ELSE pbCut
    /\ UNCHANGED <<pbDay, pbPaid, pbSub, pbInvoices, pbFirst, pbFree, pbOwed, pbExcuse, pbRuns, pbCalls>>

PbNext ==
    \/ PbTomorrow \/ PbMode \/ PbStanding
    \/ \E w \in PbWorkers :
          \/ PbBegin(w) \/ PbApply(w) \/ PbList(w) \/ PbLoad(w) \/ PbInvoice(w) \/ PbAdvance(w) \/ PbRefuse(w)
          \/ \E plan \in PbPlans, freq \in {"MONTHLY", "ANNUAL"} : PbAsk(w, plan, freq)
          \/ PbCreate(w) \/ PbSchedule(w) \/ PbUpgrade(w) \/ PbStop(w)

PbSpec == PbInit /\ [][PbNext]_pbVars

-------------------------------------------------------------------------------
\* No day is charged to a plan twice, although the key of an invoice holds its plan and its
\* kind and cycles overlap: unless the plan changes while a period is being billed, or after
\* a stop had left it billed and not passed.
PbBilledOnce ==
    ~pbExcuse =>
        \A k, l \in pbInvoices :
            PbRecurs(k) /\ PbRecurs(l) /\ k # l => PbCovers(k) \cap PbCovers(l) = {}

\* Every day before the next billing date is charged, to be charged or was free, however
\* late the cycles come.
PbNoGap ==
    pbSub.plan # 0 =>
        pbFirst..(pbSub.next - 1) \subseteq
            pbFree \cup UNION {PbCovers(k) : k \in {i \in pbInvoices \cup pbOwed : PbRecurs(i)}}

\* What a subscription or an upgrade is to be charged by is made, unless its handler stopped.
PbOwedIsMade ==
    \A k \in pbOwed :
        \/ k \in pbInvoices \/ k \in pbCut
        \/ \E w \in PbWorkers : PbAt(w, "invoice") /\ pbWork[w].key = k

\* A period that was billed is passed, and the next one can be: unless the cycle that billed
\* it stopped before it moved the date, or another moved it back.
PbBilledIsPassed ==
    ~pbExcuse =>
        \A k \in pbInvoices :
            PbRecurs(k) /\ k.start >= pbSub.next =>
                k \in pbCut \/ \E w \in PbWorkers : PbAt(w, "advance") /\ pbWork[w].key = k

\* What the plans' billing answers for.
PlanBillingSafe == PbBilledOnce /\ PbNoGap /\ PbOwedIsMade /\ PbBilledIsPassed

\* "Plan invoice generation is idempotent" (docs/START-23.11.2_ACCEPTANCE.md:67): a cycle that
\* comes to an invoice made before goes on.  Violated: the ledger refuses the second entry.
PbGenerationIsIdempotent == \A w \in PbWorkers : ~PbAt(w, "refused")
\* Not guaranteed, and violated: a plan is lowered by a change that stands (an upgrade paid
\* since the cycle read the change is undone by it).
PbUpgradeIsKept == pbSub.plan > pbSub'.plan => pbSub.change.plan = pbSub'.plan
\* Not guaranteed: the next billing date never moves back.
PbDateMovesOn == pbSub'.next >= pbSub.next
================================================================================
