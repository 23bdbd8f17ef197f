------------------------------ MODULE ModuleBilling ------------------------------
(***************************************************************************)
(* services/cmd/billing: one module of a partner billed by the module: its *)
(* subscription, the price fixed for each of its periods, the items that   *)
(* charge them and the partner's invoices.                                 *)
(*                                                                         *)
(* The daily cycle and every summary a console asks for synchronise the    *)
(* subscription with the catalogue: each statement is its own transaction, *)
(* and what was read may be stale when it is written.  A failed call or a  *)
(* restart leaves the rest of a run undone.                                *)
(*                                                                         *)
(* A period is named by its first day and lasts MbCycle days; so does a    *)
(* service period of the partner, which its invoice names by its end.  A   *)
(* price of 0 is a module included in the base fee.                        *)
(***************************************************************************)
EXTENDS Integers, FiniteSetsExt

CONSTANTS
    MbCycle,    \* days of a period (30)
    MbPrices,   \* what the catalogue may answer for the first day of a period
    MbBase,     \* the base fee
    MbWorkers,  \* runs and requests in progress at once
    MbLastDay,  \* bound: the last day
    MbMaxRuns,  \* bound: cycles and summaries
    MbMaxCalls  \* bound: requests about the renewal, the module or the mode

ASSUME MbAssumption ==
    /\ {MbCycle, MbBase} \subseteq Nat \ {0} /\ MbPrices \subseteq Nat
    /\ {MbLastDay, MbMaxRuns, MbMaxCalls} \subseteq Nat

VARIABLES
    mbDay,       \* today
    mbModule,    \* the partner's row of the catalogue: is it billable, and since when
    mbPaid,      \* billing.partner_commercial_modes: the partner is one that pays
    mbSub,       \* billing.module_subscriptions
    mbSnapshots, \* billing.module_period_snapshots: the price of each period, or MbNone
    mbItems,     \* billing.invoice_items of the module: what it charges and the invoice it is on
    mbInvoices,  \* billing.invoices: the total of each service period invoiced, or MbNone
    mbWork,      \* what each worker does
    mbCut,       \* periods whose first run stopped between their price and their item
    mbExcuse,    \* a run was overtaken: what it goes by changed after it had read it
    mbRuns, mbCalls

mbVars == <<mbDay, mbModule, mbPaid, mbSub, mbSnapshots, mbItems, mbInvoices, mbWork, mbCut, mbExcuse, mbRuns, mbCalls>>

MbDays == 0..MbLastDay
MbNone == -1
MbIdle == [at |-> "idle"]
MbNoSub == [state |-> "NONE", activation |-> 0, start |-> 0]
MbEnd(sub) == sub.start + MbCycle

\* The module was never the partner's, or has been since the first day.
MbInit ==
    /\ mbDay = 0 /\ mbPaid = TRUE
    /\ \E p \in MbPrices \cup {MbNone} :
          LET new == p = MbNone IN
          /\ mbModule = [billable |-> ~new, since |-> 0]
          /\ mbSub = IF new THEN MbNoSub ELSE [MbNoSub EXCEPT !.state = "ACTIVE"]
          /\ mbSnapshots = [d \in MbDays |-> IF d = 0 THEN p ELSE MbNone]
          /\ mbItems = [d \in MbDays |-> [amount |-> IF d = 0 /\ p > 0 THEN p ELSE MbNone, invoice |-> MbNone]]
    /\ mbInvoices = [d \in MbDays |-> MbNone]
    /\ mbWork = [w \in MbWorkers |-> MbIdle] /\ mbCut = {} /\ mbExcuse = FALSE /\ mbRuns = 0 /\ mbCalls = 0

MbAt(w, at) == mbWork[w].at = at
MbGo(w, state) == mbWork' = [mbWork EXCEPT ![w] = state]
MbCall == mbCalls < MbMaxCalls /\ mbCalls' = mbCalls + 1
\* The period of d, counted from an anchor.
MbWindow(anchor, d) == IF d < anchor THEN anchor ELSE anchor + MbCycle * ((d - anchor) \div MbCycle)
MbItemised(s) == mbItems[s].amount # MbNone

-------------------------------------------------------------------------------
MbTomorrow ==
    /\ mbDay < MbLastDay /\ mbDay' = mbDay + 1
    /\ UNCHANGED <<mbModule, mbPaid, mbSub, mbSnapshots, mbItems, mbInvoices, mbWork, mbCut, mbExcuse, mbRuns, mbCalls>>
MbRunning == \E w \in MbWorkers : ~MbAt(w, "idle")
MbPricedAhead ==
    mbSub.state \in {"NONE", "INACTIVE"} /\ \E s \in MbDays : mbSnapshots[s] # MbNone /\ s + MbCycle > mbDay
\* The catalogue: the module is activated, or put under maintenance and out of it again.
MbSwitch ==
    /\ MbCall
    /\ mbModule' = IF mbModule.billable THEN [mbModule EXCEPT !.billable = FALSE]
                   ELSE [billable |-> TRUE, since |-> mbDay]
    \* A new activation, while a run is under way or after one that priced a period and stopped.
    /\ mbExcuse' = (mbExcuse \/ (~mbModule.billable /\ (MbRunning \/ MbPricedAhead)))
    /\ UNCHANGED <<mbDay, mbPaid, mbSub, mbSnapshots, mbItems, mbInvoices, mbWork, mbCut, mbRuns>>
\* The partner becomes, or is no longer, one that does not pay.
MbMode ==
    /\ MbCall /\ mbPaid' = ~mbPaid
    /\ UNCHANGED <<mbDay, mbModule, mbSub, mbSnapshots, mbItems, mbInvoices, mbWork, mbCut, mbExcuse, mbRuns>>

\* PATCH of a subscription.  The call that follows its commit is about the catalogue's
\* entitlement_state, which billing does not read.
MbRenewal(cancel) ==
    /\ MbCall /\ mbSub.state \in {"ACTIVE", "CANCEL_PENDING"}
    /\ mbSub' = [mbSub EXCEPT !.state = IF cancel THEN "CANCEL_PENDING" ELSE "ACTIVE"]
    /\ UNCHANGED <<mbDay, mbModule, mbPaid, mbSnapshots, mbItems, mbInvoices, mbWork, mbCut, mbExcuse, mbRuns>>

-------------------------------------------------------------------------------
\* A run begins: a summary with the catalogue's list, the cycle with the cancellations that
\* are due.  The day is read once.
MbBegin(w, cycle) ==
    /\ MbAt(w, "idle") /\ mbRuns < MbMaxRuns /\ mbRuns' = mbRuns + 1
    /\ LET due == cycle /\ mbSub.state = "CANCEL_PENDING" /\ MbEnd(mbSub) <= mbDay IN
       MbGo(w, [at |-> IF due THEN "revoke" ELSE "list", cycle |-> cycle, now |-> mbDay, sync |-> FALSE])
    /\ UNCHANGED <<mbDay, mbModule, mbPaid, mbSub, mbSnapshots, mbItems, mbInvoices, mbCut, mbExcuse, mbCalls>>
MbStep(w, fields) == MbGo(w, [f \in DOMAIN mbWork[w] \cup DOMAIN fields |-> IF f \in DOMAIN fields THEN fields[f] ELSE mbWork[w][f]])
\* After the subscription the cycle invoices; a summary is answered.
MbThen(w) ==
    MbGo(w, IF ~mbWork[w].cycle THEN MbIdle
            ELSE [at |-> "invoice", now |-> mbWork[w].now])
\* The module is taken from the partner, and then its subscription ended: by the cycle if it
\* is still to be cancelled, by a synchronisation whatever it has become.
MbRevoke(w) ==
    /\ MbAt(w, "revoke") /\ MbStep(w, [at |-> "expire"])
    /\ mbModule' = [mbModule EXCEPT !.billable = FALSE]
    /\ UNCHANGED <<mbDay, mbPaid, mbSub, mbSnapshots, mbItems, mbInvoices, mbCut, mbExcuse, mbRuns, mbCalls>>
MbExpire(w) ==
    /\ MbAt(w, "expire")
    /\ mbSub' = IF mbSub.state = "CANCEL_PENDING" \/ mbWork[w].sync THEN [mbSub EXCEPT !.state = "INACTIVE"] ELSE mbSub
    /\ mbExcuse' = (mbExcuse \/ mbSub.state # "CANCEL_PENDING")
    /\ IF mbWork[w].sync THEN MbThen(w) ELSE MbStep(w, [at |-> "list"])
    /\ UNCHANGED <<mbDay, mbModule, mbPaid, mbSnapshots, mbItems, mbInvoices, mbCut, mbRuns, mbCalls>>

\* The catalogue's billable modules, and then the subscription as it stands: what is to be
\* done with it is decided here.
MbList(w) ==
    /\ MbAt(w, "list")
    /\ IF mbModule.billable THEN MbStep(w, [at |-> "read", since |-> mbModule.since]) ELSE MbThen(w)
    /\ UNCHANGED <<mbDay, mbModule, mbPaid, mbSub, mbSnapshots, mbItems, mbInvoices, mbCut, mbExcuse, mbRuns, mbCalls>>
\* The periods from one to another are priced, and then the subscription is written.
MbPeriods(first, activation, start, write) ==
    [at |-> "period", period |-> first, activation |-> activation, start |-> start, write |-> write, was |-> mbSub]
MbDecision(since, now) ==
    CASE mbSub.state = "NONE" -> MbPeriods(since, since, MbWindow(since, now), "insert")
      [] mbSub.state = "CANCEL_PENDING" /\ MbEnd(mbSub) <= now -> [at |-> "revoke", sync |-> TRUE]
      [] mbSub.state = "CANCEL_PENDING" /\ MbEnd(mbSub) > now ->
             MbPeriods(mbSub.start, mbSub.activation, mbSub.start, "nothing")
      [] mbSub.state = "INACTIVE" -> MbPeriods(MbWindow(since, now), since, MbWindow(since, now), "update")
      [] OTHER -> MbPeriods(mbSub.start, mbSub.activation, MbWindow(mbSub.start, now), "update")
MbRead(w) ==
    /\ MbAt(w, "read") /\ MbStep(w, MbDecision(mbWork[w].since, mbWork[w].now))
    \* The subscription ended, and the module was taken away, after the run had listed it.
    /\ mbExcuse' = (mbExcuse \/ (mbSub.state = "INACTIVE" /\ ~mbModule.billable))
    /\ UNCHANGED <<mbDay, mbModule, mbPaid, mbSub, mbSnapshots, mbItems, mbInvoices, mbCut, mbRuns, mbCalls>>

\* ensureModulePeriodSnapshot: a period that has its price is done with; another's is asked
\* of the catalogue, the first price written is the price, and it is charged once.
MbOwnPrice(s, p) == p   \* mutation of MbKeptPrice: the price a run was answered is not the one it finds written
MbKeptPrice(s, p) == IF mbSnapshots[s] = MbNone THEN p ELSE mbSnapshots[s]
MbUnpriced(first, start) ==
    {s \in first..start : (s - first) % MbCycle = 0 /\ mbSnapshots[s] = MbNone}
MbFind(w) ==
    /\ MbAt(w, "period")
    /\ LET todo == MbUnpriced(mbWork[w].period, mbWork[w].start) IN
       MbStep(w, IF todo = {} THEN [at |-> "write"]
                 ELSE [at |-> "price", period |-> CHOOSE s \in todo : \A t \in todo : s <= t])
    /\ UNCHANGED <<mbDay, mbModule, mbPaid, mbSub, mbSnapshots, mbItems, mbInvoices, mbCut, mbExcuse, mbRuns, mbCalls>>
MbPrice(w) ==
    /\ MbAt(w, "price")
    /\ \E p \in MbPrices :
          LET s == mbWork[w].period IN
          /\ MbStep(w, [at |-> "item", price |-> MbKeptPrice(s, p)])
          /\ mbSnapshots' = [mbSnapshots EXCEPT ![s] = IF @ = MbNone THEN p ELSE @]
          /\ mbExcuse' = (mbExcuse \/ (mbSub # mbWork[w].was))
    /\ UNCHANGED <<mbDay, mbModule, mbPaid, mbSub, mbItems, mbInvoices, mbCut, mbRuns, mbCalls>>
MbItem(w) ==
    /\ MbAt(w, "item") /\ MbStep(w, [at |-> "period"])
    /\ LET s == mbWork[w].period IN
       mbItems' = IF mbWork[w].price > 0 /\ ~MbItemised(s)
                  THEN [mbItems EXCEPT ![s].amount = mbWork[w].price] ELSE mbItems
    /\ UNCHANGED <<mbDay, mbModule, mbPaid, mbSub, mbSnapshots, mbInvoices, mbCut, mbExcuse, mbRuns, mbCalls>>
\* A subscription is inserted if there is none, and updated whatever it has become.
MbWrite(w) ==
    /\ MbAt(w, "write")
    /\ LET r == mbWork[w] IN
       /\ mbSub' = IF r.write = "nothing" \/ (r.write = "insert" /\ mbSub # MbNoSub) THEN mbSub
                   ELSE [state |-> "ACTIVE", activation |-> r.activation, start |-> r.start]
       /\ mbExcuse' = (mbExcuse \/ (r.write = "update" /\ mbSub # r.was))
       \* The insert that finds a row is an error, and ends the run.
       /\ IF r.write = "insert" /\ mbSub # MbNoSub THEN MbGo(w, MbIdle) ELSE MbThen(w)
    /\ UNCHANGED <<mbDay, mbModule, mbPaid, mbSnapshots, mbItems, mbInvoices, mbCut, mbRuns, mbCalls>>

-------------------------------------------------------------------------------
\* The invoice, on a boundary day only: made once, its items are those of no invoice whose
\* period began before its end, and its total is written again.
MbBoundary(now) == now > 0 /\ now % MbCycle = 0
MbTotal(items, end) == MbBase + MapThenSumSet(LAMBDA s : items[s].amount, {s \in MbDays : items[s].invoice = end})
MbTakes(s, end) == MbItemised(s) /\ mbItems[s].invoice = MbNone /\ s < end
MbInvoice(w) ==
    /\ MbAt(w, "invoice") /\ MbGo(w, MbIdle)
    /\ IF MbBoundary(mbWork[w].now) /\ mbPaid
       THEN LET end == mbWork[w].now
                items == [s \in MbDays |-> IF MbTakes(s, end) THEN [mbItems[s] EXCEPT !.invoice = end] ELSE mbItems[s]]
            IN  mbItems' = items /\ mbInvoices' = [mbInvoices EXCEPT ![end] = MbTotal(items, end)]
       ELSE UNCHANGED <<mbItems, mbInvoices>>
    /\ UNCHANGED <<mbDay, mbModule, mbPaid, mbSub, mbSnapshots, mbCut, mbExcuse, mbRuns, mbCalls>>

\* A call that fails, or a restart, ends a run where it is.
MbStop(w) ==
    /\ mbWork[w].at # "idle" /\ MbGo(w, MbIdle)
    /\ mbCut' = IF MbAt(w, "item") THEN mbCut \cup {mbWork[w].period} ELSE mbCut
    /\ UNCHANGED <<mbDay, mbModule, mbPaid, mbSub, mbSnapshots, mbItems, mbInvoices, mbExcuse, mbRuns, mbCalls>>

MbNext ==
    \/ MbTomorrow \/ MbSwitch \/ MbMode \/ \E cancel \in BOOLEAN : MbRenewal(cancel)
    \/ \E w \in MbWorkers :
          \/ \E cycle \in BOOLEAN : MbBegin(w, cycle)
          \/ MbRevoke(w) \/ MbExpire(w) \/ MbList(w) \/ MbRead(w)
          \/ MbFind(w) \/ MbPrice(w) \/ MbItem(w) \/ MbWrite(w) \/ MbInvoice(w) \/ MbStop(w)

MbSpec == MbInit /\ [][MbNext]_mbVars

-------------------------------------------------------------------------------
\* What a period is charged is the price fixed for it, although runs that overlap may be
\* answered different ones.
MbChargedAsFixed ==
    \A s \in MbDays : MbItemised(s) => mbItems[s].amount = mbSnapshots[s]

\* Every period with a price is charged, once the runs that price it are over, unless one
\* stopped in between: the item is made by the run that made the price, or by none.
MbBilledUnlessCut ==
    \A s \in MbDays :
        mbSnapshots[s] > 0 =>
            \/ MbItemised(s) \/ s \in mbCut
            \/ \E w \in MbWorkers : MbAt(w, "item") /\ mbWork[w].period = s

\* The total of an invoice is the base fee and its items; an item stays on its invoice.
MbTotalsAdd == \A end \in MbDays : mbInvoices[end] # MbNone => mbInvoices[end] = MbTotal(mbItems, end)
MbItemStays ==
    \A s \in MbDays : mbItems[s].invoice # MbNone => mbItems'[s] = mbItems[s]

\* No day is charged twice: the periods of the module do not overlap, unless it was switched
\* on during a run or after one that was cut short, taken away with its subscription between
\* the list and the read of a run, or a run wrote over what it had not read.
MbPeriodsApart ==
    ~mbExcuse =>
        \A s, t \in MbDays :
            mbSnapshots[s] # MbNone /\ mbSnapshots[t] # MbNone /\ s < t => t - s >= MbCycle

\* A cancellation ends with the period or by being withdrawn, unless a run that had read
\* the subscription before it writes over it.
MbCancelHolds ==
    mbSub.state = "CANCEL_PENDING" /\ mbSub'.state = "ACTIVE" =>
        MbRenewal(FALSE) \/ \E w \in MbWorkers : MbWrite(w) /\ mbWork[w].was # mbSub
\* And what was cancelled is priced for no later period, but by such a run.
MbCancelledIsNotRenewed ==
    mbSub.state = "CANCEL_PENDING" =>
        \A s \in MbDays :
            mbSnapshots'[s] # mbSnapshots[s] =>
                s <= mbSub.start \/ \E w \in MbWorkers : MbPrice(w) /\ mbWork[w].was # mbSub

\* What billing by the module answers for.
ModuleBillingSafe ==
    /\ [](MbChargedAsFixed /\ MbBilledUnlessCut /\ MbTotalsAdd /\ MbPeriodsApart)
    /\ [][MbItemStays /\ MbCancelHolds /\ MbCancelledIsNotRenewed]_mbVars

\* Not guaranteed, and violated: a period that has a price is charged (a stop in between).
MbEveryPeriodBilled ==
    \A s \in MbDays : mbSnapshots[s] > 0 /\ (\A w \in MbWorkers : MbAt(w, "idle")) => MbItemised(s)
\* Not guaranteed: a cancellation is kept (a summary under way undoes it).
MbCancelIsKept ==
    mbSub.state = "CANCEL_PENDING" /\ mbSub'.state = "ACTIVE" => MbRenewal(FALSE)
\* Not guaranteed: an invoice once made keeps its total (a second cycle of its day adds items).
MbTotalIsFinal == \A end \in MbDays : mbInvoices[end] # MbNone => mbInvoices'[end] = mbInvoices[end]
\* Not guaranteed: a partner that does not pay is charged for no module (the items are made
\* all the same, and the first invoice after that time takes them).
MbFreeIsNotCharged ==
    ~mbPaid => \A s \in MbDays : mbItems'[s].amount = mbItems[s].amount
================================================================================
