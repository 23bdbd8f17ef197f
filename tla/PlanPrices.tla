------------------------------- MODULE PlanPrices -------------------------------
(***************************************************************************)
(* services/cmd/billing/plans.go: what a plan costs on a date.             *)
(*                                                                         *)
(* The prices are a ledger that is only added to.  On the first day of a   *)
(* year they rise by a factor: every request that reads a price, and every *)
(* cycle, first adds the increases that are missing up to its own day, in  *)
(* statements of their own, so that two of them may add the same one.  An  *)
(* administrator sets a price from a day that is not past when the request *)
(* begins; it may commit after midnight.                                   *)
(*                                                                         *)
(* The monthly price stands for the three prices of a plan.  The ledger    *)
(* has a first entry, so the prices of the plan's row are never read.      *)
(***************************************************************************)
EXTENDS Integers, Sequences, FiniteSetsExt

CONSTANTS
    PpPrices,   \* the prices an administrator may set
    PpFactor,   \* the yearly increase
    PpYear,     \* days of a year
    PpWorkers,  \* requests and cycles in progress
    PpLastDay,  \* bound: the last day
    PpMaxCalls  \* bound: requests and cycles

ASSUME PpAssumption ==
    PpPrices \subseteq Nat \ {0} /\ {PpFactor, PpYear} \subseteq Nat \ {0} /\ {PpLastDay, PpMaxCalls} \subseteq Nat

VARIABLES
    ppDay,     \* today
    ppLedger,  \* billing.subscription_plan_price_history
    ppWork,    \* what each worker does
    ppRead,    \* history: the day whose price was read last, and was it after adding the increases
    ppLate,    \* history: a price was committed for a day that was past by then
    ppCalls

ppVars == <<ppDay, ppLedger, ppWork, ppRead, ppLate, ppCalls>>

PpIdle == [at |-> "idle"]
PpInit ==
    /\ ppDay = 0 /\ ppLedger \in {<<[from |-> 0, kind |-> "BASELINE", price |-> p]>> : p \in PpPrices}
    /\ ppWork = [w \in PpWorkers |-> PpIdle] /\ ppRead = {} /\ ppLate = FALSE /\ ppCalls = 0

PpAt(w, at) == ppWork[w].at = at
PpGo(w, state) == ppWork' = [ppWork EXCEPT ![w] = state]
PpYears == {d \in 1..PpLastDay : d % PpYear = 0}   \* the first days of years, after the first entry

\* loadPlanAt: the last entry of the last day, one set by hand before an increase.
PpRank(kind) == CASE kind = "MANUAL" -> 3 [] kind = "ANNUAL_INCREASE" -> 2 [] OTHER -> 1
PpAfter(i, j) ==
    LET a == ppLedger[i]
        b == ppLedger[j]
    IN  \/ a.from > b.from
        \/ a.from = b.from /\ PpRank(a.kind) > PpRank(b.kind)
        \/ a.from = b.from /\ PpRank(a.kind) = PpRank(b.kind) /\ i >= j
PpEntry(day) ==
    LET due == {i \in DOMAIN ppLedger : ppLedger[i].from <= day}
    IN  ppLedger[CHOOSE i \in due : \A j \in due : PpAfter(i, j)]
PpPrice(day) == PpEntry(day).price
PpRaised(year) == \E i \in DOMAIN ppLedger : ppLedger[i].from = year /\ ppLedger[i].kind = "ANNUAL_INCREASE"

-------------------------------------------------------------------------------
PpTomorrow ==
    /\ ppDay < PpLastDay /\ ppDay' = ppDay + 1
    /\ UNCHANGED <<ppLedger, ppWork, ppRead, ppLate, ppCalls>>
PpBegin(w, request) ==
    /\ PpAt(w, "idle") /\ ppCalls < PpMaxCalls /\ ppCalls' = ppCalls + 1
    /\ PpGo(w, [at |-> "ensure", for |-> request, now |-> ppDay])
    /\ UNCHANGED <<ppDay, ppLedger, ppRead, ppLate>>

(* ensureAnnualPlanIncreases: is it there, what was the price the day before, and the entry *)
PpEnsure(w) ==
    /\ PpAt(w, "ensure")
    /\ LET missing == {y \in PpYears : y <= ppWork[w].now /\ ~PpRaised(y)} IN
       PpGo(w, IF missing = {} THEN [ppWork[w] EXCEPT !.at = "serve"]
               ELSE [at |-> "prior", for |-> ppWork[w].for, now |-> ppWork[w].now, year |-> Min(missing)])
    /\ UNCHANGED <<ppDay, ppLedger, ppRead, ppLate, ppCalls>>
PpDayBefore(year) == year - 1
PpPrior(w) ==
    /\ PpAt(w, "prior")
    /\ LET r == ppWork[w] IN
       PpGo(w, [at |-> "raise", for |-> r.for, now |-> r.now, year |-> r.year, price |-> PpPrice(PpDayBefore(r.year)) * PpFactor])
    /\ UNCHANGED <<ppDay, ppLedger, ppRead, ppLate, ppCalls>>
PpRaise(w) ==
    /\ PpAt(w, "raise")
    /\ LET r == ppWork[w] IN
       /\ ppLedger' = Append(ppLedger, [from |-> r.year, kind |-> "ANNUAL_INCREASE", price |-> r.price])
       /\ PpGo(w, [at |-> "ensure", for |-> r.for, now |-> r.now])
    /\ UNCHANGED <<ppDay, ppRead, ppLate, ppCalls>>

\* A request shows the price of its day, and a cycle charges that of a period's first day.
PpServe(w, day) ==
    /\ PpAt(w, "serve") /\ ppWork[w].for = "read" /\ day <= ppWork[w].now
    /\ ppRead' = {<<day, TRUE>>} /\ PpGo(w, PpIdle)
    /\ UNCHANGED <<ppDay, ppLedger, ppLate, ppCalls>>
\* The list of plans looks at the clock again, and a partner's plan is shown without adding any.
PpShow ==
    /\ ppRead' = {<<ppDay, FALSE>>}
    /\ UNCHANGED <<ppDay, ppLedger, ppWork, ppLate, ppCalls>>
(* planByKey: PATCH.  A price that is today's is not a change, from whatever day it is set. *)
PpAsk(w, price, from) ==
    /\ PpAt(w, "serve") /\ ppWork[w].for = "patch" /\ from >= ppWork[w].now
    /\ PpGo(w, IF price = PpPrice(ppWork[w].now) THEN PpIdle ELSE [at |-> "set", price |-> price, from |-> from])
    /\ UNCHANGED <<ppDay, ppLedger, ppRead, ppLate, ppCalls>>
PpSet(w) ==
    /\ PpAt(w, "set") /\ PpGo(w, PpIdle)
    /\ LET r == ppWork[w] IN
       /\ ppLedger' = Append(ppLedger, [from |-> r.from, kind |-> "MANUAL", price |-> r.price])
       /\ ppLate' = (ppLate \/ r.from < ppDay)
    /\ UNCHANGED <<ppDay, ppRead, ppCalls>>
\* A failed call or a restart ends a handler between its statements.
PpStop(w) ==
    /\ ~PpAt(w, "idle") /\ PpGo(w, PpIdle)
    /\ UNCHANGED <<ppDay, ppLedger, ppRead, ppLate, ppCalls>>

PpNext ==
    \/ PpTomorrow \/ PpShow
    \/ \E w \in PpWorkers :
          \/ \E request \in {"read", "patch"} : PpBegin(w, request)
          \/ PpEnsure(w) \/ PpPrior(w) \/ PpRaise(w)
          \/ \E day \in 0..PpLastDay : PpServe(w, day)
          \/ \E price \in PpPrices, from \in 0..(PpLastDay + 1) : PpAsk(w, price, from)
          \/ PpSet(w) \/ PpStop(w)

PpSpec == PpInit /\ [][PpNext]_ppVars

-------------------------------------------------------------------------------
\* A year's increase is that of the price before it, once, however many add it at the same
\* time and however late, unless a price was set for the day or committed for one that was past.
PpRaisedOnce ==
    ~ppLate =>
        \A y \in PpYears : PpEntry(y).from = y /\ PpEntry(y).kind = "ANNUAL_INCREASE" => PpPrice(y) = PpFactor * PpPrice(y - 1)

\* The price of a day that was read after adding the increases stays what it was, unless an
\* administrator sets one from that day or an earlier: no increase comes too late for it.
PpStays(reads) ==
    ~ppLate' =>
        \A r \in reads :
            PpPrice(r[1])' # PpPrice(r[1]) => \E w \in PpWorkers : PpSet(w) /\ ppWork[w].from <= r[1]
PpReadStays == PpStays({r \in ppRead : r[2]})

\* What the prices of a plan answer for.
PlanPricesSafe == []PpRaisedOnce /\ [][PpReadStays]_ppVars

\* Not guaranteed, and violated: a PATCH that is accepted decides the price of its day (today's
\* price, set from a later day, does not take back another that was set from it).
PpSetIsKept ==
    \A w \in PpWorkers, price \in PpPrices, from \in 0..(PpLastDay + 1) :
        PpAsk(w, price, from) /\ ppWork'[w].at = "idle" => PpPrice(from) = price
\* Not guaranteed: so does the price of a day that was only shown.
PpShownStays == PpStays(ppRead)
\* Not guaranteed: a price is set for no day that is past.
PpNoneIsLate == ~ppLate
================================================================================
