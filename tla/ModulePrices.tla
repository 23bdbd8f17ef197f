------------------------------ MODULE ModulePrices ------------------------------
(***************************************************************************)
(* services/cmd/catalog/main.go: what one module costs a partner, now and  *)
(* at any other instant.                                                   *)
(*                                                                         *)
(* A PATCH changes the row and adds to a history what the value was and    *)
(* what it is from an instant on, that may be past or to come.  The list,  *)
(* the portfolio and the quotes Billing charges from read the row and the  *)
(* histories each with a query of its own.  A PATCH reads the old value    *)
(* without a lock; a plan, and the golden test partner, write the row and  *)
(* no history.                                                             *)
(*                                                                         *)
(* Days are numbered; 2d is the midnight that begins day d, 2d + 1 its     *)
(* noon, when everything of the day happens.  A PATCH carries one change.  *)
(***************************************************************************)
EXTENDS Integers, Sequences, FiniteSetsExt

CONSTANTS
    MpPrices,  \* the prices an administrator may set
    MpDefault, \* the reference price of the module
    MpWorkers, \* PATCHes in progress
    MpLastDay, \* bound: the last day
    MpMaxCalls \* bound: PATCHes and changes of the plan

ASSUME MpAssumption ==
    /\ MpPrices \subseteq Nat /\ MpDefault \in Nat
    /\ MpLastDay \in Nat /\ MpMaxCalls \in Nat

VARIABLES
    mpDay,      \* today
    mpRow,      \* catalog.partner_modules: included in the base fee, price override, configured
    mpPrices,   \* catalog.price_history of the module
    mpIncluded, \* catalog.partner_module_history of included_in_base
    mpWork,     \* what each PATCH does
    mpBackdated,\* history: a price was set from an instant that was past when its PATCH began
    mpCalls

mpVars == <<mpDay, mpRow, mpPrices, mpIncluded, mpWork, mpBackdated, mpCalls>>

MpNone == -1
MpIdle == [at |-> "idle"]
MpNow == 2 * mpDay + 1
MpTimes == 0..(2 * MpLastDay + 2)
MpMidnights == {2 * d : d \in 0..(MpLastDay + 1)}

MpInit ==
    /\ mpDay = 0
    \* Made for a new partner, with a price or in the base fee.
    /\ mpRow \in {[included |-> FALSE, override |-> MpNone, configured |-> FALSE],
                  [included |-> TRUE, override |-> MpNone, configured |-> TRUE]}
                 \cup {[included |-> FALSE, override |-> p, configured |-> TRUE] : p \in MpPrices}
    /\ mpPrices = <<>> /\ mpIncluded = <<>>
    /\ mpWork = [w \in MpWorkers |-> MpIdle] /\ mpBackdated = FALSE /\ mpCalls = 0

MpAt(w, at) == mpWork[w].at = at
MpGo(w, state) == mpWork' = [mpWork EXCEPT ![w] = state]
MpCall == mpCalls < MpMaxCalls /\ mpCalls' = mpCalls + 1

\* The last entry of a history up to t, and the first one after it, or 0.
MpLast(history, t) ==
    LET due == {i \in DOMAIN history : history[i].at <= t}
    IN  IF due = {} THEN 0
        ELSE CHOOSE i \in due : \A j \in due : history[i].at > history[j].at \/ (history[i].at = history[j].at /\ i >= j)
MpFirst(history, t) ==
    LET ahead == {i \in DOMAIN history : history[i].at > t}
    IN  IF ahead = {} THEN 0
        ELSE CHOOSE i \in ahead : \A j \in ahead : history[i].at < history[j].at \/ (history[i].at = history[j].at /\ i <= j)
MpAsOf(history, t, otherwise) ==
    CASE MpLast(history, t) # 0 -> history[MpLast(history, t)].new
      [] MpLast(history, t) = 0 /\ MpFirst(history, t) # 0 -> history[MpFirst(history, t)].old
      [] OTHER -> otherwise

(* What Billing is quoted for an instant: is there a price, is it included, and what it charges. *)
MpOverride == IF mpRow.override # MpNone THEN mpRow.override ELSE 0
MpReady(t) == mpRow.configured /\ (mpRow.included \/ mpRow.override # MpNone \/ MpLast(mpPrices, t) # 0)
MpPriceAt(t) == MpAsOf(mpPrices, t, MpOverride)
MpIncludedAt(t) == MpAsOf(mpIncluded, t, mpRow.included)
MpCharge(t) == IF MpIncludedAt(t) THEN 0 ELSE MpPriceAt(t)
(* What the list and the portfolio show now. *)
MpEffective(otherwise) ==
    CASE MpLast(mpPrices, MpNow) # 0 -> mpPrices[MpLast(mpPrices, MpNow)].new
      [] MpLast(mpPrices, MpNow) = 0 /\ mpRow.override # MpNone -> mpRow.override
      [] OTHER -> otherwise
MpListed == MpEffective(MpDefault)
MpFee == IF ~mpRow.included /\ mpRow.configured THEN MpEffective(0) ELSE 0
\* The list of what can be billed, and the activation of a module.
MpBillable == MpReady(MpNow)

-------------------------------------------------------------------------------
MpTomorrow ==
    /\ mpDay < MpLastDay /\ mpDay' = mpDay + 1
    /\ UNCHANGED <<mpRow, mpPrices, mpIncluded, mpWork, mpBackdated, mpCalls>>
\* PATCH of the currency or the reference of the quote.
MpConfigure ==
    /\ MpCall /\ mpRow' = [mpRow EXCEPT !.configured = TRUE]
    /\ UNCHANGED <<mpDay, mpPrices, mpIncluded, mpWork, mpBackdated>>
\* A plan that grants the module or does not any more.
MpPlan ==
    /\ MpCall
    /\ mpRow' \in {[mpRow EXCEPT !.included = TRUE, !.configured = TRUE], [mpRow EXCEPT !.included = FALSE]}
    /\ UNCHANGED <<mpDay, mpPrices, mpIncluded, mpWork, mpBackdated>>

\* PATCH of included_in_base.
MpReadIncluded(w, included) ==
    /\ MpAt(w, "idle") /\ MpCall /\ mpRow.included # included
    /\ MpGo(w, [at |-> "included", old |-> mpRow.included, new |-> included])
    /\ UNCHANGED <<mpDay, mpRow, mpPrices, mpIncluded, mpBackdated>>
MpWriteIncluded(w) ==
    /\ MpAt(w, "included") /\ MpGo(w, MpIdle)
    /\ mpRow' = [mpRow EXCEPT !.included = mpWork[w].new, !.configured = TRUE]
    /\ mpIncluded' = Append(mpIncluded, [at |-> MpNow, old |-> mpWork[w].old, new |-> mpWork[w].new])
    /\ UNCHANGED <<mpDay, mpPrices, mpBackdated, mpCalls>>

\* PATCH of the price from an instant, the PATCH's own when it names none.
MpReference == MpDefault   \* mutation of MpOld: the price before is the reference price
MpOld == MpEffective(MpDefault)
MpReadPrice(w, price, from) ==
    /\ MpAt(w, "idle") /\ MpCall
    /\ MpGo(w, [at |-> "price", old |-> MpOld, new |-> price, from |-> from, backdated |-> from < MpNow])
    /\ UNCHANGED <<mpDay, mpRow, mpPrices, mpIncluded, mpBackdated>>
MpWritePrice(w) ==
    /\ MpAt(w, "price") /\ MpGo(w, MpIdle)
    /\ LET r == mpWork[w] IN
       /\ mpRow' = IF r.from <= MpNow THEN [mpRow EXCEPT !.override = r.new, !.configured = TRUE] ELSE mpRow
       /\ mpPrices' = Append(mpPrices, [at |-> r.from, old |-> r.old, new |-> r.new])
       /\ mpBackdated' = (mpBackdated \/ r.backdated)
    /\ UNCHANGED <<mpDay, mpIncluded, mpCalls>>

MpNext ==
    \/ MpTomorrow \/ MpConfigure \/ MpPlan
    \/ \E w \in MpWorkers :
          \/ \E included \in BOOLEAN : MpReadIncluded(w, included)
          \/ MpWriteIncluded(w)
          \/ \E price \in MpPrices, from \in MpTimes : MpReadPrice(w, price, from)
          \/ MpWritePrice(w)

MpSpec == MpInit /\ [][MpNext]_mpVars

-------------------------------------------------------------------------------
\* The three queries agree: the price in the list, and the fee in the portfolio, of a module
\* outside the base fee is the one Billing would be quoted now.
MpListIsQuote == ~mpRow.included /\ MpReady(MpNow) => MpListed = MpPriceAt(MpNow) /\ MpFee = MpPriceAt(MpNow)

\* A module that the list offers to Billing has a price at every midnight to come, from which
\* its next periods are charged.
MpBillableIsQuotable == MpBillable => \A t \in MpMidnights : t > MpNow => MpReady(t)

\* A PATCH changes nothing of what was charged before its own instant, whatever others did
\* between its read and its write, as long as no PATCH is backdated; unless a plan changed the
\* row that it had read, or nothing but a later inclusion made the module free at the time.
MpKnown(t) == MpIncludedAt(t) \/ mpRow.override # MpNone \/ mpPrices # <<>>
MpKept(t) == MpReady(t) /\ MpKnown(t) /\ MpReady(t)' => MpCharge(t)' = MpCharge(t)
MpEarlierIsKept ==
    \A w \in MpWorkers, t \in MpMidnights : ~mpBackdated' =>
        /\ MpWritePrice(w) /\ t < mpWork[w].from => MpKept(t)
        /\ MpWriteIncluded(w) /\ mpWork[w].old = mpRow.included /\ t < MpNow => MpKept(t)

\* What the prices of a module answer for.
ModulePricesSafe == [](MpListIsQuote /\ MpBillableIsQuotable) /\ [][MpEarlierIsKept]_mpVars

\* Not guaranteed, and violated: a backdated PATCH changes nothing before its instant either.
MpBackdatedIsExact == \A w \in MpWorkers, t \in MpMidnights : MpWritePrice(w) /\ t < mpWork[w].from => MpKept(t)
\* Not guaranteed: what was free, for no price was set and the module was included later, stays free.
MpFreeIsKept ==
    \A w \in MpWorkers, t \in MpMidnights :
        ~mpBackdated' /\ MpWritePrice(w) /\ t < mpWork[w].from /\ MpReady(t) => MpCharge(t)' = MpCharge(t)
\* Not guaranteed: an instant that had a price keeps one.
MpStaysQuotable == \A t \in MpMidnights : MpReady(t) => MpReady(t)'
\* Not guaranteed: a module that can be billed has a price at the midnight of the day.
MpTodayIsQuotable == MpBillable => MpReady(2 * mpDay)
\* Not guaranteed: the quote and the row agree about the base fee.
MpIncludedIsQuoted == MpIncludedAt(MpNow) = mpRow.included
================================================================================
