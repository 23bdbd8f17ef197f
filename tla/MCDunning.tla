------------------------------- MODULE MCDunning ------------------------------
(***************************************************************************)
(* Five small instances of Dunning, checked in one run.  Each starts from  *)
(* a reachable state and bounds what an unbounded one would repeat: the    *)
(* requests that run, the decisions of the provider, the faults and the    *)
(* days.  With an instance's bounds a step of it is a step of Dunning.     *)
(***************************************************************************)
EXTENDS Dunning

CONSTANTS i1, i2, w1, w2

VARIABLE instance

mcVars == <<vars, instance>>

Instances ==
    { \* One invoice, one request and a fault, to the day after the cure window.
      [start |-> "one", workers |-> {w1}, reports |-> 1, faults |-> 1, last |-> 4],
      \* A second decision of the provider instead of the fault, to its last day.
      [start |-> "one", workers |-> {w1}, reports |-> 2, faults |-> 0, last |-> 3],
      \* One invoice and two requests at once, to the day of the third attempt.
      [start |-> "one", workers |-> {w1, w2}, reports |-> 1, faults |-> 0, last |-> 2],
      \* Two invoices, of which the first has suspended the partner and the
      \* second's third charge is undecided, with one decision and a fault or two.
      [start |-> "two", workers |-> {w1}, reports |-> 5, faults |-> 1, last |-> 4],
      [start |-> "two", workers |-> {w1}, reports |-> 6, faults |-> 0, last |-> 3] }

Fresh ==
    [workflow |-> "APPROVED", status |-> "DRAFT", provider |-> "NOT_CONFIGURED",
     attempts |-> 0, dunning |-> "NONE", due |-> NoDay, previous |-> "", paidAt |-> NoDay,
     ledger |-> {}]

Cancelled == Acted(Fresh, "cancel")

\* Sent on day 0, charged on each day of the schedule.
Charged(answer) == Marked([Acted(Fresh, "send") EXCEPT !.attempts = 2], 3, answer)

OneInvoice ==
    /\ invoice = (i1 :> Fresh) @@ (i2 :> Cancelled)
    /\ partner = [lifecycle |-> "LIVE", entitled |-> TRUE, subscription |-> "ACTIVE"]
    /\ charge = [c \in Charges |-> "NONE"]
    /\ report = [c \in Charges |-> "NONE"]
    /\ day = 0
    /\ cycled = FALSE

TwoInvoices ==
    /\ invoice =
          (i1 :> [Charged("REQUIRES_ACTION") EXCEPT
                     !.dunning = "SUSPENDED", !.due = ThirdOffset + CureDays, !.previous = "LIVE"])
          @@ (i2 :> Charged("PROCESSING"))
    /\ partner = [lifecycle |-> "SUSPENDED", entitled |-> FALSE, subscription |-> "SUSPENDED"]
    /\ charge = [c \in Charges |->
          CASE c[2] = 0 -> "NONE"
            [] c[2] \in 1..2 -> "FAILED"
            [] c[2] = 3 -> invoice[c[1]].provider]
    /\ report = [c \in Charges |-> IF c[2] \in 1..2 THEN "SETTLED" ELSE "NONE"]
    /\ day = ThirdOffset
    /\ cycled = TRUE

MCInit ==
    /\ instance \in Instances
    /\ CASE instance.start = "one" -> OneInvoice
         [] instance.start = "two" -> TwoInvoices
    /\ program = [p \in Processes |-> <<>>]
    /\ faults = 0

Within ==
    /\ \A p \in Workers \ instance.workers : program[p] = <<>>
    /\ Cardinality({c \in Charges : report[c] # "NONE"}) <= instance.reports
    /\ faults <= instance.faults
    /\ day <= instance.last

MCNext == Next /\ UNCHANGED instance /\ Within'

MCSpec == MCInit /\ [][MCNext]_mcVars
=============================================================================
