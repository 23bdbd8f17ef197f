------------------------------ MODULE MCCommerce ------------------------------
(***************************************************************************)
(* What plans and modules cost, and the invoices a partner issues itself   *)
(* with their amounts, each component on one instance.  They share no      *)
(* variable, so each behaviour exercises one of them, chosen at the start. *)
(***************************************************************************)
EXTENDS TenantInvoices, InvoiceMath, PlanPrices, ModulePrices, TLC

CONSTANTS i1, i2, s1, full, partial, w1, w2

VARIABLE subject

MCAutoKey == [s \in Sources |-> <<"AUTO", s>>]
MCKeysWithAuto == {<<"USER", 1>>, <<"AUTO", s1>>}

\* Amounts on both sides of a half, and of the largest integer: 11 * 10 / 2 = 55, and
\* (55 - 4) * 20 + 10 > 1023 >= (55 - 4) * 20.  Each limit is passed by one.
MCLines ==
    [quantity : {0, 1, 10, 11, 12}, price : {0, 3, 10, 11}, discount : {-1, 0, 1, 4, 56},
     rate : {0, 7, 19, 20, 21}]

commerceVars == <<invoiceVars, imVars, ppVars, mpVars, subject>>

CommerceInit ==
    /\ subject \in {"tenant", "math", "plan-prices", "module-prices"}
    /\ Init /\ ImInit /\ PpInit /\ MpInit
    \* A component that is not exercised starts in one of its initial states only.
    /\ subject # "tenant" => policy = CHOOSE p \in Policies : TRUE
    /\ subject # "plan-prices" => ppLedger[1].price = 1
    /\ subject # "module-prices" => mpRow.override = 1

CommerceNext ==
    /\ UNCHANGED subject
    /\ \/ subject = "tenant" /\ Next
          /\ UNCHANGED <<imVars, ppVars, mpVars>>
       \/ subject = "math" /\ ImNext
          /\ UNCHANGED <<invoiceVars, ppVars, mpVars>>
       \/ subject = "plan-prices" /\ PpNext
          /\ UNCHANGED <<invoiceVars, imVars, mpVars>>
       \/ subject = "module-prices" /\ MpNext
          /\ UNCHANGED <<invoiceVars, imVars, ppVars>>

CommerceSpec == CommerceInit /\ [][CommerceNext]_commerceVars

\* What is quoted and shown is what was agreed, in the plans and in the modules, and an
\* invoice adds up.
AmountsSafe ==
    /\ [](PpRaisedOnce /\ MpListIsQuote /\ MpBillableIsQuotable /\ ImAddsUp)
    /\ [][PpReadStays /\ MpEarlierIsKept /\ ImLineIsExact /\ ImRefusalIsDue]_commerceVars

\* Workers are interchangeable, and so are the ids an invoice may get.
Symmetry == Permutations({w1, w2}) \cup Permutations(Ids)
===============================================================================
