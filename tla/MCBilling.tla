------------------------------- MODULE MCBilling -------------------------------
(***************************************************************************)
(* What a partner contracted and owes at once, which modules it is         *)
(* entitled to, and how it is billed for them, by a plan or by the module, *)
(* each component on one instance.  They share no variable, so each        *)
(* behaviour exercises one of them, chosen at the start.                   *)
(***************************************************************************)
EXTENDS Entitlements, PlanBilling, ModuleBilling, CommercialTerms, TLC

CONSTANTS w1, w2

VARIABLE subject

\* The plan PLUS grants a module that may require the other one or conflict with it.
MCGrants == ("PLUS" :> {"a"})
MCRelations == {<<"a", "REQUIRES", "b">>, <<"a", "CONFLICTS_WITH", "b">>}
MCRowEdits ==
    {[status |-> "ACTIVE"], [status |-> "MAINTENANCE", included |-> TRUE], [status |-> "NOT_LICENSED"],
     [entitlement |-> "CANCEL_PENDING", priced |-> TRUE], [entitlement |-> "INACTIVE"],
     [entitlement |-> "ACTIVE", included |-> FALSE]}
MCModuleEdits ==
    {[published |-> TRUE, ready |-> TRUE], [ready |-> FALSE], [published |-> FALSE],
     [published |-> TRUE], [available |-> FALSE]}

MCTermsEdits == {[fee |-> 2], [fee |-> 0], [waived |-> TRUE], [waived |-> FALSE]}
MCLicenseEdits ==
    {[note |-> "n"], [required |-> 0], [required |-> 2], [waived |-> TRUE], [waived |-> FALSE]}
MCModeEdits ==
    {[billing |-> "PAID"], [billing |-> "COMPLIMENTARY"],
     [charity |-> "APPROVED"], [charity |-> "REJECTED"]}

MCRunning == [published |-> TRUE, ready |-> TRUE, available |-> TRUE]

BillingInit ==
    /\ subject \in {"entitlements", "plan", "modules", "terms"}
    /\ CtInit /\ PbInit /\ MbInit /\ TmInit
    \* A component that is not exercised starts in one of its initial states only.
    /\ subject # "entitlements" => ctModules = [k \in CtKeys |-> MCRunning] /\ ctRows["a"] = CtAbsent
    /\ subject # "plan" => pbSub = PbNone
    /\ subject # "modules" => mbSub = MbNoSub
    /\ subject # "terms" => tmPartner = [reference |-> FALSE, plan |-> FALSE]

BillingNext ==
    /\ UNCHANGED subject
    /\ \/ subject = "entitlements" /\ CtNext /\ UNCHANGED <<pbVars, mbVars, tmVars>>
       \/ subject = "plan" /\ PbNext /\ UNCHANGED <<ctVars, mbVars, tmVars>>
       \/ subject = "modules" /\ MbNext /\ UNCHANGED <<ctVars, pbVars, tmVars>>
       \/ subject = "terms" /\ TmNext /\ UNCHANGED <<ctVars, pbVars, mbVars>>

BillingSpec == BillingInit /\ [][BillingNext]_<<ctVars, pbVars, mbVars, tmVars, subject>>

\* Handlers, cycles and requests are interchangeable.
Symmetry == Permutations({w1, w2})
===============================================================================
