----------------------------- MODULE CommercialTerms -----------------------------
(***************************************************************************)
(* services/cmd/billing: the terms a partner contracted, its activation    *)
(* licence, its commercial mode with the modules of a charity, and the     *)
(* gate that lets provisioning begin.                                      *)
(*                                                                         *)
(* The terms are written under a lock and against the version that was     *)
(* read; the licence and the mode are written whatever they have become    *)
(* since.  A provider's settlement locks the licence.  Once a mode or a    *)
(* selection of modules is committed, the catalogue is told by a call that *)
(* may fail; the daily cycle tells it again.                               *)
(*                                                                         *)
(* A failed call, a client that goes away or a restart ends a handler      *)
(* between its steps.  The catalogue's side of a grant is module           *)
(* Entitlements', the provider's side of a charge module Payments'.        *)
(***************************************************************************)
EXTENDS Integers

CONSTANTS
    TmFee,          \* the activation fee a new partner starts with
    TmTermsEdits,   \* what a PUT of the terms may carry: fee, waived
    TmLicenseEdits, \* what a PUT of the licence may carry: required, waived
    TmModeEdits,    \* what a PATCH of the mode may carry: billing, charity
    TmModules,      \* the modules a charity may choose
    TmPlanModules,  \* the modules of the partner's plan
    TmWorkers,      \* handlers in progress
    TmMaxCalls      \* bound: handlers

TmBillings == {"PAID", "COMPLIMENTARY", "CHARITY"}
TmDecisions == {"NOT_REQUESTED", "PENDING", "APPROVED", "REJECTED"}
TmCarries(edit, field, values) == field \in DOMAIN edit => edit[field] \in values

\* A request that carries a negative amount or an unknown mode is refused before anything is
\* read, and so is one of the licence that carries what the provider manages.
ASSUME TmAssumption ==
    /\ TmFee \in Nat \ {0} /\ TmMaxCalls \in Nat
    /\ \A edit \in TmTermsEdits :
          "version" \notin DOMAIN edit /\ TmCarries(edit, "fee", Nat) /\ TmCarries(edit, "waived", BOOLEAN)
    /\ \A edit \in TmLicenseEdits :
          /\ "status" \notin DOMAIN edit /\ "paid" \notin DOMAIN edit
          /\ TmCarries(edit, "required", Nat) /\ TmCarries(edit, "waived", BOOLEAN)
    /\ \A edit \in TmModeEdits :
          TmCarries(edit, "billing", TmBillings) /\ TmCarries(edit, "charity", TmDecisions)

VARIABLES
    tmTerms,     \* billing.partner_terms
    tmLicense,   \* billing.initial_licenses
    tmCharges,   \* amounts the provider was asked to charge for the licence
    tmSettled,   \* billing.payment_settlements: those that succeeded and were recorded
    tmFile,      \* the agreement and the documents of the partner
    tmPartner,   \* what the partner is: a reference partner, one that has a plan
    tmMode,      \* billing.partner_commercial_modes
    tmSelection, \* billing.partner_charity_module_selections
    tmGranted,   \* what the catalogue was told last
    tmWork,      \* what each worker does
    tmExcuse,    \* history: a grant was lost or overlapped since the last one that was neither
    tmCalls

tmVars == <<tmTerms, tmLicense, tmCharges, tmSettled, tmFile, tmPartner, tmMode, tmSelection, tmGranted,
            tmWork, tmExcuse, tmCalls>>
tmFees == <<tmTerms, tmLicense, tmCharges, tmSettled>>
tmModes == <<tmMode, tmSelection, tmGranted, tmExcuse>>

TmIdle == [at |-> "idle"]
TmPlanned(partner) == IF partner.plan THEN TmPlanModules ELSE {}
TmInit ==
    /\ tmTerms = [version |-> 0, fee |-> TmFee, waived |-> FALSE]
    /\ tmLicense = [status |-> "NOT_PAID", required |-> TmFee, paid |-> 0, waived |-> FALSE]
    /\ tmCharges = {} /\ tmSettled = {}
    /\ tmFile = [agreed |-> FALSE, invoice |-> FALSE, payment |-> FALSE]
    /\ tmPartner \in [reference : BOOLEAN, plan : BOOLEAN]
    /\ tmMode = [billing |-> "PAID", charity |-> "NOT_REQUESTED"] /\ tmSelection = {}
    /\ tmGranted = TmPlanned(tmPartner)
    /\ tmWork = [w \in TmWorkers |-> TmIdle] /\ tmExcuse = FALSE /\ tmCalls = 0

TmAt(w, at) == tmWork[w].at = at
TmGo(w, state) == tmWork' = [tmWork EXCEPT ![w] = state]
TmStart(w) == TmAt(w, "idle") /\ tmCalls < TmMaxCalls /\ tmCalls' = tmCalls + 1
TmCount == tmCalls < TmMaxCalls /\ tmCalls' = tmCalls + 1
TmMerge(row, edit) == [f \in DOMAIN row |-> IF f \in DOMAIN edit THEN edit[f] ELSE row[f]]

-------------------------------------------------------------------------------
(* terms: PUT *)
TmReadTerms(w, edit) ==
    /\ TmStart(w)
    /\ LET next == TmMerge(tmTerms, edit) IN
       TmGo(w, [at |-> "terms", edit |-> edit,
                next |-> [next EXCEPT !.version = @ + 1, !.waived = @ \/ next.fee = 0]])
    /\ UNCHANGED <<tmFees, tmFile, tmPartner, tmModes>>
\* Mutation of TmIsCurrent: the version that is locked is not compared.
TmIsLocked(version) == TRUE
TmIsCurrent(version) == version = tmTerms.version
\* The licence follows the terms in the same transaction.
TmWriteTerms(w) ==
    /\ TmAt(w, "terms") /\ TmGo(w, TmIdle)
    /\ LET next == tmWork[w].next IN
       IF TmIsCurrent(next.version - 1)
       THEN /\ tmTerms' = [next EXCEPT !.version = tmTerms.version + 1]
            /\ tmLicense' = [tmLicense EXCEPT !.required = next.fee, !.waived = next.waived,
                                !.status = CASE next.waived -> "WAIVED"
                                             [] ~next.waived /\ @ = "WAIVED" -> "NOT_PAID"
                                             [] OTHER -> @]
       ELSE UNCHANGED <<tmTerms, tmLicense>>
    /\ UNCHANGED <<tmCharges, tmSettled, tmFile, tmPartner, tmModes, tmCalls>>

(* license: PUT *)
\* All that is written follows from the row that is read here.
TmLicensed(edit) ==
    LET merged == TmMerge(tmLicense, edit)
        next == [merged EXCEPT !.waived = @ \/ merged.required = 0]
    IN  CASE tmLicense.status = "PAID" -> next
          [] tmLicense.status # "PAID" /\ next.waived -> [next EXCEPT !.status = "WAIVED", !.paid = 0]
          [] OTHER -> [next EXCEPT !.status = "NOT_PAID"]
TmReadLicense(w, edit) ==
    /\ TmStart(w) /\ TmGo(w, [at |-> "license", read |-> tmLicense, next |-> TmLicensed(edit)])
    /\ UNCHANGED <<tmFees, tmFile, tmPartner, tmModes>>
TmWriteLicense(w) ==
    /\ TmAt(w, "license") /\ TmGo(w, TmIdle) /\ tmLicense' = tmWork[w].next
    /\ UNCHANGED <<tmTerms, tmCharges, tmSettled, tmFile, tmPartner, tmModes, tmCalls>>

(* collectActivationLicense: the charge is known by its amount *)
TmCollect(w) ==
    /\ TmStart(w) /\ ~tmLicense.waived /\ tmLicense.status # "PAID" /\ tmLicense.required > 0
    /\ TmGo(w, [at |-> "charge", amount |-> tmLicense.required])
    /\ UNCHANGED <<tmFees, tmFile, tmPartner, tmModes>>
TmCharge(w) ==
    /\ TmAt(w, "charge") /\ TmGo(w, TmIdle) /\ tmCharges' = tmCharges \cup {tmWork[w].amount}
    /\ UNCHANGED <<tmTerms, tmLicense, tmSettled, tmFile, tmPartner, tmModes, tmCalls>>
\* paymentSettlement of a charge that succeeded, which may come late and more than once; one
\* that failed leaves the licence as it is.
TmSettle(amount) ==
    /\ amount \in tmCharges \ tmSettled /\ ~tmLicense.waived /\ amount = tmLicense.required
    /\ tmLicense' = [tmLicense EXCEPT !.status = "PAID", !.paid = amount]
    /\ tmSettled' = tmSettled \cup {amount}
    /\ UNCHANGED <<tmTerms, tmCharges, tmFile, tmPartner, tmModes, tmWork, tmCalls>>

-------------------------------------------------------------------------------
(* The agreement, the documents and the gate of provisioning *)
TmAgree(agreed) ==
    /\ TmCount /\ agreed # tmFile.agreed /\ tmFile' = [tmFile EXCEPT !.agreed = agreed]
    /\ UNCHANGED <<tmFees, tmPartner, tmModes, tmWork>>
\* A document is registered once the evidence service holds its file intact.
TmRegister(kind) ==
    /\ TmCount /\ ~tmFile[kind] /\ tmFile' = [tmFile EXCEPT ![kind] = TRUE]
    /\ UNCHANGED <<tmFees, tmPartner, tmModes, tmWork>>
\* The gate reads the licence, the documents and then the agreement.
TmGateLicense(w) ==
    /\ TmStart(w) /\ TmGo(w, [at |-> "documents", license |-> tmLicense])
    /\ UNCHANGED <<tmFees, tmFile, tmPartner, tmModes>>
TmGateDocuments(w) ==
    /\ TmAt(w, "documents")
    /\ TmGo(w, [at |-> "agreement", license |-> tmWork[w].license, invoice |-> tmFile.invoice, payment |-> tmFile.payment])
    /\ UNCHANGED <<tmFees, tmFile, tmPartner, tmModes, tmCalls>>
TmPaidUp(license, invoice, payment, agreed) == agreed /\ invoice /\ license.status = "PAID" /\ payment
TmWaiver(license) == license.status = "WAIVED" /\ license.waived
TmAllowed(w) ==
    LET r == tmWork[w] IN
    TmPaidUp(r.license, r.invoice, r.payment, tmFile.agreed) \/ (tmPartner.reference /\ TmWaiver(r.license))
TmAnswer(w) ==
    /\ TmAt(w, "agreement") /\ TmGo(w, TmIdle)
    /\ UNCHANGED <<tmFees, tmFile, tmPartner, tmModes, tmCalls>>
\* commercialStatus: what the administrator's page says of it.
TmCharitable(mode) == mode.billing = "CHARITY" /\ mode.charity = "APPROVED"
TmProvisionable ==
    \/ TmPaidUp(tmLicense, tmFile.invoice, tmFile.payment, tmFile.agreed)
    \/ TmWaiver(tmLicense) /\ (tmPartner.reference \/ tmMode.billing = "COMPLIMENTARY" \/ TmCharitable(tmMode))

-------------------------------------------------------------------------------
(* The mode and the modules of a charity *)
TmGranting == {"mode", "select", "sync", "keys", "grant"}
TmOthers(w) == \E v \in TmWorkers \ {w} : tmWork[v].at \in TmGranting
\* What the catalogue should have been told.
TmOwed(mode, selection) == IF TmCharitable(mode) THEN selection ELSE TmPlanned(tmPartner)

\* commercialMode: an approval makes a charity, and one that is rejected pays.
TmDecided(mode, edit) ==
    LET next == TmMerge(mode, edit)
        pays == next.charity = "REJECTED" /\ mode.billing = "CHARITY" /\ next.billing = "CHARITY"
    IN  [next EXCEPT !.billing = CASE next.charity = "APPROVED" -> "CHARITY" [] pays -> "PAID" [] OTHER -> @]
TmReadMode(w, edit) ==
    /\ TmStart(w)
    /\ LET next == TmDecided(tmMode, edit)
           refused == next.billing = "CHARITY" /\ next.charity # "APPROVED"
       IN  TmGo(w, IF refused \/ next = tmMode THEN TmIdle ELSE [at |-> "mode", read |-> tmMode, next |-> next])
    /\ UNCHANGED <<tmFees, tmFile, tmPartner, tmModes>>
TmAfterMode(old, new) ==
    CASE TmCharitable(new) -> [at |-> "sync"]
      [] ~TmCharitable(new) /\ old.billing = "CHARITY" -> [at |-> "grant", keys |-> TmPlanned(tmPartner)]
      [] OTHER -> TmIdle
TmWriteMode(w) ==
    /\ TmAt(w, "mode")
    /\ LET r == tmWork[w] IN tmMode' = r.next /\ TmGo(w, TmAfterMode(r.read, r.next))
    /\ tmExcuse' = (tmExcuse \/ TmOthers(w))
    /\ UNCHANGED <<tmFees, tmFile, tmPartner, tmSelection, tmGranted, tmCalls>>

\* requestCharity: the database refuses a charity that is not approved.
TmAskCharity(w) ==
    /\ TmStart(w) /\ TmGo(w, IF tmMode.charity = "APPROVED" THEN TmIdle ELSE [at |-> "request"])
    /\ UNCHANGED <<tmFees, tmFile, tmPartner, tmModes>>
TmRequested(mode) == IF mode.billing = "CHARITY" THEN mode ELSE [mode EXCEPT !.charity = "PENDING"]
TmWriteRequest(w) ==
    /\ TmAt(w, "request") /\ TmGo(w, TmIdle) /\ tmMode' = TmRequested(tmMode)
    /\ UNCHANGED <<tmFees, tmFile, tmPartner, tmSelection, tmGranted, tmExcuse, tmCalls>>

\* charityModules: PUT.
TmChoose(w, keys) ==
    /\ TmStart(w) /\ TmGo(w, IF TmCharitable(tmMode) THEN [at |-> "select", keys |-> keys] ELSE TmIdle)
    /\ UNCHANGED <<tmFees, tmFile, tmPartner, tmModes>>
TmSelect(w) ==
    /\ TmAt(w, "select") /\ tmSelection' = tmWork[w].keys /\ TmGo(w, [at |-> "sync"])
    /\ tmExcuse' = (tmExcuse \/ TmOthers(w))
    /\ UNCHANGED <<tmFees, tmFile, tmPartner, tmMode, tmGranted, tmCalls>>

\* The billing cycle tells the catalogue again, of a partner that has a plan.
TmCycle(w) ==
    /\ TmStart(w) /\ tmPartner.plan
    /\ TmGo(w, IF TmCharitable(tmMode) THEN [at |-> "sync"] ELSE [at |-> "grant", keys |-> TmPlanModules])
    /\ UNCHANGED <<tmFees, tmFile, tmPartner, tmModes>>
\* syncCharityEntitlements: the mode, the selection and the call.
TmSyncMode(w) ==
    /\ TmAt(w, "sync") /\ TmGo(w, IF TmCharitable(tmMode) THEN [at |-> "keys"] ELSE TmIdle)
    /\ UNCHANGED <<tmFees, tmFile, tmPartner, tmModes, tmCalls>>
TmSyncKeys(w) ==
    /\ TmAt(w, "keys") /\ TmGo(w, [at |-> "grant", keys |-> tmSelection])
    /\ UNCHANGED <<tmFees, tmFile, tmPartner, tmModes, tmCalls>>
TmGrant(w) ==
    /\ TmAt(w, "grant") /\ TmGo(w, TmIdle) /\ tmGranted' = tmWork[w].keys
    /\ tmExcuse' = (tmExcuse /\ (TmOthers(w) \/ tmWork[w].keys # TmOwed(tmMode, tmSelection)))
    /\ UNCHANGED <<tmFees, tmFile, tmPartner, tmMode, tmSelection, tmCalls>>

\* partnerOnboarding, as it classifies the partner: the mode, and a licence that is waived if
\* nothing is to be paid.  The catalogue is not told.
TmClasses ==
    {[billing |-> "PAID", charity |-> "NOT_REQUESTED"], [billing |-> "COMPLIMENTARY", charity |-> "NOT_REQUESTED"],
     [billing |-> "CHARITY", charity |-> "APPROVED"]}
TmClassify(mode) ==
    /\ TmCount /\ tmMode' = mode
    /\ tmLicense' = IF mode.billing = "PAID" THEN tmLicense
                    ELSE [status |-> "WAIVED", required |-> 0, paid |-> 0, waived |-> TRUE]
    /\ tmExcuse' = (tmExcuse \/ TmCharitable(mode) # TmCharitable(tmMode) \/ \E v \in TmWorkers : tmWork[v].at \in TmGranting)
    /\ UNCHANGED <<tmTerms, tmCharges, tmSettled, tmFile, tmPartner, tmSelection, tmGranted, tmWork>>

TmStop(w) ==
    /\ ~TmAt(w, "idle") /\ TmGo(w, TmIdle)
    /\ tmExcuse' = (tmExcuse \/ tmWork[w].at \in {"sync", "keys", "grant"})
    /\ UNCHANGED <<tmFees, tmFile, tmPartner, tmMode, tmSelection, tmGranted, tmCalls>>

TmNext ==
    \/ \E amount \in tmCharges : TmSettle(amount)
    \/ \E agreed \in BOOLEAN : TmAgree(agreed)
    \/ \E kind \in {"invoice", "payment"} : TmRegister(kind)
    \/ \E mode \in TmClasses : TmClassify(mode)
    \/ \E w \in TmWorkers :
          \/ \E edit \in TmTermsEdits : TmReadTerms(w, edit)
          \/ \E edit \in TmLicenseEdits : TmReadLicense(w, edit)
          \/ \E edit \in TmModeEdits : TmReadMode(w, edit)
          \/ \E keys \in SUBSET TmModules : TmChoose(w, keys)
          \/ TmWriteTerms(w) \/ TmWriteLicense(w) \/ TmCollect(w) \/ TmCharge(w)
          \/ TmGateLicense(w) \/ TmGateDocuments(w) \/ TmAnswer(w)
          \/ TmWriteMode(w) \/ TmAskCharity(w) \/ TmWriteRequest(w) \/ TmSelect(w)
          \/ TmCycle(w) \/ TmSyncMode(w) \/ TmSyncKeys(w) \/ TmGrant(w) \/ TmStop(w)

TmSpec == TmInit /\ [][TmNext]_tmVars

-------------------------------------------------------------------------------
\* A licence is paid only by what the provider confirmed, and a waiver and its flag agree,
\* whichever of its four writers came last with whatever it had read.
TmLicenseIsTrue ==
    /\ tmLicense.paid \in tmSettled \cup {0} /\ (tmLicense.status = "PAID" => tmLicense.paid # 0)
    /\ tmLicense.status = "WAIVED" => tmLicense.waived
    /\ tmLicense.status = "NOT_PAID" => ~tmLicense.waived
    /\ tmLicense.required = 0 => tmLicense.waived

\* A charity is an approved one, and an approval makes a charity: although the request and
\* the decision are written by handlers that each read the mode before.
TmCharityIsApproved == tmMode.billing = "CHARITY" <=> tmMode.charity = "APPROVED"

\* At rest the catalogue grants what the mode gives, unless a grant was lost or overlapped
\* and none came after it.
TmGrantFollowsMode ==
    (\A w \in TmWorkers : tmWork[w].at \notin TmGranting) =>
        tmExcuse \/ tmGranted = TmOwed(tmMode, tmSelection)

\* A PUT of the terms loses nothing: what it does not carry stays as it was when it commits.
TmNoLostTerms ==
    \A w \in TmWorkers :
        TmWriteTerms(w) /\ tmTerms' # tmTerms =>
            LET kept == {"fee", "waived"} \ DOMAIN tmWork[w].edit IN
            \A f \in kept : tmTerms'[f] = tmTerms[f] \/ (f = "waived" /\ tmTerms'.fee = 0)

\* A paid licence is unpaid only by a waiver, or by a PUT that had read it before the payment.
TmPaidIsLeft ==
    tmLicense.status = "PAID" /\ tmLicense'.status # "PAID" =>
        tmLicense'.status = "WAIVED" \/ \E w \in TmWorkers : TmWriteLicense(w) /\ tmWork[w].read.status # "PAID"

\* The gate opens only on what was paid or waived, and, if the licence did not change since it
\* was read, only when the page says so as well.
TmGateIsEarned ==
    \A w \in TmWorkers :
        TmAnswer(w) /\ TmAllowed(w) =>
            /\ tmSettled # {} \/ tmPartner.reference
            /\ tmWork[w].license = tmLicense => TmProvisionable

\* What the contract of a partner answers for.
CommercialTermsSafe ==
    /\ [](TmLicenseIsTrue /\ TmCharityIsApproved /\ TmGrantFollowsMode)
    /\ [][TmNoLostTerms /\ TmPaidIsLeft /\ TmGateIsEarned]_tmVars

\* Not guaranteed, and violated: a licence that was paid stays paid or is waived (a PUT of the
\* licence that read it before the payment takes the payment back).
TmPaymentStays == tmLicense.status = "PAID" => tmLicense'.status # "NOT_PAID"
\* Not guaranteed: what the provider was asked for can be recorded (a waiver that comes before
\* the settlement refuses it, and so does another fee).
TmChargeIsRecorded == \A a \in tmCharges : a \in tmSettled \/ (~tmLicense.waived /\ tmLicense.required = a)
\* Not guaranteed: a fee that is asked for again can be paid (after a waiver is taken back, the
\* same amount is the same charge, which was settled).
TmUnpaidIsPayable == tmLicense.status = "NOT_PAID" => tmLicense.required \notin tmSettled
\* Not guaranteed: the gate opens when the page says so (it knows no waiver but a reference
\* partner's).
TmPageIsHonoured ==
    \A w \in TmWorkers : TmAnswer(w) /\ TmProvisionable /\ tmWork[w].license = tmLicense => TmAllowed(w)
================================================================================
