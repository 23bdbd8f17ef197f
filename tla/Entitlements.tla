------------------------------ MODULE Entitlements ------------------------------
(***************************************************************************)
(* services/cmd/catalog: the modules of the catalogue, which of them one   *)
(* partner may use, and the plan that decides it.                          *)
(*                                                                         *)
(* Every request about a partner's modules first makes its rows agree with *)
(* the plan's policy (ensurePartnerModules), from a policy it read before  *)
(* its transaction.  Billing applies a plan; an administrator edits a      *)
(* module or a row, reading it before writing it back without a lock; the  *)
(* partner activates a module under row locks, and reads the modules it    *)
(* requires and conflicts with without any.                                *)
(*                                                                         *)
(* A transaction's writes become visible in the step that commits it.  The *)
(* plan "FLEX" is the unlimited one: it grants every module that can run.  *)
(***************************************************************************)
EXTENDS Integers, FiniteSets

CONSTANTS
    CtKeys,        \* modules
    CtPlans,       \* plans of a fixed set of modules, besides FLEX
    CtGrants,      \* what each of those plans grants
    CtRelations,   \* the relationships an administrator may set: <<key, relation, target>>
    CtEdits,       \* what a PATCH of a partner's module may carry
    CtModuleEdits, \* what a PATCH of a module may carry
    CtWorkers,     \* requests in progress at once
    CtMaxRequests  \* bound: requests

ASSUME CtAssumption ==
    /\ "FLEX" \notin CtPlans /\ CtGrants \in [CtPlans -> SUBSET CtKeys] /\ CtMaxRequests \in Nat
    \* A PATCH carries some of the fields, a status or an entitlement but not both, each of a
    \* value that is accepted.
    /\ \A e \in CtEdits :
          /\ DOMAIN e \subseteq {"status", "entitlement", "included", "priced"}
          /\ ~({"status", "entitlement"} \subseteq DOMAIN e)
          /\ "status" \in DOMAIN e => e.status \in {"NOT_LICENSED", "ACTIVE", "MAINTENANCE"}
          /\ "entitlement" \in DOMAIN e => e.entitlement \in {"INACTIVE", "ACTIVE", "CANCEL_PENDING"}
          /\ \A f \in DOMAIN e \cap {"included", "priced"} : e[f] \in BOOLEAN
    /\ \A e \in CtModuleEdits : \A f \in DOMAIN e : e[f] \in BOOLEAN

VARIABLES
    ctModules,  \* catalog.modules
    ctRelated,  \* catalog.module_relationships
    ctRows,     \* catalog.partner_modules of the partner
    ctPolicy,   \* catalog.partner_plan_entitlement_policies of the partner
    ctWork,     \* what each worker does
    ctExcuse,   \* a reconciliation and a plan change overlapped, and no plan was applied since
    ctRequests  \* bound used up

ctVars == <<ctModules, ctRelated, ctRows, ctPolicy, ctWork, ctExcuse, ctRequests>>

CtNone == "none"
CtModule == [published : BOOLEAN, ready : BOOLEAN, available : BOOLEAN]
CtRow ==
    [status : {"ABSENT", "NOT_LICENSED", "ACTIVE", "MAINTENANCE"},
     entitlement : {"INACTIVE", "ACTIVE", "CANCEL_PENDING"},
     included : BOOLEAN, priced : BOOLEAN,
     planned : BOOLEAN,   \* entitlement_source is PLAN or CHARITY
     plan : CtPlans \cup {"", "FLEX"}]
CtFresh ==
    [status |-> "NOT_LICENSED", entitlement |-> "INACTIVE", included |-> FALSE, priced |-> FALSE,
     planned |-> FALSE, plan |-> ""]
CtAbsent == [CtFresh EXCEPT !.status = "ABSENT"]
CtGranted(row, plan) ==
    [row EXCEPT !.status = "ACTIVE", !.entitlement = "ACTIVE", !.included = TRUE,
                !.planned = TRUE, !.plan = plan]
CtRevoked(row) ==
    [row EXCEPT !.status = "NOT_LICENSED", !.entitlement = "INACTIVE", !.included = FALSE]
CtIdle == [at |-> "idle"]

CtInit ==
    /\ ctModules \in [CtKeys -> {m \in CtModule : m.published = m.ready /\ m.available}]
    /\ ctRelated = {} /\ ctPolicy = CtNone
    \* A new partner, or one whose unlimited plan is older than the policies.
    /\ ctRows \in {[k \in CtKeys |-> CtAbsent], [k \in CtKeys |-> CtGranted(CtFresh, "FLEX")]}
    /\ ctWork = [w \in CtWorkers |-> CtIdle] /\ ctExcuse = FALSE /\ ctRequests = 0

CtAt(w, at) == ctWork[w].at = at
CtGo(w, state) == ctWork' = [ctWork EXCEPT ![w] = state]
CtRuns(k) == ctModules[k].published /\ ctModules[k].ready /\ ctModules[k].available
CtReady(row) == row.included \/ row.priced
\* An activation holds the rows of its module, and an application of a plan the policy's.
CtUnlockedAlways(keys) == TRUE   \* mutation of CtUnlocked: the activation reads without FOR UPDATE
CtUnlocked(keys) == \A u \in CtWorkers : ctWork[u].at \in {"relations", "activate"} => ctWork[u].key \notin keys
CtPolicyFree == \A u \in CtWorkers : ctWork[u].at = "apply" => ~ctWork[u].holds
CtApplying == \E u \in CtWorkers : CtAt(u, "apply")

-------------------------------------------------------------------------------
\* The catalogue: a PATCH writes back the whole row it read, merged with its fields.
CtReadModule(w, k, edit) ==
    /\ CtAt(w, "idle") /\ ctRequests < CtMaxRequests /\ ctRequests' = ctRequests + 1
    /\ LET merged == [f \in DOMAIN ctModules[k] |-> IF f \in DOMAIN edit THEN edit[f] ELSE ctModules[k][f]]
       IN  CtGo(w, IF merged.published /\ ~merged.ready THEN CtIdle
                   ELSE [at |-> "module", key |-> k, row |-> merged])
    /\ UNCHANGED <<ctModules, ctRelated, ctRows, ctPolicy, ctExcuse>>
CtWriteModule(w) ==
    /\ CtAt(w, "module") /\ CtUnlocked({ctWork[w].key})
    /\ ctModules' = [ctModules EXCEPT ![ctWork[w].key] = ctWork[w].row] /\ CtGo(w, CtIdle)
    /\ UNCHANGED <<ctRelated, ctRows, ctPolicy, ctExcuse, ctRequests>>
\* POST or DELETE of a relationship.
CtRelate(w, r) ==
    /\ CtAt(w, "idle") /\ ctRequests < CtMaxRequests /\ ctRequests' = ctRequests + 1
    /\ ctRelated' \in {ctRelated \cup {r}, ctRelated \ {r}}
    /\ UNCHANGED <<ctModules, ctRows, ctPolicy, ctWork, ctExcuse>>

-------------------------------------------------------------------------------
\* ensurePartnerModules, before any request about the partner: the missing rows are made,
\* and the policy is read.
CtBegin(w, request) ==
    /\ CtAt(w, "idle") /\ ctRequests < CtMaxRequests /\ ctRequests' = ctRequests + 1
    /\ ctRows' = [k \in CtKeys |-> IF ctRows[k] = CtAbsent THEN CtFresh ELSE ctRows[k]]
    /\ CtGo(w, [at |-> "ensure", for |-> request])
    /\ UNCHANGED <<ctModules, ctRelated, ctPolicy, ctExcuse>>
CtThen(w, at) == CtGo(w, [at |-> at, for |-> ctWork[w].for])
CtReadPolicy(w) ==
    /\ CtAt(w, "ensure")
    /\ CtThen(w, CASE ctPolicy = CtNone -> "legacy" [] ctPolicy = "FLEX" -> "reconcile" [] OTHER -> "serve")
    /\ UNCHANGED <<ctModules, ctRelated, ctRows, ctPolicy, ctExcuse, ctRequests>>
\* Rows of the unlimited plan without a policy bring the policy back.
CtFindLegacy(w) ==
    /\ CtAt(w, "legacy")
    /\ CtThen(w, IF \E k \in CtKeys : ctRows[k].plan = "FLEX" THEN "reinstate" ELSE "serve")
    /\ UNCHANGED <<ctModules, ctRelated, ctRows, ctPolicy, ctExcuse, ctRequests>>
CtReinstate(w) ==
    /\ CtAt(w, "reinstate") /\ CtPolicyFree
    /\ ctPolicy' = "FLEX" /\ ctExcuse' = (ctExcuse \/ ctPolicy \in CtPlans \/ CtApplying) /\ CtThen(w, "reconcile")
    /\ UNCHANGED <<ctModules, ctRelated, ctRows, ctRequests>>
\* Every module that can run is granted, and what the plan granted of the others is revoked.
CtReconciled(k) ==
    CASE CtRuns(k) -> CtGranted(ctRows[k], "FLEX")
      [] ctRows[k].plan = "FLEX" /\ ~CtRuns(k) -> CtRevoked(ctRows[k])
      [] OTHER -> ctRows[k]
CtReconcile(w) ==
    /\ CtAt(w, "reconcile") /\ CtUnlocked(CtKeys)
    /\ ctRows' = [k \in CtKeys |-> CtReconciled(k)]
    /\ ctExcuse' = (ctExcuse \/ ctPolicy # "FLEX" \/ CtApplying) /\ CtThen(w, "serve")
    /\ UNCHANGED <<ctModules, ctRelated, ctPolicy, ctRequests>>
\* A list, a price, a quote or the history is read.
CtServe(w) ==
    /\ CtAt(w, "serve") /\ ctWork[w].for = "list" /\ CtGo(w, CtIdle)
    /\ UNCHANGED <<ctModules, ctRelated, ctRows, ctPolicy, ctExcuse, ctRequests>>

-------------------------------------------------------------------------------
\* PATCH of a partner's module: the status or the entitlement, read and written back, and
\* the terms.  What it may not do without Billing is refused.
CtRefused(row, edit, internal) ==
    \/ "status" \in DOMAIN edit /\ ~internal /\ edit.status = "NOT_LICENSED" /\ row.status # "NOT_LICENSED"
    \/ /\ "entitlement" \in DOMAIN edit /\ ~internal
       /\ \/ edit.entitlement = "CANCEL_PENDING"
          \/ edit.entitlement = "INACTIVE" /\ row.entitlement # "INACTIVE"
CtStatusEdit(row, status) ==
    [status |-> status,
     entitlement |-> CASE status = "ACTIVE" -> "ACTIVE" [] status = "NOT_LICENSED" -> "INACTIVE" [] OTHER -> row.entitlement]
CtEntitlementEdit(row, entitlement) ==
    [entitlement |-> entitlement, status |-> IF entitlement = "INACTIVE" THEN "NOT_LICENSED" ELSE row.status]
CtStateEdit(row, edit) ==
    CASE "status" \in DOMAIN edit /\ edit.status # row.status -> CtStatusEdit(row, edit.status)
      [] "entitlement" \in DOMAIN edit /\ edit.entitlement # row.entitlement -> CtEntitlementEdit(row, edit.entitlement)
      [] OTHER -> <<>>
\* An equal "included" is not written; the row is compared under its lock only if the pair
\* has been written before it.
CtSkipped(row, edit) ==
    {f \in DOMAIN edit \cap {"included"} : DOMAIN CtStateEdit(row, edit) = {} /\ edit[f] = row[f]}
CtTerms(row, edit) ==
    [f \in (DOMAIN edit \cap {"included", "priced"}) \ CtSkipped(row, edit) |-> edit[f]]
CtReadRow(w, k, edit, internal) ==
    /\ CtAt(w, "serve") /\ ctWork[w].for = "patch"
    /\ CtGo(w, IF CtRefused(ctRows[k], edit, internal) THEN CtIdle
               ELSE [at |-> "row", key |-> k, state |-> CtStateEdit(ctRows[k], edit),
                     terms |-> CtTerms(ctRows[k], edit)])
    /\ UNCHANGED <<ctModules, ctRelated, ctRows, ctPolicy, ctExcuse, ctRequests>>
CtMerge(row, fields) == [f \in DOMAIN row |-> IF f \in DOMAIN fields THEN fields[f] ELSE row[f]]
CtWriteRow(w) ==
    /\ CtAt(w, "row") /\ CtUnlocked({ctWork[w].key})
    /\ ctRows' = [ctRows EXCEPT ![ctWork[w].key] = CtMerge(CtMerge(@, ctWork[w].state), ctWork[w].terms)]
    /\ CtGo(w, CtIdle)
    /\ UNCHANGED <<ctModules, ctRelated, ctPolicy, ctExcuse, ctRequests>>

-------------------------------------------------------------------------------
\* applyPlanEntitlements: the policy is written and its row held, the modules are validated
\* and the rows read; NO_PLAN deletes the policy, and holds nothing if there is none.
CtTarget(plan) ==
    CASE plan = "FLEX" -> {k \in CtKeys : CtRuns(k)} [] plan = "NO_PLAN" -> {} [] OTHER -> CtGrants[plan]
CtChoose(w, plan) ==
    /\ CtAt(w, "serve") /\ ctWork[w].for = "plan"
    /\ CtGo(w, [at |-> "keys", plan |-> plan, target |-> CtTarget(plan)])
    /\ UNCHANGED <<ctModules, ctRelated, ctRows, ctPolicy, ctExcuse, ctRequests>>
\* What the plan before it granted goes, and so does what was active without it.
CtLoses(k) == ctRows[k].status = "ACTIVE" \/ ctRows[k].entitlement = "ACTIVE" \/ ctRows[k].planned
CtStart(w) ==
    /\ CtAt(w, "keys") /\ CtPolicyFree
    /\ LET r == ctWork[w] IN
       CtGo(w, IF \E k \in r.target : ~(ctModules[k].published /\ ctModules[k].ready) THEN CtIdle
               ELSE [at |-> "apply", plan |-> r.plan, target |-> r.target, read |-> ctRows,
                     revoke |-> {k \in CtKeys \ r.target : CtLoses(k)},
                     holds |-> (r.plan # "NO_PLAN" \/ ctPolicy # CtNone), alone |-> ~CtApplying])
    /\ UNCHANGED <<ctModules, ctRelated, ctRows, ctPolicy, ctExcuse, ctRequests>>
CtApplied(r, k) ==
    CASE k \in r.target -> CtGranted(ctRows[k], r.plan)
      [] k \in r.revoke -> [CtRevoked(ctRows[k]) EXCEPT !.planned = TRUE, !.plan = ""]
      [] OTHER -> ctRows[k]
CtCommit(w) ==
    /\ CtAt(w, "apply") /\ CtUnlocked(ctWork[w].target \cup ctWork[w].revoke)
    /\ LET r == ctWork[w] IN
       /\ ctRows' = [k \in CtKeys |-> CtApplied(r, k)]
       /\ ctPolicy' = IF r.plan # "NO_PLAN" THEN r.plan ELSE IF r.holds THEN CtNone ELSE ctPolicy
       /\ ctExcuse' = ~(r.alone /\ r.read = ctRows /\ \A u \in CtWorkers \ {w} : ~CtAt(u, "apply"))
    /\ CtGo(w, CtIdle)
    /\ UNCHANGED <<ctModules, ctRelated, ctRequests>>

-------------------------------------------------------------------------------
\* partnerPortalActivate: the module and the row are read and held, the relationships are
\* read, and the row is written.
CtMayActivate(k) ==
    /\ ctModules[k].published /\ CtReady(ctRows[k])
    /\ ctRows[k].status \notin {"ACTIVE", "MAINTENANCE"} /\ ctModules[k].available
CtLock(w, k) ==
    /\ CtAt(w, "serve") /\ ctWork[w].for = "activate" /\ CtUnlocked({k})
    /\ CtGo(w, IF CtMayActivate(k) THEN [at |-> "relations", key |-> k] ELSE CtIdle)
    /\ UNCHANGED <<ctModules, ctRelated, ctRows, ctPolicy, ctExcuse, ctRequests>>
CtBlocked(k) ==
    \/ \E t \in CtKeys : <<k, "REQUIRES", t>> \in ctRelated /\ ctRows[t].status # "ACTIVE"
    \/ \E t \in CtKeys : <<k, "CONFLICTS_WITH", t>> \in ctRelated /\ ctRows[t].status = "ACTIVE"
CtCheck(w) ==
    /\ CtAt(w, "relations")
    /\ CtGo(w, IF CtBlocked(ctWork[w].key) THEN CtIdle ELSE [at |-> "activate", key |-> ctWork[w].key])
    /\ UNCHANGED <<ctModules, ctRelated, ctRows, ctPolicy, ctExcuse, ctRequests>>
CtActivate(w) ==
    /\ CtAt(w, "activate")
    /\ ctRows' = [ctRows EXCEPT ![ctWork[w].key].status = "ACTIVE", ![ctWork[w].key].entitlement = "ACTIVE"]
    /\ CtGo(w, CtIdle)
    /\ UNCHANGED <<ctModules, ctRelated, ctPolicy, ctExcuse, ctRequests>>

\* loadPartnerPortalModules: what the portal offers for activation, when the marketplace
\* shows the modules of visible and the published ones.
CtOffered(k, visible) ==
    LET shown == visible \cup {j \in CtKeys : ctModules[j].published}
        active == {j \in shown : ctRows[j].status = "ACTIVE"}
    IN  /\ k \in shown \ active /\ CtRuns(k) /\ ctRows[k].status # "MAINTENANCE" /\ CtReady(ctRows[k])
        /\ \A t \in CtKeys :
              /\ <<k, "REQUIRES", t>> \in ctRelated => t \in active
              /\ <<k, "CONFLICTS_WITH", t>> \in ctRelated => t \notin active

CtNext ==
    \E w \in CtWorkers :
        \/ \E k \in CtKeys, edit \in CtModuleEdits : CtReadModule(w, k, edit)
        \/ CtWriteModule(w)
        \/ \E r \in CtRelations : CtRelate(w, r)
        \/ \E request \in {"list", "patch", "plan", "activate"} : CtBegin(w, request)
        \/ CtReadPolicy(w) \/ CtFindLegacy(w) \/ CtReinstate(w) \/ CtReconcile(w) \/ CtServe(w)
        \/ \E k \in CtKeys, edit \in CtEdits, internal \in BOOLEAN : CtReadRow(w, k, edit, internal)
        \/ CtWriteRow(w)
        \/ \E plan \in CtPlans \cup {"FLEX", "NO_PLAN"} : CtChoose(w, plan)
        \/ CtStart(w) \/ CtCommit(w)
        \/ \E k \in CtKeys : CtLock(w, k)
        \/ CtCheck(w) \/ CtActivate(w)

CtSpec == CtInit /\ [][CtNext]_ctVars

-------------------------------------------------------------------------------
CtTypeOK ==
    /\ ctModules \in [CtKeys -> CtModule] /\ ctRelated \subseteq CtRelations
    /\ ctRows \in [CtKeys -> CtRow] /\ ctPolicy \in CtPlans \cup {CtNone, "FLEX"}

\* Two edits of a module that overlap lose one of the two, and yet never publish one that is
\* not ready.
CtPublishedIsReady == \A k \in CtKeys : ctModules[k].published => ctModules[k].ready

\* However edits, plans and activations interleave, a module that is active is one the
\* partner is entitled to: billing charges by the one and the gateway admits by the other.
CtActiveIsEntitled ==
    \A k \in CtKeys : ctRows[k].status = "ACTIVE" => ctRows[k].entitlement # "INACTIVE"

\* What a plan granted goes with it: a row carries the plan the policy names, unless a
\* reconciliation, or another application, overlapped the change of plan.
CtPlanIsPolicy ==
    ~ctExcuse =>
        \A k \in CtKeys :
            ctRows[k].plan # "" =>
                ctPolicy = ctRows[k].plan \/ (ctPolicy = CtNone /\ ctRows[k].plan = "FLEX")

\* What the portal offers, an activation accepts, unless the module conflicts with an active
\* one that the portal does not show.
CtOfferIsHonoured ==
    \A k \in CtKeys, visible \in SUBSET CtKeys :
        CtOffered(k, visible) =>
            /\ CtMayActivate(k)
            /\ \/ ~CtBlocked(k)
               \/ \E t \in CtKeys \ visible : <<k, "CONFLICTS_WITH", t>> \in ctRelated /\ ~ctModules[t].published

\* The partner turns on a module only while it is published and offered to it on terms.
CtActivationIsOffered ==
    \A w \in CtWorkers :
        CtActivate(w) =>
            LET k == ctWork[w].key IN
            ctModules[k].published /\ ctModules[k].available /\ CtReady(ctRows[k]) /\ ctRows[k].status = "NOT_LICENSED"

\* Once a plan is applied, what is active is what the plan grants, if no row changed since
\* the application read them.
CtPlanIsExact ==
    \A w \in CtWorkers :
        CtCommit(w) /\ ctWork[w].read = ctRows => {k \in CtKeys : ctRows'[k].status = "ACTIVE"} = ctWork[w].target

\* What the catalogue answers for.
EntitlementsSafe ==
    /\ [](CtTypeOK /\ CtPublishedIsReady /\ CtActiveIsEntitled /\ CtPlanIsPolicy /\ CtOfferIsHonoured)
    /\ [][CtActivationIsOffered /\ CtPlanIsExact]_ctVars

\* Not guaranteed, and violated: a row's plan is the policy's.  A reconciliation that had read
\* the unlimited policy grants every module after the plan was changed to a fixed one; after
\* the plan was taken away, its rows bring it back.
CtPlanIsAlwaysPolicy ==
    \A k \in CtKeys : ctRows[k].plan = "" \/ ctPolicy \in {CtNone, ctRows[k].plan}
\* Not guaranteed: an activation leaves no two modules active that exclude each other (two
\* that overlap each read the other module before it is active).
CtExcludesConflicts ==
    \A w \in CtWorkers, t \in CtKeys :
        CtActivate(w) /\ <<ctWork[w].key, "CONFLICTS_WITH", t>> \in ctRelated => ctRows'[t].status # "ACTIVE"
\* Not guaranteed: maintenance holds until an administrator ends it (the unlimited plan
\* activates the module at the next request about the partner).
CtMaintenanceHolds ==
    \A k \in CtKeys :
        ctRows[k].status = "MAINTENANCE" /\ ctRows'[k].status = "ACTIVE" =>
            \E w \in CtWorkers : CtWriteRow(w) \/ CtCommit(w)
================================================================================
