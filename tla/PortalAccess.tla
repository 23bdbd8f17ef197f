----------------------------- MODULE PortalAccess -----------------------------
(***************************************************************************)
(* services/cmd/gateway (partner_portal.go, partner_user_modules.go): what *)
(* one user of one partner may run.  A runtime request is let in by the    *)
(* partner's lifecycle and by billing's gate, then by the modules the      *)
(* partner owns (catalog) and those assigned to the user (two tables of    *)
(* the gateway).  Five reads of four services, while each may change.      *)
(***************************************************************************)
EXTENDS FiniteSets, Naturals

CONSTANTS
    PaModules,     \* module keys
    PaWorkers,     \* requests in progress at once
    PaMaxRequests, \* bound: requests ever begun
    PaMaxChanges   \* bound: changes of lifecycle, gate and ownership

ASSUME PaAssumption == {PaMaxRequests, PaMaxChanges} \subseteq Nat

VARIABLES
    paOpen,     \* partners: the lifecycle is neither SUSPENDED nor ARCHIVED
    paPaid,     \* billing: portal-gate allows
    paOwned,    \* catalog: the modules ACTIVE and executable for the partner
    paMode,     \* identity.partner_users.module_access_mode of the user
    paSelected, \* identity.partner_user_modules of the user
    paGiven,    \* the modules the last assignment gave the user
    paWork,     \* what each request does
    paUsage,    \* catalog: usage events and what was run
    paBegun, paChanged   \* bounds used up

paVars == <<paOpen, paPaid, paOwned, paMode, paSelected, paGiven, paWork, paUsage, paBegun, paChanged>>
paOutside == <<paOpen, paPaid, paOwned, paChanged>>
paPolicy == <<paMode, paSelected, paGiven>>

PaIdle == [at |-> "idle"]
PaInit ==
    /\ paOpen = TRUE /\ paPaid = TRUE /\ paOwned = PaModules
    /\ paMode = "ALL_OWNED" /\ paSelected = {} /\ paGiven = PaModules
    /\ paWork = [w \in PaWorkers |-> PaIdle] /\ paUsage = {} /\ paBegun = 0 /\ paChanged = 0

PaAt(w, at) == paWork[w].at = at
\* Each request in progress remembers what has been true of its module since it began.
PaSeenNow(r) ==
    IF "key" \in DOMAIN r
    THEN [r EXCEPT !.open = @ \/ paOpen, !.paid = @ \/ paPaid, !.owned = @ \/ r.key \in paOwned,
                   !.given = @ \/ r.key \in paGiven]
    ELSE r
PaWatched(next) == paWork' = [w \in PaWorkers |-> PaSeenNow(next[w])]
PaGo(w, r) == PaWatched([paWork EXCEPT ![w] = r])

\* Outside: a suspension, an open debt, a module bought or lost.
PaChange ==
    /\ paChanged < PaMaxChanges /\ paChanged' = paChanged + 1
    /\ \/ paOpen' = ~paOpen /\ UNCHANGED <<paPaid, paOwned>>
       \/ paPaid' = ~paPaid /\ UNCHANGED <<paOpen, paOwned>>
       \/ \E k \in PaModules : /\ paOwned' = IF k \in paOwned THEN paOwned \ {k} ELSE paOwned \cup {k}
                               /\ UNCHANGED <<paOpen, paPaid>>
    /\ PaWatched(paWork)
    /\ UNCHANGED <<paPolicy, paUsage, paBegun>>

-------------------------------------------------------------------------------
\* partnerModuleRuntime, from the session that partnerAuth accepts.
PaRun(w, k) ==
    /\ PaAt(w, "idle") /\ paBegun < PaMaxRequests /\ paBegun' = paBegun + 1
    /\ UNCHANGED <<paOutside, paPolicy, paUsage>>
    /\ PaGo(w, [at |-> "lifecycle", key |-> k, open |-> FALSE, paid |-> FALSE, owned |-> FALSE, given |-> FALSE,
                mode |-> "", has |-> FALSE, asked |-> {"policy", "owned"}])
PaStep(w, at, to, allowed) ==
    /\ PaAt(w, at)
    /\ UNCHANGED <<paOutside, paPolicy, paUsage, paBegun>>
    /\ PaGo(w, IF allowed THEN [paWork[w] EXCEPT !.at = to] ELSE PaIdle)
\* partnerAccessAllowed: the registry, then billing; an unreachable one refuses.
PaLifecycle(w, answered) == PaStep(w, "lifecycle", "gate", answered /\ paOpen)
PaGateNotAsked(w, answered) == PaStep(w, "gate", "policy", TRUE)   \* mutation of PaGate: billing is not asked
PaGate(w, answered) == PaStep(w, "gate", "policy", answered /\ paPaid)

\* loadPartnerUserModulePolicy: the user's mode and then its keys, the partner's modules beside them.
PaRead(w, what, r) ==
    /\ PaAt(w, "policy") /\ what \in paWork[w].asked
    /\ UNCHANGED <<paOutside, paPolicy, paUsage, paBegun>>
    /\ PaGo(w, r)
PaMode(w) == PaRead(w, "policy", [paWork[w] EXCEPT !.mode = paMode, !.asked = (@ \ {"policy"}) \cup {"keys"}])
PaKeys(w) == PaRead(w, "keys", [paWork[w] EXCEPT !.asked = @ \ {"keys"},
                                  !.has = paWork[w].mode = "ALL_OWNED" \/ paWork[w].key \in paSelected])
PaOwned(w) == PaRead(w, "owned", IF paWork[w].key \in paOwned THEN [paWork[w] EXCEPT !.asked = @ \ {"owned"}] ELSE PaIdle)
\* requirePartnerModuleExecution, and the module's operation.
PaAssigned(w) == paWork[w].has
PaExecute(w) ==
    /\ PaAt(w, "policy") /\ paWork[w].asked = {}
    /\ UNCHANGED <<paOutside, paPolicy, paBegun>>
    /\ IF PaAssigned(w)
       THEN /\ LET r == PaSeenNow(paWork[w]) IN
               paUsage' = paUsage \cup {[run |-> TRUE, key |-> r.key, open |-> r.open, paid |-> r.paid,
                                         owned |-> r.owned, given |-> r.given]}
            /\ PaGo(w, [at |-> "usage", used |-> paWork[w].key])
       ELSE paUsage' = paUsage /\ PaGo(w, PaIdle)
\* recordPartnerModuleUsage: one try of 350 ms.
PaRecord(w, arrives) ==
    /\ PaAt(w, "usage")
    /\ paUsage' = IF arrives THEN paUsage \cup {[run |-> FALSE, key |-> paWork[w].used]} ELSE paUsage
    /\ UNCHANGED <<paOutside, paPolicy, paBegun>>
    /\ PaGo(w, PaIdle)

-------------------------------------------------------------------------------
\* partnerUserModuleAccess: the keys must be owned; then one transaction.
PaAssign(w, mode, keys) ==
    /\ PaAt(w, "idle") /\ paBegun < PaMaxRequests /\ paBegun' = paBegun + 1
    /\ keys \subseteq paOwned
    /\ UNCHANGED <<paOutside, paPolicy, paUsage>>
    /\ PaGo(w, [at |-> "assign", mode |-> mode, keys |-> keys])
PaReplaced(w) == IF paWork[w].mode = "SELECTED" THEN paWork[w].keys ELSE {}
PaCommit(w) ==
    /\ PaAt(w, "assign")
    /\ paMode' = paWork[w].mode
    /\ paSelected' = PaReplaced(w)
    /\ paGiven' = IF paWork[w].mode = "SELECTED" THEN paWork[w].keys ELSE PaModules
    /\ UNCHANGED <<paOutside, paUsage, paBegun>>
    /\ PaGo(w, PaIdle)

PaNext ==
    \/ PaChange
    \/ \E w \in PaWorkers :
          \/ \E k \in PaModules : PaRun(w, k)
          \/ \E ok \in BOOLEAN : PaLifecycle(w, ok) \/ PaGate(w, ok) \/ PaRecord(w, ok)
          \/ PaMode(w) \/ PaKeys(w) \/ PaOwned(w) \/ PaExecute(w) \/ PaCommit(w)
          \/ \E mode \in {"ALL_OWNED", "SELECTED"}, keys \in SUBSET PaModules : PaAssign(w, mode, keys)

PaSpec == PaInit /\ [][PaNext]_paVars

-------------------------------------------------------------------------------
PaRuns == {u \in paUsage : u.run}

(* What ran was, since its request began, a module the last assignment of   *)
(* that moment gave the user, although mode and keys are read apart.        *)
PaRanWasGiven == \A u \in PaRuns : u.given

(* It ran for a partner that was, each at some moment of the request, not   *)
(* suspended, not barred by billing and owner of the module.                *)
PaRanWasAllowed == \A u \in PaRuns : u.open /\ u.paid /\ u.owned

(* Not guaranteed by the code (partner_portal.go:179): all of it held at    *)
(* one moment.  A request passes the gate while the module is not owned,    *)
(* and reads the modules while the gate is shut.                            *)
PaRanAtOneMoment ==
    [][\A u \in PaRuns' \ PaRuns : paOpen /\ paPaid /\ u.key \in paOwned \cap paGiven]_paVars

(* Not guaranteed by the code (partner_user_modules.go:212): what ran is    *)
(* counted.  The event is sent once, after the answer, and may be lost.     *)
PaRunIsCounted ==
    \A u \in PaRuns : (\A w \in PaWorkers : PaAt(w, "idle")) => \E c \in paUsage : ~c.run /\ c.key = u.key

\* A module operation that ran was assigned, enabled and paid for at some moment
\* of its request, each part at a moment of its own.
PortalSafe ==
    /\ PaRanWasGiven
    /\ PaRanWasAllowed
===============================================================================
