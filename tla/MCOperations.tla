----------------------------- MODULE MCOperations -----------------------------
(***************************************************************************)
(* What brings a partner into operation and what the console shows of it,  *)
(* each component on one instance.                                         *)
(* They share no variable, so each behaviour exercises one of them, chosen *)
(* at the start: interleaving them would multiply the states and show      *)
(* nothing more.                                                           *)
(***************************************************************************)
EXTENDS Launch, Runtime, Provisioning, Onboarding, AuditOutbox, ScreenSnapshots, PortalGate, TLC

CONSTANTS h1, h2, w1, w2, k1, k2, a, b, m1, m2

VARIABLE subject

MCEdits == {[host |-> h2], [status |-> "OTHER"], [deployed |-> TRUE, release |-> TRUE]}

opsVars == <<lnVars, rtVars, pvVars, osVars, auVars, ssVars, pgVars, subject>>

OpsInit ==
    /\ subject \in {"launch", "runtime", "provisioning", "onboarding", "audit", "screens", "gate"}
    /\ LnInit /\ RtInit /\ PvInit /\ OsInit /\ AuInit /\ SsInit /\ PgInit
    \* A component that is not exercised starts in one of its initial states only.
    /\ subject # "provisioning" => pvPartner = [lifecycle |-> "LICENSE_PENDING", licensed |-> FALSE]
    /\ subject # "onboarding" => osOwner = "nobody"
    /\ subject # "screens" => ssKind = "registry"
    /\ subject # "gate" => pgRow.portal

OpsNext ==
    /\ UNCHANGED subject
    /\ \/ subject = "launch" /\ LnNext /\ UNCHANGED <<rtVars, pvVars, osVars, auVars, ssVars, pgVars>>
       \/ subject = "runtime" /\ RtNext /\ UNCHANGED <<lnVars, pvVars, osVars, auVars, ssVars, pgVars>>
       \/ subject = "provisioning" /\ PvNext /\ UNCHANGED <<lnVars, rtVars, osVars, auVars, ssVars, pgVars>>
       \/ subject = "onboarding" /\ OsNext /\ UNCHANGED <<lnVars, rtVars, pvVars, auVars, ssVars, pgVars>>
       \/ subject = "audit" /\ AuNext /\ UNCHANGED <<lnVars, rtVars, pvVars, osVars, ssVars, pgVars>>
       \/ subject = "screens" /\ SsNext
          /\ UNCHANGED <<lnVars, rtVars, pvVars, osVars, auVars, pgVars>>
       \/ subject = "gate" /\ PgNext
          /\ UNCHANGED <<lnVars, rtVars, pvVars, osVars, auVars, ssVars>>

OpsSpec == OpsInit /\ [][OpsNext]_opsVars

\* Processes are interchangeable.
Symmetry == Permutations({w1, w2})
===============================================================================
