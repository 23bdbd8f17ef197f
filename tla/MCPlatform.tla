------------------------------ MODULE MCPlatform ------------------------------
(***************************************************************************)
(* A partner's record, its files, reports and backups, and who signs in to *)
(* administer or use it, each component on one instance.  They share no    *)
(* variable, so each behaviour exercises one of them, chosen at the start. *)
(***************************************************************************)
EXTENDS PartnerLifecycle, Backups, Identities, SignIn, PortalAccess, MediaStore, Reports, TLC

CONSTANTS w1, w2

VARIABLE subject

\* A step forward, a step back, and the states billing asks for.
MCTargets == {"PROSPECT", "LICENSE_PENDING", "SUSPENDED", "LIVE", "ARCHIVED"}

Subjects == {"lifecycle", "backups", "identities", "sign-in", "portal", "media", "reports"}

PlatformInit ==
    /\ subject \in Subjects
    /\ Init /\ BkInit /\ IdInit /\ SiInit /\ PaInit /\ StInit /\ RpInit

PlatformNext ==
    /\ UNCHANGED subject
    /\ \/ subject = "lifecycle" /\ Next
          /\ UNCHANGED <<bkVars, idVars, siVars, paVars, stVars, rpVars>>
       \/ subject = "backups" /\ BkNext
          /\ UNCHANGED <<vars, idVars, siVars, paVars, stVars, rpVars>>
       \/ subject = "identities" /\ IdStep
          /\ UNCHANGED <<vars, bkVars, siVars, paVars, stVars, rpVars>>
       \/ subject = "sign-in" /\ SiNext
          /\ UNCHANGED <<vars, bkVars, idVars, paVars, stVars, rpVars>>
       \/ subject = "portal" /\ PaNext
          /\ UNCHANGED <<vars, bkVars, idVars, siVars, stVars, rpVars>>
       \/ subject = "media" /\ StNext
          /\ UNCHANGED <<vars, bkVars, idVars, siVars, paVars, rpVars>>
       \/ subject = "reports" /\ RpNext
          /\ UNCHANGED <<vars, bkVars, idVars, siVars, paVars, stVars>>

platformVars == <<vars, bkVars, idVars, siVars, paVars, stVars, rpVars, subject>>

PlatformSpec == PlatformInit /\ [][PlatformNext]_platformVars

(* What a partner's documents are made of and kept in agrees with what is   *)
(* recorded of them: the files of evidence and the reports drawn from it.   *)
DocumentsSafe ==
    /\ MediaSafe
    /\ ReportsSafe

\* Requests and workers are interchangeable.
Symmetry == Permutations({w1, w2})
===============================================================================
