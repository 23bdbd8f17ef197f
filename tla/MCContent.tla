------------------------------ MODULE MCContent ------------------------------
(***************************************************************************)
(* What sites show and what they send, and the log of events that the rest *)
(* of the system reacts to, each component on one instance.                *)
(* They share no variable, so each behaviour exercises one of them, chosen *)
(* at the start: interleaving them would multiply the states and show      *)
(* nothing more.                                                           *)
(***************************************************************************)
EXTENDS CmsPages, CmsSite, Ingest, AutomationLog, TLC

CONSTANTS home, about, c1, c2, pic, slugA, slugB,
          e1, e2, d1, d2, unset, p1, p2, x1, x2, m1, m2, classic,
          b1, b2, k1, k2, x, y, a, t1

VARIABLE subject

MCContents == {[slug |-> slugA, media |-> {pic}, ok |-> TRUE],
               [slug |-> slugB, media |-> {}, ok |-> FALSE]}
\* Two batches that agree on no record: a repetition with other contents is a conflict.
MCBatches == {[k \in {k1} |-> y], [k \in {k1, k2} |-> x]}
MCOneLimit == {2}
MCTimes    == {1, 2}
MCVersions == (home :> 4) @@ (about :> 3)

contentVars == <<cmsVars, siteVars, brandVars, igVars, logVars, subject>>

ContentInit ==
    /\ subject \in {"pages", "site", "brand", "ingest", "log"}
    /\ CmsInit /\ SiteInit /\ BrandInit /\ IgInit /\ LogInit

ContentNext ==
    /\ UNCHANGED subject
    /\ \/ subject = "pages" /\ CmsNext /\ UNCHANGED <<siteVars, brandVars, igVars, logVars>>
       \/ subject = "site" /\ SiteNext /\ UNCHANGED <<cmsVars, brandVars, igVars, logVars>>
       \/ subject = "brand" /\ BrandNext /\ UNCHANGED <<cmsVars, siteVars, igVars, logVars>>
       \/ subject = "ingest" /\ IgNext /\ UNCHANGED <<cmsVars, siteVars, brandVars, logVars>>
       \/ subject = "log" /\ LogNext /\ UNCHANGED <<cmsVars, siteVars, brandVars, igVars>>

ContentSpec == ContentInit /\ [][ContentNext]_contentVars

\* Callers are interchangeable, and so are batch ids.
Symmetry == Permutations({c1, c2}) \cup Permutations({b1, b2})
===============================================================================
