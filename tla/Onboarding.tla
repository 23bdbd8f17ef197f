------------------------------ MODULE Onboarding ------------------------------
(***************************************************************************)
(* The partner onboarding saga of services/cmd/gateway/phase2_durability.go*)
(* under one request id, with the two handlers it drives: creation of the  *)
(* partner (partners/main.go) and the commercial terms (billing/main.go).  *)
(*                                                                         *)
(* A gateway handler, /resume, or the recovery of a gateway that has just  *)
(* started takes an advisory lock (waiting for it), performs the steps not *)
(* yet marked done and marks each in a statement of its own.  An internal  *)
(* call is given up after four seconds; the Partners handler then carries  *)
(* on regardless, since its statements are not bound to the connection.    *)
(* The terms handler's transaction is, so a terms call has happened or not *)
(* by the time its caller learns that it failed.                           *)
(***************************************************************************)
EXTENDS Integers, FiniteSets, FiniteSetsExt

CONSTANTS
    OsGateways,   \* gateway processes; each runs at most one attempt of the saga
    OsMaxRuns,    \* bound: requests and recoveries
    OsMaxEdits,   \* bound: terms updates by administrators
    OsMaxCalls    \* bound: partner creations requested of the Partners service

\* 0 stands for no partner and for nobody holding the lock.
ASSUME OsAssumption == {OsMaxRuns, OsMaxEdits, OsMaxCalls} \subseteq Nat /\ 0 \notin OsGateways

VARIABLES
    osSaga,       \* identity.partner_onboarding_sagas: the row of the request
    osLock,       \* holder of the advisory lock
    osGateway,    \* what each gateway does
    osCreate,     \* creations in the Partners service: caller and progress
    osPartners,   \* ids of partners.partners rows with this onboarding_request_id
    osOwner,      \* whose portal user has the owner's email: nobody, the saga's, or another's
    osTerms,      \* billing.partner_terms of the partner: version, content
    osSystemOwner,\* the requesting administrator is still an active system owner
    osRuns, osEdits, \* bounds used up
    osSeen        \* history: terms versions the saga made, edits by others, a caller cut
                  \* off before the saga could note it, the administrator gone

osVars == <<osSaga, osLock, osGateway, osCreate, osPartners, osOwner, osTerms,
            osSystemOwner, osRuns, osEdits, osSeen>>
osOthers == <<osCreate, osPartners, osOwner, osTerms, osSystemOwner, osRuns, osEdits>>

OsNone == 0
OsIdle == [at |-> "idle"]
OsNoSaga == [status |-> "none", partner |-> OsNone, owner |-> FALSE, billing |-> FALSE]

OsInit ==
    /\ osSaga = OsNoSaga /\ osLock = OsNone
    /\ osGateway = [g \in OsGateways |-> OsIdle]
    /\ osCreate = {} /\ osPartners = {}
    /\ osOwner \in {"nobody", "another"}
    /\ osTerms = [version |-> 0, content |-> "default"]
    /\ osSystemOwner = TRUE /\ osRuns = 0 /\ osEdits = 0
    /\ osSeen = [puts |-> 0, edited |-> FALSE, cut |-> FALSE, gone |-> FALSE]

OsAt(g, at) == osGateway[g].at = at
OsGo(g, state) == osGateway' = [osGateway EXCEPT ![g] = state]
OsMove(g, at) == OsGo(g, [osGateway[g] EXCEPT !.at = at])

-------------------------------------------------------------------------------
\* POST inserts the saga unless it exists (ON CONFLICT DO NOTHING); /resume and a
\* repeated POST run the stored one.
OsRequest(g) ==
    /\ OsAt(g, "idle") /\ osSystemOwner /\ osRuns < OsMaxRuns
    /\ osSaga' = IF osSaga = OsNoSaga THEN [osSaga EXCEPT !.status = "PENDING"] ELSE osSaga
    /\ OsGo(g, [at |-> "lock", attempt |-> 0])
    /\ osRuns' = osRuns + 1
    /\ UNCHANGED <<osLock, osCreate, osPartners, osOwner, osTerms, osSystemOwner, osEdits, osSeen>>

\* pg_advisory_lock, then the saga is loaded; or the context ends first.
OsLock(g) ==
    /\ OsAt(g, "lock")
    /\ \/ /\ osLock = OsNone /\ osLock' = g
          /\ OsGo(g, [at |-> "partner", attempt |-> osGateway[g].attempt, s |-> osSaga])
          /\ osSeen' = osSeen
       \/ /\ OsGo(g, OsIdle) /\ osLock' = osLock
          /\ osSeen' = [osSeen EXCEPT !.cut = TRUE]
    /\ UNCHANGED osSaga /\ UNCHANGED osOthers

\* Step 1: create the partner, or read it back.  The call becomes one of osCreate.
OsAskPartner(g) ==
    /\ OsAt(g, "partner")
    /\ \/ /\ osGateway[g].s.partner # OsNone
          /\ \/ OsMove(g, "owner")
             \/ OsMove(g, "fail")
          /\ osCreate' = osCreate
       \/ /\ osGateway[g].s.partner = OsNone /\ Cardinality(osCreate) < OsMaxCalls
          /\ osCreate' = osCreate \cup {[n |-> Cardinality(osCreate), for |-> g, at |-> "lookup"]}
          /\ OsMove(g, "waiting")
    /\ UNCHANGED <<osSaga, osLock, osPartners, osOwner, osTerms, osSystemOwner, osRuns, osEdits, osSeen>>

\* Partners: the row of this request is answered; otherwise an id is drawn and inserted,
\* and the unique index sends the loser of a race to the winner's row.
OsLookup(c) ==
    /\ c.at = "lookup"
    /\ osCreate' = (osCreate \ {c}) \cup {[c EXCEPT !.at = IF osPartners = {} THEN "insert" ELSE "done"]}
    /\ UNCHANGED <<osSaga, osLock, osGateway, osPartners, osOwner, osTerms, osSystemOwner,
                   osRuns, osEdits, osSeen>>
OsInsert(c) ==
    /\ c.at = "insert"
    /\ osPartners' = IF osPartners = {} THEN {c.n + 1} ELSE osPartners
    /\ osCreate' = (osCreate \ {c}) \cup {[c EXCEPT !.at = "done"]}
    /\ UNCHANGED <<osSaga, osLock, osGateway, osOwner, osTerms, osSystemOwner, osRuns, osEdits, osSeen>>
\* The answer is received, or the caller has stopped waiting (or the call was refused).
OsAnswer(g) ==
    /\ OsAt(g, "waiting")
    /\ \E c \in osCreate :
          /\ c.for = g
          /\ \/ /\ c.at = "done"
                /\ OsGo(g, [osGateway[g] EXCEPT !.at = "notePartner", !.s.partner = Max(osPartners)])
             \/ OsMove(g, "fail")
          /\ osCreate' = (osCreate \ {c}) \cup {[c EXCEPT !.for = OsNone]}
    /\ UNCHANGED <<osSaga, osLock, osPartners, osOwner, osTerms, osSystemOwner, osRuns, osEdits, osSeen>>
OsNotePartner(g) ==
    /\ OsAt(g, "notePartner")
    /\ osSaga' = [osSaga EXCEPT !.partner = osGateway[g].s.partner, !.status = "RUNNING"]
    /\ OsMove(g, "owner")
    /\ UNCHANGED <<osLock, osSeen>> /\ UNCHANGED osOthers

\* Step 2, ensureOnboardingOwner: the email must be free or already this partner's owner.
\* Mutation of OsEnsureOwner: whoever has the email is taken for the owner.
OsEnsureAnyOwner(g) ==
    /\ OsAt(g, "owner")
    /\ OsMove(g, IF osGateway[g].s.owner THEN "terms" ELSE "noteOwner")
    /\ osOwner' = IF osOwner = "nobody" THEN "saga" ELSE osOwner
    /\ UNCHANGED <<osSaga, osLock, osCreate, osPartners, osTerms, osSystemOwner, osRuns, osEdits, osSeen>>
OsEnsureOwner(g) ==
    /\ OsAt(g, "owner")
    /\ \/ osGateway[g].s.owner /\ OsMove(g, "terms") /\ osOwner' = osOwner
       \/ /\ ~osGateway[g].s.owner /\ osOwner # "another"
          /\ osOwner' = "saga"
          /\ \/ OsMove(g, "noteOwner")
             \/ OsMove(g, "fail")
       \/ ~osGateway[g].s.owner /\ OsMove(g, "fail") /\ osOwner' = osOwner
    /\ UNCHANGED <<osSaga, osLock, osCreate, osPartners, osTerms, osSystemOwner, osRuns, osEdits, osSeen>>
OsNoteOwner(g) ==
    /\ OsAt(g, "noteOwner")
    /\ osSaga' = [osSaga EXCEPT !.owner = TRUE, !.status = "RUNNING"]
    /\ OsGo(g, [osGateway[g] EXCEPT !.at = "terms", !.s.owner = TRUE])
    /\ UNCHANGED <<osLock, osSeen>> /\ UNCHANGED osOthers

\* Step 3: the terms are read back and put only if they differ from the wanted ones.
OsTermsDiffer == osTerms.content # "wanted"
OsReadTerms(g) ==
    /\ OsAt(g, "terms")
    /\ \/ osGateway[g].s.billing /\ OsMove(g, "unlock")
       \/ ~osGateway[g].s.billing /\ OsTermsDiffer
          /\ OsGo(g, [osGateway[g] EXCEPT !.at = "put"])
       \/ ~osGateway[g].s.billing /\ ~OsTermsDiffer /\ OsMove(g, "complete")
       \/ ~osGateway[g].s.billing /\ OsMove(g, "fail")
    /\ UNCHANGED <<osSaga, osLock, osSeen>> /\ UNCHANGED osOthers
\* PUT terms: a new version under the row lock; a concurrent version refuses it (409).
OsPutTerms(g) ==
    /\ OsAt(g, "put")
    /\ \/ /\ osTerms' = [version |-> osTerms.version + 1, content |-> "wanted"]
          /\ osSeen' = [osSeen EXCEPT !.puts = @ + 1]
          /\ \/ OsMove(g, "complete")
             \/ OsMove(g, "fail")
       \/ UNCHANGED <<osTerms, osSeen>> /\ OsMove(g, "fail")
    /\ UNCHANGED <<osSaga, osLock, osCreate, osPartners, osOwner, osSystemOwner, osRuns, osEdits>>
OsComplete(g) ==
    /\ OsAt(g, "complete")
    /\ osSaga' = [osSaga EXCEPT !.billing = TRUE, !.status = "COMPLETE"]
    /\ OsMove(g, "unlock")
    /\ UNCHANGED <<osLock, osSeen>> /\ UNCHANGED osOthers

-------------------------------------------------------------------------------
\* fail() writes under a context of its own, so it succeeds when the request was cut off.
OsFail(g) ==
    /\ OsAt(g, "fail")
    /\ osSaga' = [osSaga EXCEPT !.status = "FAILED"]
    /\ OsGo(g, [osGateway[g] EXCEPT !.at = "unlockFailed"])
    /\ UNCHANGED <<osLock, osSeen>> /\ UNCHANGED osOthers
OsUnlock(g) ==
    /\ osGateway[g].at \in {"unlock", "unlockFailed"}
    /\ osLock' = OsNone
    /\ OsGo(g, IF OsAt(g, "unlockFailed") /\ osGateway[g].attempt \in {1, 2}
               THEN [at |-> "lock", attempt |-> osGateway[g].attempt + 1] ELSE OsIdle)
    /\ UNCHANGED <<osSaga, osSeen>> /\ UNCHANGED osOthers

\* The gateway dies and starts: sagas PENDING or RUNNING are run again, three times at
\* most, for an administrator who is still an active system owner.
OsCrash(g) ==
    /\ ~OsAt(g, "idle") /\ ~OsAt(g, "scan") /\ osRuns < OsMaxRuns
    /\ osLock' = IF osLock = g THEN OsNone ELSE osLock
    /\ osCreate' = {IF c.for = g THEN [c EXCEPT !.for = OsNone] ELSE c : c \in osCreate}
    /\ OsGo(g, [at |-> "scan"]) /\ osRuns' = osRuns + 1
    /\ UNCHANGED <<osSaga, osPartners, osOwner, osTerms, osSystemOwner, osEdits, osSeen>>
OsScan(g) ==
    /\ OsAt(g, "scan")
    /\ IF osSaga.status \in {"PENDING", "RUNNING"} /\ osSystemOwner
       THEN OsGo(g, [at |-> "lock", attempt |-> 1]) ELSE OsGo(g, OsIdle)
    /\ osSeen' = [osSeen EXCEPT !.gone = @ \/ ~osSystemOwner]
    /\ UNCHANGED <<osSaga, osLock>> /\ UNCHANGED osOthers

\* Administrators change the partner's terms, take the email, or lose their rights.
OsEditTerms ==
    /\ osPartners # {} /\ osEdits < OsMaxEdits
    /\ osEdits' = osEdits + 1
    /\ osTerms' = [version |-> osTerms.version + 1, content |-> "edited"]
    /\ osSeen' = [osSeen EXCEPT !.edited = TRUE]
    /\ UNCHANGED <<osSaga, osLock, osGateway, osCreate, osPartners, osOwner, osSystemOwner, osRuns>>
OsTakeEmail ==
    /\ osOwner = "nobody" /\ osOwner' = "another"
    /\ UNCHANGED <<osSaga, osLock, osGateway, osCreate, osPartners, osTerms, osSystemOwner,
                   osRuns, osEdits, osSeen>>
OsLoseOwner ==
    /\ osSystemOwner /\ osSystemOwner' = FALSE
    /\ UNCHANGED <<osSaga, osLock, osGateway, osCreate, osPartners, osOwner, osTerms,
                   osRuns, osEdits, osSeen>>

OsNext ==
    \/ \E g \in OsGateways :
          \/ OsRequest(g) \/ OsLock(g) \/ OsAskPartner(g) \/ OsAnswer(g) \/ OsNotePartner(g)
          \/ OsEnsureOwner(g) \/ OsNoteOwner(g) \/ OsReadTerms(g) \/ OsPutTerms(g)
          \/ OsComplete(g) \/ OsFail(g) \/ OsUnlock(g) \/ OsCrash(g) \/ OsScan(g)
    \/ \E c \in osCreate : OsLookup(c) \/ OsInsert(c)
    \/ OsEditTerms \/ OsTakeEmail \/ OsLoseOwner

OsSpec == OsInit /\ [][OsNext]_osVars

-------------------------------------------------------------------------------
(* The saga names no partner but one that the Partners service stored.      *)
OsTypeOK ==
    /\ osSaga.status \in {"none", "PENDING", "RUNNING", "FAILED", "COMPLETE"}
    /\ osSaga.partner \in {OsNone} \cup osPartners
    /\ osLock \in {OsNone} \cup OsGateways

(* However often the request is repeated, recovered or cut off, and however *)
(* late a given-up creation takes effect, it makes at most one partner      *)
(* (docs/START-23.12_PHASE2_ACCEPTANCE.md:57, "after F5/browser restart ... *)
(* instead of generating a second Partner").                                *)
OsOnePartner == Cardinality(osPartners) <= 1

(* The saga adds at most one version to the terms unless somebody else      *)
(* changed them meanwhile (same document, line 55: an already committed     *)
(* state is accepted "without issuing a second version-creating PUT").      *)
OsOneTermsVersion == ~osSeen.edited => osSeen.puts <= 1

(* COMPLETE means that the partner exists, that its owner can sign in, and  *)
(* that the terms are the wanted ones or were changed by somebody else.     *)
OsCompleteIsAll ==
    osSaga.status = "COMPLETE" =>
        /\ osSaga.partner \in osPartners /\ osOwner = "saga"
        /\ osTerms.content = "wanted" \/ osSeen.edited

(* A saga left PENDING or RUNNING with no attempt in progress is one whose  *)
(* administrator is gone, or whose caller was cut off before the lock.      *)
(* Whichever gateway dies at whichever statement, a restart takes it up     *)
(* (phase2_durability.go:314).                                              *)
OsOrphanIsExplained ==
    /\ osSaga.status \in {"PENDING", "RUNNING"}
    /\ \A g \in OsGateways : OsAt(g, "idle")
    => osSeen.cut \/ osSeen.gone

(* Not guaranteed by the code: an onboarding whose three parts are done     *)
(* reads COMPLETE.  A repeated request that cannot read the partner back    *)
(* marks the finished saga FAILED, and no later run corrects the status,    *)
(* which is only set together with billing_done (phase2_durability.go:262). *)
OsDoneIsComplete ==
    osSaga.billing => osSaga.status = "COMPLETE"

(* Violated by the code (phase2_durability.go:296): an administrator's      *)
(* change of the terms survives the saga once the saga's own PUT is done.   *)
(* A gateway that dies between the PUT and billing_done, an edit, and a     *)
(* resumption put the saga's terms back.                                    *)
OsEditSurvives ==
    [][osSeen.puts >= 1 /\ osTerms.content = "edited" => osTerms'.content = "edited"]_osVars

\* An onboarding makes one partner with one version of its terms, is COMPLETED
\* only with all of its parts, and is abandoned only for a reason that was stored.
OnboardingSafe ==
    /\ OsTypeOK
    /\ OsOnePartner
    /\ OsOneTermsVersion
    /\ OsCompleteIsAll
    /\ OsOrphanIsExplained
===============================================================================
