------------------------------- MODULE Reports -------------------------------
(***************************************************************************)
(* services/cmd/reports: one report, from the queue to a stored document,  *)
(* and its links in services/cmd/evidence.                                 *)
(*                                                                         *)
(* A report is made by the goroutine of the request that asked for it or   *)
(* by the worker, in any instance: whoever makes the row RUNNING.  Nothing *)
(* it writes later asks for that again.  An instance that starts requeues  *)
(* every RUNNING row, whether its maker has died or still works elsewhere. *)
(* Reports share only the queue, so one is modelled.  A document is the    *)
(* snapshot it was rendered from: rendering is a function of the snapshot, *)
(* and every snapshot holds the time it was taken.                         *)
(***************************************************************************)
EXTENDS Integers

CONSTANTS
    RpWorkers,       \* makers, each in an instance that may die on its own
    RpPage,          \* evidence the query answers with: it asks for more than it may
    RpMaxEvidence,   \* bound: evidence the partner ever has
    RpMaxSnapshots,  \* bound: snapshots taken
    RpMaxStarts      \* bound: starts of an instance

ASSUME RpAssumption == {RpPage, RpMaxEvidence, RpMaxSnapshots, RpMaxStarts} \subseteq Nat

VARIABLES
    rpJob,        \* the row of reports.jobs: status, snapshot, and whose document it records
    rpObject,     \* the stored document, at the one key of the report
    rpLinks,      \* evidence.report_links of the report
    rpEvidence,   \* evidence of the partner: 1 .. rpEvidence, by age
    rpTaken,      \* snapshots taken
    rpWorker,     \* what each maker does
    rpAlone,      \* history: no two makers were ever at it at once
    rpStarts      \* bound used up

rpVars == <<rpJob, rpObject, rpLinks, rpEvidence, rpTaken, rpWorker, rpAlone, rpStarts>>

RpIdle == [at |-> "idle"]
RpNone == [n |-> 0, evidence |-> {}]

RpInit ==
    /\ rpJob = [status |-> "QUEUED", snapshot |-> RpNone, pdf |-> RpNone]
    /\ rpObject = RpNone /\ rpLinks = {} /\ rpEvidence = 1 /\ rpTaken = 0
    /\ rpWorker = [w \in RpWorkers |-> RpIdle] /\ rpAlone = TRUE /\ rpStarts = 0

RpAt(w, at) == rpWorker[w].at = at
RpGo(w, state) == rpWorker' = [rpWorker EXCEPT ![w] = state]
RpMove(w, at) == RpGo(w, [rpWorker[w] EXCEPT !.at = at])
RpBegin(w, state) ==
    /\ RpAt(w, "idle") /\ RpGo(w, state)
    /\ rpAlone' = (rpAlone /\ \A v \in RpWorkers : RpAt(v, "idle"))

-------------------------------------------------------------------------------
\* process: the row is RUNNING for whoever finds it QUEUED.
RpClaim(w) ==
    /\ rpJob.status = "QUEUED"
    /\ rpJob' = [rpJob EXCEPT !.status = "RUNNING"]
    /\ RpBegin(w, [at |-> "build", for |-> "process", snapshot |-> RpNone])
    /\ UNCHANGED <<rpObject, rpLinks, rpEvidence, rpTaken, rpStarts>>

\* buildSnapshot: without impact data it fails, without an answer about the evidence it has
\* none; and the evidence service, asked for 500 items, answers with its page.
RpNewest == {e \in 1..rpEvidence : e > rpEvidence - RpPage}
RpBuild(w) ==
    /\ RpAt(w, "build")
    /\ \/ /\ rpTaken < RpMaxSnapshots /\ rpTaken' = rpTaken + 1
          /\ \E evidence \in {RpNewest, {}} :
                RpGo(w, [rpWorker[w] EXCEPT !.at = "store",
                                            !.snapshot = [n |-> rpTaken + 1, evidence |-> evidence]])
       \/ RpMove(w, "fail") /\ rpTaken' = rpTaken
    /\ UNCHANGED <<rpJob, rpObject, rpLinks, rpEvidence, rpAlone, rpStarts>>
RpStore(w) ==
    /\ RpAt(w, "store")
    /\ LET stored == [rpJob EXCEPT !.snapshot = rpWorker[w].snapshot]
       IN  \/ rpJob' = stored /\ RpMove(w, "put")
           \/ rpJob' \in {rpJob, stored} /\ RpMove(w, "fail")
    /\ UNCHANGED <<rpObject, rpLinks, rpEvidence, rpTaken, rpAlone, rpStarts>>

\* Mutation of RpPut: the answer of the storage service is not looked at.
RpPutUnasked(w) ==
    /\ RpAt(w, "put")
    /\ rpObject' \in {rpObject, rpWorker[w].snapshot} /\ RpMove(w, "ready")
    /\ UNCHANGED <<rpJob, rpLinks, rpEvidence, rpTaken, rpAlone, rpStarts>>
\* renderFromStoredSnapshot: the document replaces the one at its key, and its answer may be lost ...
RpPut(w) ==
    /\ RpAt(w, "put")
    /\ \/ rpObject' = rpWorker[w].snapshot /\ RpMove(w, "ready")
       \/ rpObject' \in {rpObject, rpWorker[w].snapshot} /\ RpMove(w, "fail")
    /\ UNCHANGED <<rpJob, rpLinks, rpEvidence, rpTaken, rpAlone, rpStarts>>
\* ... then the row says READY, whatever it said.
RpReady(w) ==
    /\ RpAt(w, "ready")
    /\ LET ready == [rpJob EXCEPT !.status = "READY", !.pdf = rpWorker[w].snapshot]
       IN  \/ /\ rpJob' = ready
              /\ IF rpWorker[w].for = "process" THEN RpMove(w, "link") ELSE RpGo(w, RpIdle)
           \/ rpJob' \in {rpJob, ready} /\ RpMove(w, "fail")
    /\ UNCHANGED <<rpObject, rpLinks, rpEvidence, rpTaken, rpAlone, rpStarts>>
\* The links are asked for once, and nobody looks whether they were made.
RpLink(w) ==
    /\ RpAt(w, "link")
    /\ rpLinks' \in {rpLinks, rpLinks \cup rpWorker[w].snapshot.evidence}
    /\ RpGo(w, RpIdle)
    /\ UNCHANGED <<rpJob, rpObject, rpEvidence, rpTaken, rpAlone, rpStarts>>
\* fail, of process only: FAILED whatever the row said, if the statement works.
RpFail(w) ==
    /\ RpAt(w, "fail")
    /\ \/ rpWorker[w].for = "process" /\ rpJob' = [rpJob EXCEPT !.status = "FAILED"]
       \/ rpJob' = rpJob
    /\ RpGo(w, RpIdle)
    /\ UNCHANGED <<rpObject, rpLinks, rpEvidence, rpTaken, rpAlone, rpStarts>>

\* regenerate: the stored snapshot is rendered again, in whatever state the report is.
RpRegenerate(w) ==
    /\ rpJob.snapshot # RpNone
    /\ RpBegin(w, [at |-> "put", for |-> "regenerate", snapshot |-> rpJob.snapshot])
    /\ UNCHANGED <<rpJob, rpObject, rpLinks, rpEvidence, rpTaken, rpStarts>>

\* The evidence service records another item.
RpRecorded ==
    /\ rpEvidence < RpMaxEvidence
    /\ rpEvidence' = rpEvidence + 1
    /\ UNCHANGED <<rpJob, rpObject, rpLinks, rpTaken, rpWorker, rpAlone, rpStarts>>

RpDie(w) ==
    /\ ~RpAt(w, "idle") /\ RpGo(w, RpIdle)
    /\ UNCHANGED <<rpJob, rpObject, rpLinks, rpEvidence, rpTaken, rpAlone, rpStarts>>
\* main: an instance starts.
RpStart ==
    /\ rpStarts < RpMaxStarts /\ rpStarts' = rpStarts + 1
    /\ rpJob' = [rpJob EXCEPT !.status = IF @ = "RUNNING" THEN "QUEUED" ELSE @]
    /\ UNCHANGED <<rpObject, rpLinks, rpEvidence, rpTaken, rpWorker, rpAlone>>

RpNext ==
    \/ RpRecorded \/ RpStart
    \/ \E w \in RpWorkers :
          \/ RpClaim(w) \/ RpBuild(w) \/ RpStore(w) \/ RpPut(w) \/ RpReady(w)
          \/ RpLink(w) \/ RpFail(w) \/ RpRegenerate(w) \/ RpDie(w)

RpSpec == RpInit /\ [][RpNext]_rpVars

-------------------------------------------------------------------------------
RpResting == \A w \in RpWorkers : RpAt(w, "idle")

(* A report that can be downloaded has a document and a snapshot, however   *)
(* many makers it had and wherever they died.                               *)
RpReadyIsStored ==
    rpJob.status = "READY" =>
        RpNone \notin {rpJob.snapshot, rpJob.pdf, rpObject}

(* As long as one maker at a time was at it, through deaths, restarts,      *)
(* lost answers and regenerations, a READY report is of one snapshot: the   *)
(* one frozen in its row, whose document is stored, with the checksum the   *)
(* row records (docs/START-14-15_ACCEPTANCE.md:55-56); and the evidence     *)
(* linked to it is that of the snapshot.                                    *)
RpReadyIsOneSnapshot ==
    rpAlone =>
        /\ rpJob.status = "READY" => rpJob.pdf = rpJob.snapshot /\ rpObject = rpJob.snapshot
        /\ rpLinks \in {{}, rpJob.snapshot.evidence}

\* A finished report has its document, and is of one snapshot unless makers overlapped.
ReportsSafe ==
    /\ RpReadyIsStored
    /\ RpReadyIsOneSnapshot

(* Not guaranteed by the code (main.go:57): the same when an instance       *)
(* starts while another still makes the report, which is then made by two;  *)
(* the row of one and the document of the other remain.                     *)
RpReadyIsWhole ==
    rpJob.status = "READY" /\ RpResting => rpJob.pdf = rpJob.snapshot /\ rpObject = rpJob.snapshot

(* Not guaranteed by the code (main.go:307): the evidence of a READY report *)
(* is linked to it.  The request is made once and may be lost.              *)
RpIsLinked == rpJob.status = "READY" /\ RpResting => rpLinks = rpJob.snapshot.evidence

(* Not guaranteed by the code (main.go:272, evidence/main.go:405): a        *)
(* snapshot holds all evidence of its partner.  The query asks for 500      *)
(* items, more than the service answers with, and gets its page of 50; a    *)
(* query that fails gives none.                                             *)
RpHasAllEvidence == rpTaken = 1 /\ rpJob.status = "READY" /\ rpEvidence > 1 => 1 \in rpJob.snapshot.evidence

(* Not guaranteed by the code (main.go:297): a RUNNING report has a maker.  *)
(* One that dies, or cannot write FAILED, leaves it until the next start.   *)
RpRunningIsMade == rpJob.status = "RUNNING" => ~RpResting
===============================================================================
