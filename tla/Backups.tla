------------------------------- MODULE Backups -------------------------------
(***************************************************************************)
(* services/cmd/backups: restore points of one partner, their tests, their *)
(* pruning, and the production restore with its safety point and its       *)
(* automatic rollback.                                                     *)
(*                                                                         *)
(* The workers are goroutines of one process (its disk allows only one).   *)
(* They claim queued rows; a restart requeues whatever was RUNNING.  What  *)
(* the partner has is its database and its files (the media namespace and  *)
(* the configuration of three other services), captured and restored one   *)
(* after the other by external programs and calls that may fail anywhere.  *)
(* A database is replaced by two renames and a drop, none in a transaction.*)
(*                                                                         *)
(* The tests of one point are one, and the lifecycle a restore requires of *)
(* the partner is a condition that holds or does not.                      *)
(***************************************************************************)
EXTENDS Naturals, FiniteSets

CONSTANTS
    BkWorkers,    \* workers of the process
    BkMaxPoints,  \* bound: restore points ever made
    BkKeep,       \* max_restore_points of the policy
    BkMaxJobs,    \* bound: production restores requested
    BkMaxStarts   \* bound: restarts of the process

ASSUME BkAssumption == /\ BkMaxPoints \in Nat \ {0} /\ BkKeep \in Nat \ {0}
                       /\ {BkMaxJobs, BkMaxStarts} \subseteq Nat

VARIABLES
    bkPoints,     \* backups.restore_points and their tests, by age; object: it is off site
    bkJob,        \* backups.restore_jobs: the latest, and what to remember of it
    bkData,       \* what the partner has
    bkKept,       \* databases renamed away: by which restore, and their content
    bkWorker,     \* what each worker does
    bkStarts      \* bound used up

bkVars == <<bkPoints, bkJob, bkData, bkKept, bkWorker, bkStarts>>

BkIdle == [at |-> "idle"]
BkMissing == "missing"
BkLive == {"QUEUED", "RUNNING"}
BkBoth(v) == [db |-> v, files |-> v]

BkInit ==
    /\ bkPoints = <<[status |-> "READY", object |-> TRUE, has |-> BkBoth("old"),
                     test |-> "none", passed |-> TRUE, safety |-> FALSE]>>
    /\ bkJob = [n |-> 0, status |-> "none", point |-> 1, rollback |-> "none",
                before |-> BkBoth("now"), fresh |-> TRUE, lost |-> FALSE]
    /\ bkData = BkBoth("now") /\ bkKept = {}
    /\ bkWorker = [w \in BkWorkers |-> BkIdle] /\ bkStarts = 0

BkAt(w, at) == bkWorker[w].at = at
BkGo(w, state) == bkWorker' = [bkWorker EXCEPT ![w] = state]
BkMove(w, at) == BkGo(w, [bkWorker[w] EXCEPT !.at = at])
BkIds == DOMAIN bkPoints
BkPending == \E p \in BkIds : bkPoints[p].status \in BkLive
BkNew(status, safety) ==
    [p \in 1..(Cardinality(BkIds) + 1) |->
        IF p \in BkIds THEN bkPoints[p]
        ELSE [status |-> status, object |-> FALSE, has |-> BkBoth(BkMissing),
              test |-> "none", passed |-> FALSE, safety |-> safety]]

-------------------------------------------------------------------------------
\* queueBackup, by a request or the scheduler: one pending point per partner.
BkQueue ==
    /\ Cardinality(BkIds) < BkMaxPoints /\ ~BkPending
    /\ bkPoints' = BkNew("QUEUED", FALSE)
    /\ UNCHANGED <<bkJob, bkData, bkKept, bkWorker, bkStarts>>
BkClaim(w, p) ==
    /\ BkAt(w, "idle") /\ bkPoints[p].status = "QUEUED"
    /\ bkPoints' = [bkPoints EXCEPT ![p].status = "RUNNING"]
    /\ BkGo(w, [at |-> "dump", p |-> p, for |-> "backup"])
    /\ UNCHANGED <<bkJob, bkData, bkKept, bkStarts>>

\* createRestorePoint, of a backup or of a restore: dump, capture, encrypt and replicate.
BkDump(w) ==
    /\ BkAt(w, "dump") /\ bkData.db # BkMissing
    /\ bkPoints' = [bkPoints EXCEPT ![bkWorker[w].p].has.db = bkData.db]
    /\ BkMove(w, "capture")
    /\ UNCHANGED <<bkJob, bkData, bkKept, bkStarts>>
BkCapture(w) ==
    /\ BkAt(w, "capture")
    /\ bkPoints' = [bkPoints EXCEPT ![bkWorker[w].p].has.files = bkData.files]
    /\ BkMove(w, "put")
    /\ UNCHANGED <<bkJob, bkData, bkKept, bkStarts>>
\* The object is off site, the row READY and its test queued; or the worker is cut off before.
BkPut(w) ==
    /\ BkAt(w, "put")
    /\ bkPoints' = [bkPoints EXCEPT ![bkWorker[w].p].object = TRUE,
                                    ![bkWorker[w].p].status = "READY",
                                    ![bkWorker[w].p].test = "QUEUED"]
    /\ IF bkWorker[w].for = "backup" THEN BkGo(w, BkIdle) ELSE BkMove(w, "suspend")
    /\ UNCHANGED <<bkJob, bkData, bkKept, bkStarts>>
\* Mutation of BkBackupFails: a restore goes on without its safety point.
BkBackupFailsOn(w) ==
    /\ bkWorker[w].at \in {"dump", "capture", "put"}
    /\ bkPoints' = [bkPoints EXCEPT ![bkWorker[w].p].status = "FAILED"]
    /\ IF bkWorker[w].for = "job" THEN BkMove(w, "suspend") ELSE BkGo(w, BkIdle)
    /\ UNCHANGED <<bkJob, bkData, bkKept, bkStarts>>
\* A failure marks the row, but a restore's own deadline may be what failed: the mark then
\* fails as well and the row stays RUNNING.
BkBackupFails(w) ==
    /\ bkWorker[w].at \in {"dump", "capture", "put"}
    /\ \/ bkPoints' = [bkPoints EXCEPT ![bkWorker[w].p].status = "FAILED"]
       \/ bkWorker[w].for = "job" /\ bkPoints' = bkPoints
    /\ bkJob' = IF bkWorker[w].for = "job" THEN [bkJob EXCEPT !.status = "FAILED"] ELSE bkJob
    /\ BkGo(w, BkIdle)
    /\ UNCHANGED <<bkData, bkKept, bkStarts>>

\* Restore tests: into a scratch database, of a point that is READY and still off site.
BkTestClaim(w, p) ==
    /\ BkAt(w, "idle") /\ bkPoints[p].test = "QUEUED"
    /\ bkPoints' = [bkPoints EXCEPT ![p].test = "RUNNING"]
    /\ BkGo(w, [at |-> "test", p |-> p])
    /\ UNCHANGED <<bkJob, bkData, bkKept, bkStarts>>
BkTestEnds(w) ==
    /\ BkAt(w, "test")
    /\ LET p == bkWorker[w].p
           may == bkPoints[p].status = "READY" /\ bkPoints[p].object
       IN  \E ok \in {FALSE, may} :
              bkPoints' = [bkPoints EXCEPT ![p].test = "none", ![p].passed = @ \/ ok]
    /\ BkGo(w, BkIdle)
    /\ UNCHANGED <<bkJob, bkData, bkKept, bkStarts>>
BkTestAgain(p) ==
    /\ bkPoints[p].status = "READY" /\ bkPoints[p].test = "none" /\ ~bkPoints[p].passed
    /\ bkPoints' = [bkPoints EXCEPT ![p].test = "QUEUED"]
    /\ UNCHANGED <<bkJob, bkData, bkKept, bkWorker, bkStarts>>

\* prunePartner, after a backup or on request: beyond the BkKeep newest READY points the
\* object is deleted, then the row expires.  Nobody asks whether a restore uses the point.
BkBeyond(p) ==
    /\ bkPoints[p].status = "READY"
    /\ Cardinality({q \in BkIds : q > p /\ bkPoints[q].status = "READY"}) >= BkKeep
BkPruneObject(p) ==
    /\ BkBeyond(p) /\ bkPoints[p].object
    /\ bkPoints' = [bkPoints EXCEPT ![p].object = FALSE]
    /\ bkJob' = [bkJob EXCEPT !.lost = @ \/ bkPoints[p].safety]
    /\ UNCHANGED <<bkData, bkKept, bkWorker, bkStarts>>
BkPruneRow(p) ==
    /\ BkBeyond(p) /\ ~bkPoints[p].object
    /\ bkPoints' = [bkPoints EXCEPT ![p].status = "EXPIRED"]
    /\ UNCHANGED <<bkJob, bkData, bkKept, bkWorker, bkStarts>>

-------------------------------------------------------------------------------
\* queueProductionRestore of a READY point that has passed a test; one live job per partner.
BkJobQueue(p) ==
    /\ bkJob.n < BkMaxJobs /\ bkJob.status \notin BkLive
    /\ bkPoints[p].status = "READY" /\ bkPoints[p].passed
    /\ bkJob' = [n |-> bkJob.n + 1, status |-> "QUEUED", point |-> p, rollback |-> "none",
                 before |-> bkData, fresh |-> TRUE, lost |-> FALSE]
    /\ UNCHANGED <<bkPoints, bkData, bkKept, bkWorker, bkStarts>>
BkJobClaim(w) ==
    /\ BkAt(w, "idle") /\ bkJob.status = "QUEUED"
    /\ bkJob' = [bkJob EXCEPT !.status = "RUNNING"]
    /\ BkGo(w, [at |-> "check"])
    /\ UNCHANGED <<bkPoints, bkData, bkKept, bkStarts>>

BkJobEnds(w, status, rollback) ==
    /\ bkJob' = [bkJob EXCEPT !.status = status, !.rollback = rollback]
    /\ BkGo(w, BkIdle)

\* The point is checked again and the safety point begun, unless another backup is pending.
BkJobCheck(w) ==
    /\ BkAt(w, "check")
    /\ \/ /\ bkPoints[bkJob.point].status = "READY" /\ bkPoints[bkJob.point].passed
          /\ ~BkPending /\ Cardinality(BkIds) < BkMaxPoints
          /\ bkPoints' = BkNew("RUNNING", TRUE)
          /\ BkGo(w, [at |-> "dump", p |-> Cardinality(BkIds) + 1, for |-> "job"])
          /\ bkJob' = bkJob
       \/ bkPoints' = bkPoints /\ BkJobEnds(w, "FAILED", "none")
    /\ UNCHANGED <<bkData, bkKept, bkStarts>>
\* suspendPartnerEnvironments and unpackRestorePoint: failures before anything is replaced.
BkJobUnpack(w) ==
    /\ BkAt(w, "suspend")
    /\ \/ bkPoints[bkJob.point].object /\ BkMove(w, "away") /\ bkJob' = bkJob
       \/ BkJobEnds(w, "FAILED", "none")
    /\ UNCHANGED <<bkPoints, bkData, bkKept, bkStarts>>

\* The content being restored, and the name the present database is kept under.
BkRolling(w) == bkWorker[w].for = "rollback"
BkSource(w) == bkPoints[IF BkRolling(w) THEN bkWorker[w].p ELSE bkJob.point].has
BkKeptBy(w) == IF BkRolling(w) THEN <<bkJob.n, "rollback", bkStarts>> ELSE <<bkJob.n, "restore", 0>>

\* restoreLiveDatabase: whatever is kept under that name is dropped, then the database is
\* renamed away ...
BkAway(w) ==
    /\ BkAt(w, "away")
    /\ LET rest == {k \in bkKept : k.by # BkKeptBy(w)} IN
       bkKept' = IF bkData.db = BkMissing THEN rest
                 ELSE rest \cup {[by |-> BkKeptBy(w), db |-> bkData.db]}
    /\ bkData' = [bkData EXCEPT !.db = BkMissing]
    /\ BkMove(w, "in")
    /\ UNCHANGED <<bkPoints, bkJob, bkStarts>>
\* ... the restored one renamed into its place, or the former one back, if that works ...
BkIn(w) ==
    /\ BkAt(w, "in")
    /\ LET mine == {k \in bkKept : k.by = BkKeptBy(w)} IN
       \/ /\ bkData' = [bkData EXCEPT !.db = BkSource(w).db]
          /\ BkMove(w, "drop") /\ bkKept' = bkKept
       \/ /\ \/ /\ mine # {}
                /\ bkData' = [bkData EXCEPT !.db = (CHOOSE k \in mine : TRUE).db]
                /\ bkKept' = bkKept \ mine
             \/ UNCHANGED <<bkData, bkKept>>
          /\ BkMove(w, "failed")
    /\ UNCHANGED <<bkPoints, bkJob, bkStarts>>
\* ... and the former one dropped.
BkDrop(w) ==
    /\ BkAt(w, "drop")
    /\ bkKept' = {k \in bkKept : k.by # BkKeptBy(w)}
    /\ BkMove(w, "files")
    /\ UNCHANGED <<bkPoints, bkJob, bkData, bkStarts>>
\* restoreMedia is one step here (MediaStore has its steps), restoreConfig goes through other services item by item.
BkFiles(w) ==
    /\ BkAt(w, "files")
    /\ \/ bkData' = [bkData EXCEPT !.files = BkSource(w).files] /\ BkMove(w, "finish")
       \/ bkData' \in {bkData, [bkData EXCEPT !.files = "mixed"]} /\ BkMove(w, "failed")
    /\ UNCHANGED <<bkPoints, bkJob, bkKept, bkStarts>>
BkFinish(w) ==
    /\ BkAt(w, "finish")
    /\ IF BkRolling(w) THEN BkJobEnds(w, "FAILED", "passed") ELSE BkJobEnds(w, "COMPLETED", "none")
    /\ UNCHANGED <<bkPoints, bkData, bkKept, bkStarts>>
\* A step before or after its effect fails.
BkStepFails(w) ==
    /\ bkWorker[w].at \in {"away", "drop"}
    /\ BkMove(w, "failed")
    /\ UNCHANGED <<bkPoints, bkJob, bkData, bkKept, bkStarts>>

\* failAfterMutation: the safety point is unpacked and restored in the same way.
BkRollback(w) ==
    /\ BkAt(w, "failed")
    /\ \/ /\ ~BkRolling(w) /\ bkPoints[bkWorker[w].p].object
          /\ BkGo(w, [at |-> "away", p |-> bkWorker[w].p, for |-> "rollback"]) /\ bkJob' = bkJob
       \/ BkJobEnds(w, "FAILED", "failed")
    /\ UNCHANGED <<bkPoints, bkData, bkKept, bkStarts>>

\* The process dies and starts: everything RUNNING is QUEUED again.
BkRequeued(status) == IF status = "RUNNING" THEN "QUEUED" ELSE status
BkRestart ==
    /\ bkStarts < BkMaxStarts /\ \E w \in BkWorkers : ~BkAt(w, "idle")
    /\ bkStarts' = bkStarts + 1
    /\ bkPoints' = [p \in BkIds |-> [bkPoints[p] EXCEPT !.status = BkRequeued(@), !.test = BkRequeued(@)]]
    /\ bkJob' = [bkJob EXCEPT !.status = BkRequeued(@), !.fresh = @ /\ bkJob.status # "RUNNING"]
    /\ bkWorker' = [w \in BkWorkers |-> BkIdle]
    /\ UNCHANGED <<bkData, bkKept>>

BkNext ==
    \/ BkQueue \/ BkRestart
    \/ \E p \in BkIds : BkTestAgain(p) \/ BkPruneObject(p) \/ BkPruneRow(p) \/ BkJobQueue(p)
    \/ \E w \in BkWorkers :
          \/ \E p \in BkIds : BkClaim(w, p) \/ BkTestClaim(w, p)
          \/ BkDump(w) \/ BkCapture(w) \/ BkPut(w) \/ BkBackupFails(w) \/ BkTestEnds(w)
          \/ BkJobClaim(w) \/ BkJobCheck(w) \/ BkJobUnpack(w)
          \/ BkAway(w) \/ BkIn(w) \/ BkDrop(w) \/ BkFiles(w) \/ BkFinish(w)
          \/ BkStepFails(w) \/ BkRollback(w)

BkSpec == BkInit /\ [][BkNext]_bkVars

-------------------------------------------------------------------------------
(* A restore that says COMPLETED has put back what its point holds, also    *)
(* when a restart made it run twice or its point was pruned meanwhile.      *)
BkCompletedIsPoint ==
    bkJob.status = "COMPLETED" => bkData = bkPoints[bkJob.point].has

(* A restore that fails without a restart has either replaced nothing or    *)
(* says whether the rollback worked, and if it did the partner has what it  *)
(* had before (docs/CENTRAL-14_ACCEPTANCE.md:44).                           *)
BkFailureIsUndone ==
    bkJob.status = "FAILED" /\ bkJob.fresh /\ bkJob.rollback # "failed" => bkData = bkJob.before

(* Until a restore is COMPLETED the database the partner had exists: in     *)
(* place, under the name it was renamed to, or in a point that is off site, *)
(* whatever failed and whenever the process died, unless a safety point was *)
(* pruned.                                                                  *)
BkNothingLost ==
    bkJob.status \in {"RUNNING", "QUEUED", "FAILED"} /\ ~bkJob.lost =>
        \/ bkData.db = bkJob.before.db
        \/ \E k \in bkKept : k.db = bkJob.before.db
        \/ \E p \in BkIds : bkPoints[p].object /\ bkPoints[p].has.db = bkJob.before.db

(* Not guaranteed by the code (main.go:145): what a rollback that PASSED    *)
(* puts back is what the partner had.  After a restart in the middle of a   *)
(* restore the new safety point holds the half-restored state.              *)
BkRollbackIsWhole == bkJob.rollback = "passed" => bkData = bkJob.before

(* Not guaranteed by the code (central14_restore.go:228): a partner has a   *)
(* database when nobody is restoring.  A process that dies between the two  *)
(* renames leaves none; the job, requeued, fails on its safety dump, and so *)
(* does every later restore.                                                *)
BkDatabaseExists == bkJob.status \in {"COMPLETED", "FAILED"} => bkData.db # BkMissing

(* Not guaranteed by the code (worker.go:134): the safety point of a        *)
(* restore in progress is off site.  Enough newer points prune it.          *)
BkSafetyIsKept ==
    \A w \in BkWorkers : bkWorker[w].at \in {"away", "in", "drop", "files"} => bkPoints[bkWorker[w].p].object

(* Not guaranteed by the code (central14_restore.go:153): a RUNNING point   *)
(* has a worker.  A restore whose time is up cannot mark its safety point,  *)
(* which then blocks every backup of the partner until the next restart.    *)
BkRunningIsWorkedOn ==
    \A p \in BkIds : bkPoints[p].status = "RUNNING" =>
        \E w \in BkWorkers : "p" \in DOMAIN bkWorker[w] /\ bkWorker[w].p = p

\* A completed restore left the data of its point, a failed one left no half, and
\* the data of every moment stays recoverable, through restarts.
BackupsSafe ==
    /\ BkCompletedIsPoint
    /\ BkFailureIsUndone
    /\ BkNothingLost
===============================================================================
