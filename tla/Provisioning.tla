----------------------------- MODULE Provisioning -----------------------------
(***************************************************************************)
(* services/cmd/provisioning/main.go: the job that sets a partner up.      *)
(*                                                                         *)
(* A job is fifteen steps in a fixed order.  A worker (a handler of POST   *)
(* or /run, or the recovery loop of a process that has just started) holds *)
(* an advisory lock, goes through the steps in order, skips those it reads *)
(* as SUCCESS and performs the others by calls of other services.  The     *)
(* step's result is recorded after the call, the job's status after the    *)
(* step, and the lock is given back last, each by a statement of its own.  *)
(*                                                                         *)
(* The errors of those statements are dropped one by one: the worker goes  *)
(* on whether or not one landed.  A request's context ends when its client *)
(* goes away and the recovery's after two minutes; from then on calls and  *)
(* statements fail, which is a run of failed steps and dropped writes.     *)
(* Only the unlock has a context of its own.  A process may also die; the  *)
(* lock goes with its connection.  (The connection that holds the lock is  *)
(* taken to live as long as its worker.)                                   *)
(*                                                                         *)
(* The calls are external and modelled from their use: each makes its      *)
(* resource exist and changes nothing the second time.                     *)
(***************************************************************************)
EXTENDS Integers, Sequences

CONSTANTS
    PvWorkers,    \* processes; each has at most one worker of this job
    PvPresets,    \* module presets a POST may carry
    PvMaxPosts,   \* bound: POSTs
    PvMaxRuns,    \* bound: POSTs, run requests and recoveries that take the job up
    PvMoves,      \* bound: how often somebody else moves the partner or its licence
    PvMaxDrops    \* bound: database statements that fail

\* "none" stands for nobody holding the lock.
ASSUME PvAssumption == {PvMaxPosts, PvMaxRuns, PvMoves, PvMaxDrops} \subseteq Nat /\ "none" \notin PvWorkers

\* stepOrder.
PvSteps == <<"VALIDATE_PARTNER", "VALIDATE_LICENSE", "MARK_PROVISIONING", "CREATE_DATABASE",
             "SEED_REFERENCE_TEMPLATE", "APPLY_MODULE_PRESET", "CREATE_STORAGE",
             "CREATE_STAGING_ENVIRONMENT", "CREATE_CONNECTOR_CREDENTIAL", "SYNC_DESIRED_STATE",
             "DEPLOY_STAGING", "STORAGE_HEALTH", "PARTNER_DATABASE_HEALTH",
             "STAGING_RUNTIME_HEALTH", "COMPLETE">>

VARIABLES
    pvJob,        \* provisioning.jobs: status and module preset
    pvSuccess,    \* provisioning.steps that are SUCCESS, by position
    pvLock,       \* the worker that holds the advisory lock
    pvWorker,     \* what each process does
    pvPartner,    \* the partner's lifecycle and licence gate (Partners, Billing)
    pvOutside,    \* what other services hold: presets applied and synced, deployment
    pvLeft,       \* what remains of the bounds
    pvSeen        \* history: licence once allowed; steps once performed; a step's result
                  \* not written or not read; the job given up with nobody to take it
                  \* up; the preset changed when it had been read or applied

pvVars == <<pvJob, pvSuccess, pvLock, pvWorker, pvPartner, pvOutside, pvLeft, pvSeen>>

PvIdle == [at |-> "idle"]
PvNone == "none"
PvFinal == {"COMPLETED", "CONFIGURATION_REQUIRED"}

PvInit ==
    /\ pvJob = [status |-> PvNone, preset |-> PvNone]
    /\ pvSuccess = {} /\ pvLock = PvNone
    /\ pvWorker = [w \in PvWorkers |-> PvIdle]
    /\ pvPartner \in [lifecycle : {"READY_TO_PROVISION", "LICENSE_PENDING"}, licensed : BOOLEAN]
    /\ pvOutside = [entitled |-> {}, desired |-> PvNone, deployed |-> FALSE]
    /\ pvLeft = [posts |-> PvMaxPosts, runs |-> PvMaxRuns, moves |-> PvMoves,
                  drops |-> PvMaxDrops]
    /\ pvSeen = [licensed |-> FALSE, done |-> {}, unrecorded |-> FALSE, deserted |-> FALSE,
                  edited |-> FALSE]

PvAt(w, at) == pvWorker[w].at = at
PvGo(w, state) == pvWorker' = [pvWorker EXCEPT ![w] = state]
PvOutsideSame == UNCHANGED <<pvPartner, pvOutside>>

\* A statement lands, or fails and its error is dropped or returned.
PvLands == pvLeft' = pvLeft
PvDrops == pvLeft.drops > 0 /\ pvLeft' = [pvLeft EXCEPT !.drops = @ - 1]

-------------------------------------------------------------------------------
PvPresetInUse ==
    \/ pvOutside.entitled # {}
    \/ \E w \in PvWorkers : "preset" \in DOMAIN pvWorker[w]

\* POST: the row is made or updated unless the job is finished, then the job is run in
\* the same request unless it is only to be prepared.
PvPost(w, preset, prepare) ==
    /\ PvAt(w, "idle") /\ pvLeft.posts > 0 /\ pvLeft.runs > 0
    /\ pvJob' = [status |-> IF pvJob.status \in PvFinal THEN pvJob.status
                            ELSE IF prepare THEN "READY" ELSE "QUEUED",
                 preset |-> preset]
    /\ pvSeen' = [pvSeen EXCEPT !.edited = @ \/ (pvJob.preset # preset /\ PvPresetInUse)]
    /\ PvGo(w, IF prepare THEN PvIdle ELSE [at |-> "lock", attempt |-> 0])
    /\ pvLeft' = [pvLeft EXCEPT !.posts = @ - 1, !.runs = @ - 1]
    /\ UNCHANGED <<pvSuccess, pvLock>> /\ PvOutsideSame
PvRunRequest(w) ==
    /\ PvAt(w, "idle") /\ pvJob.status # PvNone /\ pvLeft.runs > 0
    /\ PvGo(w, [at |-> "lock", attempt |-> 0])
    /\ pvLeft' = [pvLeft EXCEPT !.runs = @ - 1]
    /\ UNCHANGED <<pvJob, pvSuccess, pvLock, pvSeen>> /\ PvOutsideSame

\* The recovery tries three times; in between the job is QUEUED unless it is finished.
PvRetries(w) == pvWorker[w].attempt \in {1, 2}
PvAfter(attempt) ==
    IF attempt \in {1, 2} THEN [at |-> "requeue", attempt |-> attempt + 1] ELSE PvIdle
PvDesert(deserted) == pvSeen' = [pvSeen EXCEPT !.deserted = @ \/ deserted]

\* runJob: pg_try_advisory_lock, which may fail or find the job busy; whoever gets the
\* lock reads the job.
PvLock(w) ==
    /\ PvAt(w, "lock")
    /\ \/ /\ PvDrops /\ PvDesert(~PvRetries(w))
          /\ PvGo(w, PvAfter(pvWorker[w].attempt)) /\ pvLock' = pvLock
       \/ /\ pvLock # PvNone
          /\ PvLands /\ PvDesert(TRUE)
          /\ PvGo(w, PvIdle) /\ pvLock' = pvLock
       \/ /\ pvLock = PvNone
          /\ PvLands /\ PvDesert(FALSE)
          /\ pvLock' = w
          /\ PvGo(w, IF pvJob.status \in PvFinal THEN [at |-> "unlock", attempt |-> 0]
                     ELSE [at |-> "start", attempt |-> pvWorker[w].attempt,
                           preset |-> pvJob.preset, i |-> 1])
    /\ UNCHANGED <<pvJob, pvSuccess>> /\ PvOutsideSame

PvUnlocking(w) == [at |-> "unlock", attempt |-> pvWorker[w].attempt]

\* The job is RUNNING, or that is not written; without its step rows it is not begun.
PvStart(w) ==
    /\ PvAt(w, "start")
    /\ \/ /\ PvLands /\ pvJob' = [pvJob EXCEPT !.status = "RUNNING"]
          /\ PvGo(w, [pvWorker[w] EXCEPT !.at = "step"]) /\ PvDesert(FALSE)
       \/ /\ PvDrops /\ pvJob' = pvJob
          /\ PvGo(w, [pvWorker[w] EXCEPT !.at = "step"]) /\ PvDesert(FALSE)
       \/ /\ PvDrops /\ pvJob' = pvJob
          /\ PvGo(w, PvUnlocking(w)) /\ PvDesert(~PvRetries(w))
    /\ UNCHANGED <<pvSuccess, pvLock>> /\ PvOutsideSame

-------------------------------------------------------------------------------
PvUp == {"READY_TO_PROVISION", "PROVISIONING", "CONFIGURATION"}

\* executeStep: what a step needs, and what it does.
PvAllowed(step) ==
    CASE step = "VALIDATE_PARTNER" -> pvPartner.lifecycle \in PvUp
      [] step = "VALIDATE_LICENSE" -> pvPartner.licensed
      [] step = "MARK_PROVISIONING" -> pvPartner.lifecycle # "READY_TO_PROVISION" \/ pvPartner.licensed
      [] step = "STAGING_RUNTIME_HEALTH" -> pvOutside.deployed
      [] OTHER -> TRUE
\* Mutation of PvEffect: an error of the module preset calls is dropped.
PvEffectUnchecked(w, step) ==
    /\ pvOutside' = CASE step = "SYNC_DESIRED_STATE" -> [pvOutside EXCEPT !.desired = pvWorker[w].preset]
                      [] step = "DEPLOY_STAGING" -> [pvOutside EXCEPT !.deployed = TRUE]
                      [] OTHER -> pvOutside
    /\ pvPartner' = pvPartner
PvEffect(w, step) ==
    /\ pvOutside' =
         CASE step = "APPLY_MODULE_PRESET" -> [pvOutside EXCEPT !.entitled = @ \cup {pvWorker[w].preset}]
           [] step = "SYNC_DESIRED_STATE" -> [pvOutside EXCEPT !.desired = pvWorker[w].preset]
           [] step = "DEPLOY_STAGING" -> [pvOutside EXCEPT !.deployed = TRUE]
           [] OTHER -> pvOutside
    /\ pvPartner' =
         CASE step = "MARK_PROVISIONING" /\ pvPartner.lifecycle = "READY_TO_PROVISION" ->
                [pvPartner EXCEPT !.lifecycle = "PROVISIONING"]
           [] step = "COMPLETE" /\ pvPartner.lifecycle = "PROVISIONING" ->
                [pvPartner EXCEPT !.lifecycle = "CONFIGURATION"]
           [] OTHER -> pvPartner

PvBlocked(step) == ~PvAllowed(step)

\* The next step that is not read as SUCCESS: it is done, or refused, or fails before or
\* after it took effect.  A recorded one whose row cannot be read is performed again,
\* and its row says RUNNING.
PvExecute(w) ==
    /\ PvAt(w, "step")
    /\ \E i \in pvWorker[w].i..15 :
          LET step == PvSteps[i]
              goes == [pvWorker[w] EXCEPT !.i = i]
              sees(done) == pvSeen' =
                  [pvSeen EXCEPT !.licensed = @ \/ (step = "VALIDATE_LICENSE" /\ pvPartner.licensed),
                                 !.unrecorded = @ \/ i \in pvSuccess,
                                 !.done = @ \cup done]
          IN  /\ pvWorker[w].i..(i - 1) \subseteq pvSuccess
              /\ IF i \in pvSuccess THEN PvDrops ELSE PvLands
              /\ pvSuccess' \in {pvSuccess, pvSuccess \ {i}}
              /\ \/ /\ ~PvBlocked(step) /\ PvEffect(w, step)
                    /\ \/ PvGo(w, [goes EXCEPT !.at = "record"]) /\ sees({i})
                       \/ PvGo(w, [goes EXCEPT !.at = "fail"]) /\ sees({})
                 \/ PvOutsideSame /\ PvGo(w, [goes EXCEPT !.at = "fail"]) /\ sees({})
    /\ UNCHANGED <<pvJob, pvLock>>

\* The result is written, or not; the worker goes on to the next step all the same.
PvRecord(w) ==
    /\ PvAt(w, "record")
    /\ \/ PvLands /\ pvSuccess' = pvSuccess \cup {pvWorker[w].i} /\ pvSeen' = pvSeen
       \/ PvDrops /\ pvSuccess' = pvSuccess /\ pvSeen' = [pvSeen EXCEPT !.unrecorded = TRUE]
    /\ PvGo(w, [pvWorker[w] EXCEPT !.at = "step", !.i = @ + 1])
    /\ UNCHANGED <<pvJob, pvLock>> /\ PvOutsideSame

\* The step's row and the job's are written by two statements, either of which may not land.
\* BLOCKED_LICENSE, the status after a closed gate, is a FAILED here: nothing tells them apart.
PvFail(w) ==
    /\ PvAt(w, "fail")
    /\ pvSuccess' \in {pvSuccess, pvSuccess \ {pvWorker[w].i}}
    /\ \/ PvLands /\ pvJob' = [pvJob EXCEPT !.status = "FAILED"] /\ PvDesert(FALSE)
       \/ PvDrops /\ pvJob' = pvJob /\ PvDesert(~PvRetries(w))
    /\ PvGo(w, PvUnlocking(w))
    /\ UNCHANGED pvLock /\ PvOutsideSame

\* All steps are done or read as SUCCESS.  The worker reports success either way.
PvFinish(w) ==
    /\ PvAt(w, "step") /\ pvWorker[w].i..15 \subseteq pvSuccess
    /\ \/ PvLands /\ pvJob' = [pvJob EXCEPT !.status = "CONFIGURATION_REQUIRED"] /\ PvDesert(FALSE)
       \/ PvDrops /\ pvJob' = pvJob /\ PvDesert(TRUE)
    /\ PvGo(w, [at |-> "unlock", attempt |-> 0])
    /\ UNCHANGED <<pvSuccess, pvLock>> /\ PvOutsideSame

PvUnlock(w) ==
    /\ PvAt(w, "unlock")
    /\ pvLock' = PvNone
    /\ PvGo(w, PvAfter(pvWorker[w].attempt))
    /\ UNCHANGED <<pvJob, pvSuccess, pvLeft, pvSeen>> /\ PvOutsideSame
PvRequeue(w) ==
    /\ PvAt(w, "requeue")
    /\ \/ /\ PvLands
          /\ pvJob' = IF pvJob.status \in PvFinal THEN pvJob ELSE [pvJob EXCEPT !.status = "QUEUED"]
       \/ PvDrops /\ pvJob' = pvJob
    /\ PvGo(w, [pvWorker[w] EXCEPT !.at = "lock"])
    /\ UNCHANGED <<pvSuccess, pvLock, pvSeen>> /\ PvOutsideSame

\* The process dies and starts again: recoverInterruptedJobs takes the job up if it reads
\* it as QUEUED or RUNNING.
PvCrash(w) ==
    /\ pvLeft.runs > 0 /\ ~PvAt(w, "idle") /\ ~PvAt(w, "scan")
    /\ pvLock' = IF pvLock = w THEN PvNone ELSE pvLock
    /\ PvGo(w, [at |-> "scan"])
    /\ pvLeft' = [pvLeft EXCEPT !.runs = @ - 1]
    /\ UNCHANGED <<pvJob, pvSuccess, pvSeen>> /\ PvOutsideSame
PvScan(w) ==
    /\ PvAt(w, "scan")
    /\ \/ /\ PvLands /\ PvDesert(FALSE)
          /\ PvGo(w, IF pvJob.status \in {"QUEUED", "RUNNING"} THEN [at |-> "lock", attempt |-> 1] ELSE PvIdle)
       \/ PvDrops /\ PvDesert(TRUE) /\ PvGo(w, PvIdle)
    /\ UNCHANGED <<pvJob, pvSuccess, pvLock>> /\ PvOutsideSame

\* Administrators move the partner and pay or revoke its licence.
PvOthersMove ==
    /\ pvLeft.moves > 0
    /\ pvLeft' = [pvLeft EXCEPT !.moves = @ - 1]
    /\ \/ pvPartner' = [pvPartner EXCEPT !.licensed = ~@]
       \/ /\ pvPartner.lifecycle = "LICENSE_PENDING"
          /\ pvPartner' = [pvPartner EXCEPT !.lifecycle = "READY_TO_PROVISION"]
       \/ pvPartner' = [pvPartner EXCEPT !.lifecycle = "SUSPENDED"]
    /\ UNCHANGED <<pvJob, pvSuccess, pvLock, pvWorker, pvOutside, pvSeen>>

PvNext ==
    \/ \E w \in PvWorkers :
          \/ \E preset \in PvPresets, prepare \in BOOLEAN : PvPost(w, preset, prepare)
          \/ PvRunRequest(w) \/ PvLock(w) \/ PvStart(w)
          \/ PvExecute(w) \/ PvRecord(w) \/ PvFail(w) \/ PvFinish(w)
          \/ PvUnlock(w) \/ PvRequeue(w) \/ PvCrash(w) \/ PvScan(w)
    \/ PvOthersMove

PvSpec == PvInit /\ [][PvNext]_pvVars

-------------------------------------------------------------------------------
(* The job holds a status the code writes, of a job and not of a step.     *)
PvTypeOK ==
    /\ pvJob.status \in {PvNone, "READY", "QUEUED", "RUNNING", "FAILED"} \cup PvFinal
    /\ pvSuccess \subseteq DOMAIN PvSteps
    /\ pvLock \in {PvNone} \cup PvWorkers

(* Steps are performed by one worker at a time: between the lock and the   *)
(* unlock nobody else executes, through retries, recoveries, crashes and    *)
(* cut-off requests (docs/START-23.12_PHASE2_ACCEPTANCE.md:70, "prevents a  *)
(* recovery worker and a manual /run request from executing the same job    *)
(* concurrently").                                                          *)
PvOneWorker ==
    \A w \in PvWorkers : pvWorker[w].at \in {"start", "step", "record", "fail", "unlock"} => pvLock = w

(* No step is performed before every earlier one was performed, by whatever *)
(* worker, and none is recorded that was not: although a worker goes on     *)
(* past a result it could not write (main.go:265).                          *)
PvInTurn ==
    /\ \A i \in pvSeen.done : 1..i \subseteq pvSeen.done
    /\ pvSuccess \subseteq pvSeen.done

(* Nothing is deployed for a partner whose licence gate was never open, and *)
(* a finished job has done everything; it has also recorded everything,     *)
(* unless a step's result was not written or not read.                      *)
PvDeployedWasLicensed ==
    /\ pvOutside.deployed => pvSeen.licensed
    /\ pvJob.status \in PvFinal =>
          /\ pvOutside.deployed /\ pvSeen.done = DOMAIN PvSteps
          /\ pvSuccess = DOMAIN PvSteps \/ pvSeen.unrecorded

(* When the job is finished the catalog and the connector have the job's    *)
(* module preset and no other, unless a POST changed it when a worker had   *)
(* read or applied it: that worker goes on with its copy, and a step that   *)
(* is recorded SUCCESS is skipped with the preset it had then.              *)
PvPresetApplied ==
    pvJob.status \in PvFinal /\ ~pvSeen.edited =>
        /\ pvOutside.entitled = {pvJob.preset} /\ pvOutside.desired = pvJob.preset

(* A job that is QUEUED or RUNNING with nobody to work on it was deserted:  *)
(* some worker was told that the job is busy, or could not take it up, or   *)
(* could not write the status it ended with, and had no attempt left.       *)
(* Crashes alone leave nothing behind, whichever process they hit and at    *)
(* whatever step (main.go:289).                                             *)
PvOrphanWasDeserted ==
    /\ pvJob.status \in {"QUEUED", "RUNNING"}
    /\ \A w \in PvWorkers : PvAt(w, "idle")
    => pvSeen.deserted

(* Not guaranteed by the code: without the exceptions.  A POST between a    *)
(* failing worker's last write and its unlock leaves the job QUEUED, and a  *)
(* request cut off leaves it RUNNING, until the next restart; a step whose  *)
(* result was not written stays RUNNING below a finished job for good.      *)
PvNoOrphan ==
    pvJob.status \in {"QUEUED", "RUNNING"} => \E w \in PvWorkers : ~PvAt(w, "idle")
PvFinishedIsRecorded == pvJob.status \in PvFinal => pvSuccess = DOMAIN PvSteps

\* A job is worked on once at a time, each step in its turn, and never left unattended
\* unless it was deserted, through crashes, restarts and dropped errors.
ProvisioningSafe ==
    /\ PvTypeOK
    /\ PvOneWorker
    /\ PvInTurn
    /\ PvDeployedWasLicensed
    /\ PvPresetApplied
    /\ PvOrphanWasDeserted
===============================================================================
