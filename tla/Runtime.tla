-------------------------------- MODULE Runtime --------------------------------
(***************************************************************************)
(* services/cmd/runtime/main.go: deployments of one partner environment.   *)
(*                                                                         *)
(* A deploy request is made durable as an intent under a key computed from *)
(* everything it says; whoever inserts the intent triggers the provider,   *)
(* everybody else is answered from the intent.  The environment has one    *)
(* runtime.deployments row, last written wins; the health handler reads    *)
(* it, asks the provider and writes the answer back.  No two statements    *)
(* share a transaction and a handler may die between any two.              *)
(*                                                                         *)
(* The provider is external: it is modelled from the calls Trigger and     *)
(* Status make.  It builds each deployment, makes it live or fails it, and *)
(* takes it down when another one goes live.                               *)
(***************************************************************************)
EXTENDS Naturals, FiniteSets

CONSTANTS
    RtKeys,       \* request keys: what can be asked to be deployed
    RtRequests,   \* concurrent handlers
    RtMaxBegun    \* bound: requests begun

ASSUME RtAssumption == RtMaxBegun \in Nat

VARIABLES
    rtIntent,     \* runtime.deployment_intents by request key
    rtRow,        \* runtime.deployments: the environment's row
    rtProvider,   \* the provider's deployments: <<key, how many for that key>> -> status
    rtReq,        \* handlers in progress
    rtBegun,      \* number of requests begun
    rtLive,       \* history: deployments that have been live
    rtOverlap     \* history: a health check wrote on another deployment's row

rtVars == <<rtIntent, rtRow, rtProvider, rtReq, rtBegun, rtLive, rtOverlap>>

RtNone == [status |-> "NONE"]
RtIdle == [step |-> "idle"]
RtNoDeploy == <<>>

RtInit ==
    /\ rtIntent = [k \in RtKeys |-> RtNone]
    /\ rtRow = RtNone
    /\ rtProvider = [d \in {} |-> "building"]
    /\ rtReq = [q \in RtRequests |-> RtIdle]
    /\ rtBegun = 0 /\ rtLive = {} /\ rtOverlap = FALSE

RtAt(q, step) == rtReq[q].step = step
RtGo(q, req) == rtReq' = [rtReq EXCEPT ![q] = req]
RtDone(q) == RtGo(q, RtIdle)

\* normalizedProviderStatus.
RtNormalized(status) ==
    CASE status = "live" -> "READY"
      [] status \in {"failed", "deactivated"} -> "FAILED"
      [] OTHER -> "DEPLOYING"

-------------------------------------------------------------------------------
\* The provider.
RtDeploysOf(k) == {d \in DOMAIN rtProvider : d[1] = k}
RtCreated(k, d, status) == [x \in DOMAIN rtProvider \cup {d} |-> IF x = d THEN status ELSE rtProvider[x]]
RtWentLive(provider, d) ==
    [x \in DOMAIN provider |->
        IF x = d THEN "live" ELSE IF provider[x] = "live" THEN "deactivated" ELSE provider[x]]

RtProviderMoves(d) ==
    /\ rtProvider[d] = "building"
    /\ \/ rtProvider' = RtWentLive(rtProvider, d) /\ rtLive' = rtLive \cup {d}
       \/ rtProvider' = [rtProvider EXCEPT ![d] = "failed"] /\ rtLive' = rtLive
    /\ UNCHANGED <<rtIntent, rtRow, rtReq, rtBegun, rtOverlap>>

-------------------------------------------------------------------------------
RtBegin(q, req) ==
    /\ RtAt(q, "idle") /\ rtBegun < RtMaxBegun
    /\ rtBegun' = rtBegun + 1
    /\ RtGo(q, req)
    /\ UNCHANGED <<rtIntent, rtRow, rtProvider, rtLive, rtOverlap>>
RtDie(q) ==
    /\ ~RtAt(q, "idle") /\ RtDone(q)
    /\ UNCHANGED <<rtIntent, rtRow, rtProvider, rtBegun, rtLive, rtOverlap>>

\* Mutation of RtInsert: an intent that has no deployment yet is taken over.
RtInsertAgain(q) ==
    /\ RtAt(q, "insert")
    /\ LET k == rtReq[q].key IN
       IF rtIntent[k] = RtNone \/ rtIntent[k].deploy = RtNoDeploy
       THEN /\ rtIntent' = [rtIntent EXCEPT ![k] = [status |-> "PREPARED", deploy |-> RtNoDeploy]]
            /\ RtGo(q, [step |-> "trigger", key |-> k])
       ELSE rtIntent' = rtIntent /\ RtGo(q, [step |-> "lookup", key |-> k])
    /\ UNCHANGED <<rtRow, rtProvider, rtBegun, rtLive, rtOverlap>>
\* INSERT ... ON CONFLICT DO NOTHING RETURNING decides who triggers.
RtInsert(q) ==
    /\ RtAt(q, "insert")
    /\ LET k == rtReq[q].key IN
       IF rtIntent[k] = RtNone
       THEN /\ rtIntent' = [rtIntent EXCEPT ![k] = [status |-> "PREPARED", deploy |-> RtNoDeploy]]
            /\ RtGo(q, [step |-> "trigger", key |-> k])
       ELSE rtIntent' = rtIntent /\ RtGo(q, [step |-> "lookup", key |-> k])
    /\ UNCHANGED <<rtRow, rtProvider, rtBegun, rtLive, rtOverlap>>

\* provider.Trigger: the request may be lost before or after it took effect, and the
\* local provider is live at once.
RtTrigger(q) ==
    /\ RtAt(q, "trigger")
    /\ LET k == rtReq[q].key
           d == <<k, Cardinality(RtDeploysOf(k)) + 1>>
       IN  \/ \E status \in {"building", "live"} :
                 /\ rtProvider' = IF status = "live" THEN RtWentLive(RtCreated(k, d, status), d)
                                                     ELSE RtCreated(k, d, status)
                 /\ rtLive' = IF status = "live" THEN rtLive \cup {d} ELSE rtLive
                 /\ RtGo(q, [step |-> "record", key |-> k, deploy |-> d, status |-> status])
           \/ /\ \/ rtProvider' = rtProvider
                 \/ rtProvider' = RtCreated(k, d, "building")
              /\ rtLive' = rtLive
              /\ RtGo(q, [step |-> "unknown", key |-> k])
    /\ UNCHANGED <<rtIntent, rtRow, rtBegun, rtOverlap>>

RtUnknown(q) ==
    /\ RtAt(q, "unknown")
    /\ rtIntent' = [rtIntent EXCEPT ![rtReq[q].key].status = "UNKNOWN"]
    /\ RtDone(q)
    /\ UNCHANGED <<rtRow, rtProvider, rtBegun, rtLive, rtOverlap>>
\* The provider's id is recorded under the request key before anything else is written.
RtRecord(q) ==
    /\ RtAt(q, "record")
    /\ rtIntent' = [rtIntent EXCEPT ![rtReq[q].key] =
                       [status |-> RtNormalized(rtReq[q].status), deploy |-> rtReq[q].deploy]]
    /\ RtGo(q, [rtReq[q] EXCEPT !.step = "persist"])
    /\ UNCHANGED <<rtRow, rtProvider, rtBegun, rtLive, rtOverlap>>

\* deploymentFromIntent: no deployment id is RECONCILIATION_REQUIRED, otherwise the
\* provider is asked (and may not answer).
RtLookup(q) ==
    /\ RtAt(q, "lookup")
    /\ LET k == rtReq[q].key IN
       \/ rtIntent[k].deploy = RtNoDeploy /\ RtDone(q)
       \/ /\ rtIntent[k].deploy # RtNoDeploy
          /\ RtGo(q, [step |-> "ask", key |-> k, deploy |-> rtIntent[k].deploy])
    /\ UNCHANGED <<rtIntent, rtRow, rtProvider, rtBegun, rtLive, rtOverlap>>
RtAsk(q) ==
    /\ RtAt(q, "ask")
    /\ \/ RtDone(q)
       \/ RtGo(q, [step |-> "again", key |-> rtReq[q].key, deploy |-> rtReq[q].deploy,
                   status |-> rtProvider[rtReq[q].deploy]])
    /\ UNCHANGED <<rtIntent, rtRow, rtProvider, rtBegun, rtLive, rtOverlap>>

\* persistDeployment, at the end of a new request or in the middle of a repeated one.
RtPersist(q) ==
    /\ rtReq[q].step \in {"persist", "again"}
    /\ rtRow' = [deploy |-> rtReq[q].deploy, status |-> RtNormalized(rtReq[q].status)]
    /\ IF RtAt(q, "persist") THEN RtDone(q) ELSE RtGo(q, [rtReq[q] EXCEPT !.step = "note"])
    /\ UNCHANGED <<rtIntent, rtProvider, rtBegun, rtLive, rtOverlap>>
RtNote(q) ==
    /\ RtAt(q, "note")
    /\ rtIntent' = [rtIntent EXCEPT ![rtReq[q].key].status = RtNormalized(rtReq[q].status)]
    /\ RtDone(q)
    /\ UNCHANGED <<rtRow, rtProvider, rtBegun, rtLive, rtOverlap>>

\* runtimeHealth: only a DEPLOYING row is asked about; the status goes to the row of
\* the environment whichever deployment it is of by then.
RtHealthRead(q) ==
    /\ RtAt(q, "health")
    /\ \/ rtRow.status # "DEPLOYING" /\ RtDone(q)
       \/ rtRow.status = "DEPLOYING" /\ RtGo(q, [step |-> "probe", deploy |-> rtRow.deploy])
    /\ UNCHANGED <<rtIntent, rtRow, rtProvider, rtBegun, rtLive, rtOverlap>>
RtHealthAsk(q) ==
    /\ RtAt(q, "probe")
    /\ \/ RtDone(q)
       \/ RtGo(q, [step |-> "report", deploy |-> rtReq[q].deploy,
                   status |-> rtProvider[rtReq[q].deploy]])
    /\ UNCHANGED <<rtIntent, rtRow, rtProvider, rtBegun, rtLive, rtOverlap>>
RtHealthWrite(q) ==
    /\ RtAt(q, "report")
    /\ rtRow' = [rtRow EXCEPT !.status = RtNormalized(rtReq[q].status)]
    /\ rtOverlap' = (rtOverlap \/ rtRow.deploy # rtReq[q].deploy)
    /\ RtDone(q)
    /\ UNCHANGED <<rtIntent, rtProvider, rtBegun, rtLive>>

RtNext ==
    \/ \E q \in RtRequests :
          \/ \E k \in RtKeys : RtBegin(q, [step |-> "insert", key |-> k])
          \/ RtBegin(q, [step |-> "health"])
          \/ RtDie(q)
          \/ RtInsert(q) \/ RtTrigger(q) \/ RtUnknown(q) \/ RtRecord(q)
          \/ RtLookup(q) \/ RtAsk(q) \/ RtPersist(q) \/ RtNote(q)
          \/ RtHealthRead(q) \/ RtHealthAsk(q) \/ RtHealthWrite(q)
    \/ \E d \in DOMAIN rtProvider : RtProviderMoves(d)

RtSpec == RtInit /\ [][RtNext]_rtVars

-------------------------------------------------------------------------------
(* Intents, the row and what the provider runs fit together: an intent's    *)
(* deployment is one of its own key.                                        *)
RtTypeOK ==
    /\ \A k \in RtKeys :
          rtIntent[k] = RtNone \/
          /\ rtIntent[k].status \in {"PREPARED", "UNKNOWN", "READY", "FAILED", "DEPLOYING"}
          /\ rtIntent[k].deploy \in {RtNoDeploy} \cup RtDeploysOf(k)
    /\ rtRow = RtNone \/ rtRow.deploy \in DOMAIN rtProvider
    /\ \A d \in DOMAIN rtProvider : rtProvider[d] \in {"building", "live", "failed", "deactivated"}

(* However often a deployment is requested, concurrently, after a lost      *)
(* answer or after a crash at any point, the provider is triggered at most  *)
(* once for it, and never before its intent is durable                      *)
(* (docs/CENTRAL-14_ACCEPTANCE.md:42, "retries ... reuse exactly one        *)
(* provider deployment"; main.go:511).                                      *)
RtOneTriggerPerKey ==
    \A k \in RtKeys : /\ Cardinality(RtDeploysOf(k)) <= 1
                      /\ RtDeploysOf(k) # {} => rtIntent[k] # RtNone

(* A row that reads READY names a deployment that has been live, as long as *)
(* no health check wrote its answer onto the row of a later deployment.     *)
RtReadyWasLive ==
    rtRow.status = "READY" /\ ~rtOverlap => rtRow.deploy \in rtLive

(* Not guaranteed by the code: without the exception above.  A health check *)
(* that asked about the previous deployment makes the next one READY while  *)
(* it is still building (main.go:601).                                      *)
RtReadyWasLiveAlways == rtRow.status = "READY" => rtRow.deploy \in rtLive

(* Not guaranteed by the code: a FAILED row means that nothing serves.      *)
(* Asking for a release that was deployed before finds its old intent and   *)
(* writes the old deployment, deactivated since, over the row of the one    *)
(* that is live (main.go:374).                                              *)
RtFailedServesNothing ==
    rtRow.status = "FAILED" => \A d \in DOMAIN rtProvider : rtProvider[d] # "live"

\* One deployment per idempotency key, and READY only after the provider said so,
\* through crashes, timeouts and repetitions.
RuntimeSafe ==
    /\ RtTypeOK
    /\ RtOneTriggerPerKey
    /\ RtReadyWasLive
===============================================================================
