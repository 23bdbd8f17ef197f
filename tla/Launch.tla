-------------------------------- MODULE Launch --------------------------------
(***************************************************************************)
(* The launch gate of services/cmd/environments/main.go: one PRODUCTION    *)
(* environment from its creation to LIVE.                                  *)
(*                                                                         *)
(* Every handler reads the row, works from that copy through DNS and TLS   *)
(* checks, calls of the runtime and of the Partners service that take      *)
(* seconds, and writes columns back WHERE id.  No statement locks the row  *)
(* or asks whether it is still as it was read, so any number of handlers   *)
(* may interleave; each may also die between two statements.               *)
(*                                                                         *)
(* The runtime answers a call with a state or an error as it likes; what   *)
(* it does is module Runtime.  Of the partner only the lifecycle this      *)
(* service moves is modelled (PartnerLifecycle has the rest).  One release *)
(* is enough: active_release is present or not.  A column keeps what the    *)
(* gates read of it: "deployed" is deployment_status = DEPLOYED, "healthy"  *)
(* runtime_status = OK, "verified" the DNS, TLS and domain status together  *)
(* (checkDomain), and a status is LIVE, READY_FOR_LAUNCH or neither.        *)
(***************************************************************************)
EXTENDS Naturals

CONSTANTS
    LnHosts,      \* hostnames the environment may be given
    LnFirstHost,  \* its hostname at creation
    LnRequests,   \* concurrent requests
    LnEdits,      \* PATCH bodies: functions from some of the columns to values
    LnMaxBegun    \* bound: requests begun

\* LIVE is refused in a PATCH: launch is the only way to it.
ASSUME LnAssumption ==
    /\ LnFirstHost \in LnHosts /\ LnMaxBegun \in Nat
    /\ \A edit \in LnEdits :
          /\ "host" \in DOMAIN edit => edit.host \in LnHosts
          /\ "deployed" \in DOMAIN edit => edit.deployed \in BOOLEAN
          /\ "release" \in DOMAIN edit => edit.release \in BOOLEAN
          /\ "status" \in DOMAIN edit => edit.status \in {"READY_FOR_LAUNCH", "OTHER"}

VARIABLES
    lnRow,        \* environments.partner_environments
    lnPartner,    \* the partner's lifecycle
    lnReq,        \* requests in progress: step, row as read, whether it changed since
    lnBegun,      \* number of requests begun
    lnChecked,    \* history: hostnames that have passed DNS and TLS
    lnWasLive,    \* history: the partner has been LIVE
    lnOverlap     \* history: a request wrote over a row it had not seen

lnVars == <<lnRow, lnPartner, lnReq, lnBegun, lnChecked, lnWasLive, lnOverlap>>

LnIdle == [op |-> "idle"]

LnInit ==
    /\ lnRow = [host |-> LnFirstHost, deployed |-> FALSE, status |-> "OTHER",
                release |-> FALSE, healthy |-> FALSE, verified |-> FALSE]
    /\ lnPartner = "CONFIGURATION"
    /\ lnReq = [q \in LnRequests |-> LnIdle] /\ lnBegun = 0
    /\ lnChecked = {} /\ lnWasLive = FALSE /\ lnOverlap = FALSE

\* launchReadiness.
LnReady(e) == e.deployed /\ e.healthy /\ e.release /\ e.verified

\* What a request still needs of the row it has read.
LnNeeds(op) ==
    CASE op = "patch" -> {"host", "deployed", "status", "release", "verified"}
      [] op = "verify" -> {"host", "status"}
      [] op \in {"deploy", "recover"} -> {"status", "release", "deployed"}
      [] op \in {"health", "launch"} -> {"status", "deployed", "healthy", "release"}
LnCopy(op) == [c \in LnNeeds(op) |-> lnRow[c]]

\* UPDATE ... WHERE id by request q, which goes on as "next" says.
LnWrite(q, row, next) ==
    /\ lnRow' = row
    /\ lnReq' = [r \in LnRequests |->
                    IF r = q THEN next
                    ELSE IF lnReq[r] # LnIdle /\ row # lnRow
                         THEN [lnReq[r] EXCEPT !.stale = TRUE] ELSE lnReq[r]]
    /\ lnOverlap' = (lnOverlap \/ lnReq[q].stale)

LnAt(q, ops, step) == lnReq[q] # LnIdle /\ lnReq[q].op \in ops /\ lnReq[q].step = step
LnGoto(q, step) == [lnReq[q] EXCEPT !.step = step]
LnReread(q, row, step) == [lnReq[q] EXCEPT !.step = step, !.e = row, !.stale = FALSE]

\* A health check inside launch goes on to the gate; otherwise the request is over.
LnDone(q, row) == IF lnReq[q].op = "launch" THEN LnReread(q, row, "gate") ELSE LnIdle

LnBegin(q, op) ==
    /\ lnReq[q] = LnIdle /\ lnBegun < LnMaxBegun
    /\ lnBegun' = lnBegun + 1
    /\ lnReq' = [lnReq EXCEPT ![q] = [op |-> op, step |-> "read", e |-> LnCopy(op), stale |-> FALSE]]
    /\ UNCHANGED <<lnRow, lnPartner, lnChecked, lnWasLive, lnOverlap>>

LnDie(q) ==
    /\ lnReq[q] # LnIdle
    /\ lnReq' = [lnReq EXCEPT ![q] = LnIdle]
    /\ UNCHANGED <<lnRow, lnPartner, lnChecked, lnWasLive, lnOverlap, lnBegun>>

-------------------------------------------------------------------------------
\* PATCH: a new hostname loses its verification, is refused while LIVE, and LIVE
\* itself cannot be asked for; then every column but the runtime's is written back.
LnEdited(e, edit) ==
    LET set(c) == IF c \in DOMAIN edit THEN edit[c] ELSE e[c]
        moved == set("host") # e.host
    IN  [host |-> set("host"), deployed |-> set("deployed"), release |-> set("release"),
         healthy |-> lnRow.healthy, verified |-> e.verified /\ ~moved,
         status |-> IF "status" \in DOMAIN edit THEN edit.status
                    ELSE IF moved /\ e.status = "READY_FOR_LAUNCH" THEN "OTHER" ELSE e.status]
LnPatch(q, edit) ==
    /\ LnAt(q, {"patch"}, "read")
    /\ LET e == lnReq[q].e IN
       /\ ~("host" \in DOMAIN edit /\ edit.host # e.host /\ e.status = "LIVE")
       /\ LnWrite(q, LnEdited(e, edit), LnIdle)
    /\ UNCHANGED <<lnPartner, lnChecked, lnWasLive, lnBegun>>

\* verify-domain: the hostname as read is checked; the result and the status as read
\* are written; if all gates now pass the partner is moved on.
LnVerify(q, ok) ==
    /\ LnAt(q, {"verify"}, "read")
    /\ LET row == [lnRow EXCEPT !.verified = ok, !.status = lnReq[q].e.status]
       IN  LnWrite(q, row, IF row.status # "LIVE" /\ LnReady(row)
                           THEN LnReread(q, row, "ready") ELSE LnIdle)
    /\ lnChecked' = IF ok THEN lnChecked \cup {lnReq[q].e.host} ELSE lnChecked
    /\ UNCHANGED <<lnPartner, lnWasLive, lnBegun>>

-------------------------------------------------------------------------------
\* transitionPartnerLifecycle: where the partner may come from, and what counts as done.
LnFrom(target) ==
    CASE target = "TESTING" -> "CONFIGURATION"
      [] target = "READY_FOR_LAUNCH" -> "TESTING"
      [] target = "LIVE" -> "READY_FOR_LAUNCH"
LnPast(target) ==
    {target} \cup CASE target = "TESTING" -> {"READY_FOR_LAUNCH", "LIVE"}
                    [] target = "READY_FOR_LAUNCH" -> {"LIVE"}
                    [] target = "LIVE" -> {}

\* The step succeeds, or it is refused or cut off, whether or not the PATCH committed.
LnTransition(q, target, next) ==
    /\ \/ lnPartner \in LnPast(target) \cup {LnFrom(target)}
          /\ lnReq' = [lnReq EXCEPT ![q] = next]
          /\ lnPartner' = IF lnPartner = LnFrom(target) THEN target ELSE lnPartner
       \/ lnReq' = [lnReq EXCEPT ![q] = LnIdle]
          /\ lnPartner' \in {lnPartner} \cup (IF lnPartner = LnFrom(target) THEN {target} ELSE {})
    /\ lnWasLive' = (lnWasLive \/ lnPartner' = "LIVE")
    /\ UNCHANGED <<lnRow, lnChecked, lnOverlap, lnBegun>>

LnToTesting(q) ==
    /\ lnReq[q] # LnIdle /\ lnReq[q].step = "testing"
    /\ LnTransition(q, "TESTING",
          IF LnReady(lnReq[q].e) THEN LnGoto(q, "ready")
          ELSE IF lnReq[q].op = "launch" THEN LnGoto(q, "gate") ELSE LnIdle)
LnToReady(q) ==
    /\ lnReq[q] # LnIdle /\ lnReq[q].step = "ready"
    /\ LnTransition(q, "READY_FOR_LAUNCH", LnGoto(q, "mark"))
LnMark(q) ==
    /\ lnReq[q] # LnIdle /\ lnReq[q].step = "mark"
    /\ LET row == [lnRow EXCEPT !.status = "READY_FOR_LAUNCH"] IN LnWrite(q, row, LnDone(q, row))
    /\ UNCHANGED <<lnPartner, lnChecked, lnWasLive, lnBegun>>

\* finalizeDeployment: LIVE is kept if the row as read was LIVE.
LnFinalize(q) ==
    LET live == lnReq[q].e.status = "LIVE"
        row == [lnRow EXCEPT !.deployed = TRUE, !.release = TRUE, !.healthy = TRUE,
                             !.status = IF live THEN "LIVE" ELSE "OTHER"]
    IN  LnWrite(q, row, IF live THEN LnDone(q, row) ELSE LnReread(q, row, "testing"))

\* deployRecordWithOperation: DEPLOYING is written, the runtime asked, the answer written.
\* A deployment keeps LIVE, a recovery leaves SUSPENDED; otherwise TESTING or FAILED.
LnStatusOf(q) ==
    IF lnReq[q].op = "deploy" /\ lnReq[q].e.status = "LIVE" THEN "LIVE" ELSE "OTHER"
LnDeploy(q) ==
    /\ LnAt(q, {"deploy", "recover"}, "read")
    /\ LnWrite(q, [lnRow EXCEPT !.deployed = FALSE, !.healthy = FALSE,
                                !.status = LnStatusOf(q)], LnGoto(q, "called"))
    /\ UNCHANGED <<lnPartner, lnChecked, lnWasLive, lnBegun>>
LnDeployAnswer(q, answer) ==
    /\ LnAt(q, {"deploy", "recover"}, "called")
    /\ CASE answer = "READY" /\ lnReq[q].op = "deploy" -> LnFinalize(q)
         [] answer = "READY" /\ lnReq[q].op = "recover" ->
               LnWrite(q, [lnRow EXCEPT !.deployed = TRUE, !.status = "OTHER",
                                        !.release = TRUE, !.healthy = TRUE], LnIdle)
         [] answer = "DEPLOYING" ->
               LnWrite(q, [lnRow EXCEPT !.deployed = FALSE, !.healthy = FALSE,
                                        !.status = LnStatusOf(q)], LnIdle)
         [] answer = "ERROR" ->
               LnWrite(q, [lnRow EXCEPT !.deployed = FALSE, !.healthy = FALSE,
                                        !.status = LnStatusOf(q)], LnIdle)
    /\ UNCHANGED <<lnPartner, lnChecked, lnWasLive, lnBegun>>

\* recovery-release without any release, or reusing a healthy deployment of it.
LnRecoverReuse(q) ==
    /\ LnAt(q, {"recover"}, "read")
    /\ \/ /\ ~lnReq[q].e.release
          /\ LnWrite(q, [lnRow EXCEPT !.status = "OTHER"], LnIdle)
       \/ /\ lnReq[q].e.release /\ lnReq[q].e.deployed
          /\ LnWrite(q, [lnRow EXCEPT !.deployed = TRUE, !.status = "OTHER",
                                      !.release = TRUE, !.healthy = TRUE], LnIdle)
    /\ UNCHANGED <<lnPartner, lnChecked, lnWasLive, lnBegun>>

\* probeRuntime, alone or as the first half of launch.
LnProbe(q, answer) ==
    /\ LnAt(q, {"health", "launch"}, "read")
    /\ LET e == lnReq[q].e IN
       CASE answer = "READY" /\ ~(e.deployed /\ e.healthy /\ e.release) ->
               LnFinalize(q)
         [] answer = "READY" /\ e.deployed /\ e.healthy /\ e.release ->
               LET row == [lnRow EXCEPT !.healthy = TRUE] IN LnWrite(q, row, LnDone(q, row))
         [] answer = "DEPLOYING" ->
               LET row == [lnRow EXCEPT !.deployed = FALSE, !.healthy = FALSE]
               IN  LnWrite(q, row, LnDone(q, row))
         [] answer = "ERROR" ->
               LnWrite(q, [lnRow EXCEPT !.healthy = FALSE], LnIdle)
         [] answer = "UNEXPECTED" ->
               LnWrite(q, [lnRow EXCEPT !.deployed = FALSE, !.healthy = FALSE], LnIdle)
    /\ UNCHANGED <<lnPartner, lnChecked, lnWasLive, lnBegun>>

\* Mutation of LnGate: the gates are those of the row read before the health check.
LnGateUnasked(q) ==
    /\ LnAt(q, {"launch"}, "gate")
    /\ lnReq[q].e.deployed /\ lnReq[q].e.healthy
    /\ LnTransition(q, "LIVE", LnGoto(q, "live"))
\* launch: all gates on the row as re-read after the probe, then the partner, then LIVE.
LnGate(q) ==
    /\ LnAt(q, {"launch"}, "gate") /\ LnReady(lnReq[q].e)
    /\ LnTransition(q, "LIVE", LnGoto(q, "live"))
LnGoLive(q) ==
    /\ LnAt(q, {"launch"}, "live")
    /\ LnWrite(q, [lnRow EXCEPT !.status = "LIVE"], LnIdle)
    /\ UNCHANGED <<lnPartner, lnChecked, lnWasLive, lnBegun>>

\* Other services suspend a LIVE partner and bring it back (billing, administrators).
LnPartnerMoves ==
    /\ \/ lnPartner = "LIVE" /\ lnPartner' = "SUSPENDED"
       \/ lnPartner = "SUSPENDED" /\ lnPartner' = "LIVE"
    /\ UNCHANGED <<lnRow, lnReq, lnChecked, lnWasLive, lnOverlap, lnBegun>>

LnNext ==
    \/ \E q \in LnRequests :
          \/ \E op \in {"patch", "verify", "deploy", "recover", "health", "launch"} : LnBegin(q, op)
          \/ LnDie(q)
          \/ \E edit \in LnEdits : LnPatch(q, edit)
          \/ \E ok \in BOOLEAN : LnVerify(q, ok)
          \/ LnToTesting(q) \/ LnToReady(q) \/ LnMark(q)
          \/ LnDeploy(q) \/ LnRecoverReuse(q)
          \/ \E answer \in {"READY", "DEPLOYING", "ERROR"} : LnDeployAnswer(q, answer)
          \/ \E answer \in {"READY", "DEPLOYING", "ERROR", "UNEXPECTED"} : LnProbe(q, answer)
          \/ LnGate(q) \/ LnGoLive(q)
    \/ LnPartnerMoves

LnSpec == LnInit /\ [][LnNext]_lnVars

-------------------------------------------------------------------------------
(* The row and the lifecycle hold values the code writes.                   *)
LnTypeOK ==
    /\ lnRow \in [host : LnHosts, deployed : BOOLEAN, healthy : BOOLEAN, release : BOOLEAN,
                 verified : BOOLEAN, status : {"LIVE", "READY_FOR_LAUNCH", "OTHER"}]
    /\ lnPartner \in {"CONFIGURATION", "TESTING", "READY_FOR_LAUNCH", "LIVE", "SUSPENDED"}

(* An environment is LIVE only if its partner has gone LIVE first, through  *)
(* lost answers, deaths and any overlap of handlers that write the status   *)
(* they have read back (launchEnvironment, main.go:570).                    *)
LnLiveFollowsPartner == lnRow.status = "LIVE" => lnWasLive

(* As long as no request writes over a row it has not seen, an environment  *)
(* is LIVE only under a hostname that has passed DNS and TLS, and a domain  *)
(* is VERIFIED only if its own hostname has: requests that follow one       *)
(* another, or die halfway, cannot open the gate.                           *)
LnGateHoldsInOrder ==
    ~lnOverlap => /\ lnRow.status = "LIVE" => lnRow.host \in lnChecked
                  /\ lnRow.verified => lnRow.host \in lnChecked

(* Violated by the code (docs/START-20_ACCEPTANCE.md:7: launch blocks on    *)
(* the DNS and TLS gates): no environment goes LIVE under a hostname that   *)
(* was never checked.  verifyDomain writes the result of the hostname it    *)
(* read although a PATCH has changed the hostname meanwhile.                *)
LnLiveHostWasChecked == lnRow.status = "LIVE" => lnRow.host \in lnChecked

\* A launch went through the gate, and one that is undisturbed by other requests
\* found every condition of the gate fulfilled.
LaunchSafe ==
    /\ LnTypeOK
    /\ LnLiveFollowsPartner
    /\ LnGateHoldsInOrder
===============================================================================
