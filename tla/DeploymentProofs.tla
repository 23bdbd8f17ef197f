--------------------------- MODULE DeploymentProofs ---------------------------
(***************************************************************************)
(* Proofs about what a partner puts before the world: the deployments of   *)
(* an environment (Runtime), for any set of request keys and any number of *)
(* overlapping requests; the provisioning job (Provisioning), for any set  *)
(* of processes and presets and any number of restarts; the launch of an   *)
(* environment (Launch), for any hostnames, edits and requests; and the    *)
(* pages, settings and branding that visitors see (CmsPages, CmsSite), for *)
(* any pages, contents, partners and overlapping requests.  And proofs     *)
(* about what takes it away again, the dunning of a partner that does not  *)
(* pay (Dunning), for any invoices, processes, days and faults.            *)
(***************************************************************************)
EXTENDS Runtime, Provisioning, Launch, CmsSite, Dunning, FiniteSetTheorems, SequenceTheorems,
    WellFoundedInduction, TLAPS

\* The one deployment a key can have.
RtFirst(k) == <<k, 1>>
RtFirsts == {RtFirst(k) : k \in RtKeys}

RtStatuses == {"building", "live", "failed", "deactivated"}
RtWritten == {"READY", "FAILED", "DEPLOYING"}

RtIntents ==
    {RtNone} \cup [status : {"PREPARED", "UNKNOWN"} \cup RtWritten, deploy : {RtNoDeploy} \cup RtFirsts]

RtReqs ==
    [step : {"idle", "health"}]
    \cup [step : {"insert", "trigger", "unknown", "lookup"}, key : RtKeys]
    \cup [step : {"ask"}, key : RtKeys, deploy : RtFirsts]
    \cup [step : {"record", "persist", "again", "note"}, key : RtKeys, deploy : RtFirsts,
          status : RtStatuses]
    \cup [step : {"probe"}, deploy : RtFirsts]
    \cup [step : {"report"}, deploy : RtFirsts, status : RtStatuses]

RtTyped ==
    /\ rtIntent \in [RtKeys -> RtIntents]
    /\ rtRow \in {RtNone} \cup [deploy : RtFirsts, status : RtWritten]
    /\ DOMAIN rtProvider \subseteq RtFirsts
    /\ rtProvider \in [DOMAIN rtProvider -> RtStatuses]
    /\ rtReq \in [RtRequests -> RtReqs]
    /\ rtOverlap \in BOOLEAN

\* What a request knows is there: its intent, its deployment and, once it was live,
\* that it was; a health check's row.
RtKeyedSteps == {"trigger", "unknown", "lookup", "ask", "record", "persist", "again", "note"}
RtDeploySteps == {"ask", "record", "persist", "again", "note", "probe", "report"}
RtStatusSteps == {"record", "persist", "again", "note", "report"}
RtBackedBy(req, intent, deploys, live, row) ==
    /\ req.step \in RtKeyedSteps => intent[req.key] # RtNone
    /\ req.step \in RtDeploySteps => req.deploy \in deploys
    /\ req.step \in RtKeyedSteps \cap RtDeploySteps => req.deploy = RtFirst(req.key)
    /\ req.step \in RtStatusSteps /\ req.status = "live" => req.deploy \in live
    /\ req.step \in {"probe", "report"} => row # RtNone
RtRequestsAreBacked ==
    \A q \in RtRequests : RtBackedBy(rtReq[q], rtIntent, DOMAIN rtProvider, rtLive, rtRow)

\* The one request that may trigger for a key does so for the first time.
RtTriggerIsFirst ==
    \A q \in RtRequests : rtReq[q].step = "trigger" =>
        /\ RtFirst(rtReq[q].key) \notin DOMAIN rtProvider
        /\ \A r \in RtRequests : rtReq[r].step = "trigger" /\ rtReq[r].key = rtReq[q].key => r = q

\* Every deployment has its intent, and an intent names none but its own.
RtIntentIsOwn ==
    \A k \in RtKeys :
        /\ RtFirst(k) \in DOMAIN rtProvider => rtIntent[k] # RtNone
        /\ rtIntent[k] # RtNone =>
              \/ rtIntent[k].deploy = RtNoDeploy
              \/ rtIntent[k].deploy = RtFirst(k) /\ RtFirst(k) \in DOMAIN rtProvider

RtLiveIsSeen == \A d \in DOMAIN rtProvider : rtProvider[d] = "live" => d \in rtLive
RtRowIsDeployed == rtRow # RtNone => rtRow.deploy \in DOMAIN rtProvider

RtInv ==
    /\ RtTyped /\ RtRequestsAreBacked /\ RtTriggerIsFirst /\ RtIntentIsOwn
    /\ RtLiveIsSeen /\ RtRowIsDeployed /\ RtReadyWasLive
-------------------------------------------------------------------------------
\* What the rest of the state knows only grows, so it keeps backing every request.
LEMMA RtRequestMoved ==
    ASSUME RtInv, NEW q \in RtRequests, NEW req \in RtReqs, RtGo(q, req),
           \A k \in RtKeys : rtIntent[k] # RtNone => rtIntent'[k] # RtNone,
           DOMAIN rtProvider \subseteq DOMAIN rtProvider', rtLive \subseteq rtLive',
           rtRow # RtNone => rtRow' # RtNone,
           RtBackedBy(req, rtIntent', DOMAIN rtProvider', rtLive', rtRow')
    PROVE  /\ rtReq' \in [RtRequests -> RtReqs] /\ rtReq'[q] = req
           /\ \A r \in RtRequests \ {q} : rtReq'[r] = rtReq[r]
           /\ RtRequestsAreBacked'
<1>1. /\ rtReq' \in [RtRequests -> RtReqs] /\ rtReq'[q] = req
      /\ \A r \in RtRequests \ {q} : rtReq'[r] = rtReq[r]
  BY DEF RtGo, RtInv, RtTyped
<1>2. ASSUME NEW r \in RtRequests \ {q}
      PROVE  RtBackedBy(rtReq[r], rtIntent', DOMAIN rtProvider', rtLive', rtRow')
  <2>1. rtReq[r] \in RtReqs /\ RtBackedBy(rtReq[r], rtIntent, DOMAIN rtProvider, rtLive, rtRow)
    BY DEF RtInv, RtTyped, RtRequestsAreBacked
  <2>2. rtReq[r].step \in RtKeyedSteps => rtReq[r].key \in RtKeys
    BY <2>1 DEF RtReqs, RtKeyedSteps
  <2> QED BY <2>1, <2>2 DEF RtBackedBy
<1>3. \A r \in RtRequests : RtBackedBy(rtReq'[r], rtIntent', DOMAIN rtProvider', rtLive', rtRow')
  BY <1>1, <1>2
<1> QED BY <1>1, <1>3 DEF RtRequestsAreBacked

\* A step that moves one request alone, and not to a trigger.
LEMMA RtOnlyRequestInv ==
    ASSUME RtInv, NEW q \in RtRequests, NEW req \in RtReqs, RtGo(q, req), req.step # "trigger",
           UNCHANGED <<rtIntent, rtRow, rtProvider, rtLive, rtOverlap>>,
           RtBackedBy(req, rtIntent, DOMAIN rtProvider, rtLive, rtRow)
    PROVE  RtInv'
<1>1. /\ rtReq' \in [RtRequests -> RtReqs] /\ rtReq'[q] = req
      /\ \A r \in RtRequests \ {q} : rtReq'[r] = rtReq[r]
      /\ RtRequestsAreBacked'
  BY RtRequestMoved
<1>2. RtTyped'
  BY <1>1 DEF RtInv, RtTyped
<1>3. RtTriggerIsFirst'
  BY <1>1 DEF RtInv, RtTriggerIsFirst
<1>4. RtIntentIsOwn' /\ RtLiveIsSeen' /\ RtRowIsDeployed' /\ RtReadyWasLive'
  BY DEF RtInv, RtIntentIsOwn, RtLiveIsSeen, RtRowIsDeployed, RtReadyWasLive
<1> QED BY <1>1, <1>2, <1>3, <1>4 DEF RtInv

\* A request begins, dies, asks or reads.
LEMMA RtReadersInv ==
    ASSUME RtInv, NEW q \in RtRequests,
           \/ \E k \in RtKeys : RtBegin(q, [step |-> "insert", key |-> k])
           \/ RtBegin(q, [step |-> "health"])
           \/ RtDie(q) \/ RtLookup(q) \/ RtAsk(q) \/ RtHealthRead(q) \/ RtHealthAsk(q)
    PROVE  RtInv'
<1> USE DEF RtBackedBy, RtKeyedSteps, RtDeploySteps, RtStatusSteps
<1>0. /\ rtReq[q] \in RtReqs
      /\ RtBackedBy(rtReq[q], rtIntent, DOMAIN rtProvider, rtLive, rtRow)
      /\ UNCHANGED <<rtIntent, rtRow, rtProvider, rtLive, rtOverlap>>
  BY DEF RtInv, RtTyped, RtRequestsAreBacked, RtBegin, RtDie, RtLookup, RtAsk, RtHealthRead, RtHealthAsk
<1>1. ASSUME RtGo(q, RtIdle) PROVE RtInv'
  <2>1. RtIdle \in RtReqs /\ RtIdle.step = "idle"
    BY DEF RtIdle, RtReqs
  <2> QED
    <3> HIDE DEF RtIdle
    <3> QED BY <1>0, <1>1, <2>1, RtOnlyRequestInv
<1>2. ASSUME NEW k \in RtKeys, RtGo(q, [step |-> "insert", key |-> k]) PROVE RtInv'
  <2>1. [step |-> "insert", key |-> k] \in RtReqs
    BY DEF RtReqs
  <2> QED BY <1>0, <1>2, <2>1, RtOnlyRequestInv
<1>3. ASSUME RtGo(q, [step |-> "health"]) PROVE RtInv'
  <2>1. [step |-> "health"] \in RtReqs
    BY DEF RtReqs
  <2> QED BY <1>0, <1>3, <2>1, RtOnlyRequestInv
<1>4. CASE RtLookup(q) /\ ~RtDone(q)
  <2> DEFINE k == rtReq[q].key
             req == [step |-> "ask", key |-> k, deploy |-> rtIntent[k].deploy]
  <2>1. /\ rtReq[q].step = "lookup" /\ RtGo(q, req) /\ rtIntent[k].deploy # RtNoDeploy
    BY <1>4 DEF RtLookup, RtAt
  <2>2. k \in RtKeys /\ rtIntent[k] # RtNone
    BY <1>0, <2>1 DEF RtReqs
  <2>3. rtIntent[k].deploy = RtFirst(k) /\ RtFirst(k) \in DOMAIN rtProvider
    BY <2>1, <2>2 DEF RtInv, RtIntentIsOwn
  <2>4. req \in RtReqs
    BY <2>2, <2>3 DEF RtReqs, RtFirsts
  <2> QED BY <1>0, <2>1, <2>2, <2>3, <2>4, RtOnlyRequestInv
<1>5. CASE RtAsk(q) /\ ~RtDone(q)
  <2> DEFINE d == rtReq[q].deploy
             req == [step |-> "again", key |-> rtReq[q].key, deploy |-> d, status |-> rtProvider[d]]
  <2>1. rtReq[q].step = "ask" /\ RtGo(q, req)
    BY <1>5 DEF RtAsk, RtAt
  <2>2. /\ rtReq[q].key \in RtKeys /\ rtIntent[rtReq[q].key] # RtNone
        /\ d \in DOMAIN rtProvider /\ d = RtFirst(rtReq[q].key)
    BY <1>0, <2>1 DEF RtReqs
  <2>3. d \in RtFirsts /\ rtProvider[d] \in RtStatuses /\ (rtProvider[d] = "live" => d \in rtLive)
    BY <2>2 DEF RtInv, RtTyped, RtLiveIsSeen
  <2>4. req \in RtReqs
    BY <2>2, <2>3 DEF RtReqs
  <2> QED BY <1>0, <2>1, <2>2, <2>3, <2>4, RtOnlyRequestInv
<1>6. CASE RtHealthRead(q) /\ ~RtDone(q)
  <2> DEFINE req == [step |-> "probe", deploy |-> rtRow.deploy]
  <2>1. rtRow.status = "DEPLOYING" /\ RtGo(q, req)
    BY <1>6 DEF RtHealthRead
  <2>2. rtRow # RtNone
    BY <2>1 DEF RtNone
  <2>3. rtRow.deploy \in RtFirsts /\ rtRow.deploy \in DOMAIN rtProvider
    BY <2>2 DEF RtInv, RtTyped, RtRowIsDeployed
  <2>4. req \in RtReqs
    BY <2>3 DEF RtReqs
  <2> QED BY <1>0, <2>1, <2>2, <2>3, <2>4, RtOnlyRequestInv
<1>7. CASE RtHealthAsk(q) /\ ~RtDone(q)
  <2> DEFINE d == rtReq[q].deploy
             req == [step |-> "report", deploy |-> d, status |-> rtProvider[d]]
  <2>1. rtReq[q].step = "probe" /\ RtGo(q, req)
    BY <1>7 DEF RtHealthAsk, RtAt
  <2>2. d \in DOMAIN rtProvider /\ rtRow # RtNone
    BY <1>0, <2>1
  <2>3. d \in RtFirsts /\ rtProvider[d] \in RtStatuses /\ (rtProvider[d] = "live" => d \in rtLive)
    BY <2>2 DEF RtInv, RtTyped, RtLiveIsSeen
  <2>4. req \in RtReqs
    BY <2>3 DEF RtReqs
  <2> QED BY <1>0, <2>1, <2>2, <2>3, <2>4, RtOnlyRequestInv
<1> QED
  <2>1. CASE RtDone(q)
    BY <2>1, <1>1 DEF RtDone
  <2>2. CASE \E k \in RtKeys : RtBegin(q, [step |-> "insert", key |-> k])
    BY <2>2, <1>2 DEF RtBegin
  <2>3. CASE RtBegin(q, [step |-> "health"])
    BY <2>3, <1>3 DEF RtBegin
  <2>4. RtDie(q) => RtDone(q)
    BY DEF RtDie
  <2> QED BY <2>1, <2>2, <2>3, <2>4, <1>4, <1>5, <1>6, <1>7

\* A step that writes the intent of its own key, whose deployment is the key's own.
LEMMA RtIntentWritten ==
    ASSUME RtInv, NEW q \in RtRequests, NEW req \in RtReqs, RtGo(q, req),
           NEW k \in RtKeys, NEW intent \in RtIntents \ {RtNone},
           rtIntent' = [rtIntent EXCEPT ![k] = intent],
           \/ intent.deploy = RtNoDeploy
           \/ intent.deploy = RtFirst(k) /\ RtFirst(k) \in DOMAIN rtProvider,
           UNCHANGED <<rtRow, rtProvider, rtLive, rtOverlap>>,
           RtBackedBy(req, rtIntent', DOMAIN rtProvider, rtLive, rtRow),
           req.step = "trigger" => rtIntent[k] = RtNone /\ req.key = k
    PROVE  RtInv'
<1>1. /\ rtIntent' \in [RtKeys -> RtIntents] /\ rtIntent'[k] = intent
      /\ \A x \in RtKeys \ {k} : rtIntent'[x] = rtIntent[x]
  BY DEF RtInv, RtTyped
<1>2. \A x \in RtKeys : rtIntent[x] # RtNone => rtIntent'[x] # RtNone
  BY <1>1
<1>3. /\ rtReq' \in [RtRequests -> RtReqs] /\ rtReq'[q] = req
      /\ \A r \in RtRequests \ {q} : rtReq'[r] = rtReq[r]
      /\ RtRequestsAreBacked'
  BY <1>2, RtRequestMoved
<1>4. RtTyped'
  BY <1>1, <1>3 DEF RtInv, RtTyped
<1>5. RtTriggerIsFirst'
  <2>1. CASE req.step # "trigger"
    BY <2>1, <1>3 DEF RtInv, RtTriggerIsFirst
  <2>2. CASE req.step = "trigger"
    <3>1. rtIntent[k] = RtNone /\ req.key = k /\ RtFirst(k) \notin DOMAIN rtProvider
      BY <2>2 DEF RtInv, RtIntentIsOwn
    <3>2. \A r \in RtRequests : rtReq[r].step = "trigger" => rtReq[r].key # k
      BY <3>1 DEF RtInv, RtRequestsAreBacked, RtBackedBy, RtKeyedSteps
    <3> QED BY <3>1, <3>2, <1>3 DEF RtInv, RtTriggerIsFirst
  <2> QED BY <2>1, <2>2
<1>6. RtIntentIsOwn'
  BY <1>1 DEF RtInv, RtIntentIsOwn
<1>7. RtLiveIsSeen' /\ RtRowIsDeployed' /\ RtReadyWasLive'
  BY DEF RtInv, RtLiveIsSeen, RtRowIsDeployed, RtReadyWasLive
<1> QED BY <1>3, <1>4, <1>5, <1>6, <1>7 DEF RtInv

\* What the code writes for a provider's status.
LEMMA RtNormalizes ==
    ASSUME NEW status
    PROVE  RtNormalized(status) \in RtWritten /\ (RtNormalized(status) = "READY" => status = "live")
BY DEF RtNormalized, RtWritten

\* The intent is made by one request, marked, and given its own deployment.
LEMMA RtWritersInv ==
    ASSUME RtInv, NEW q \in RtRequests, RtInsert(q) \/ RtUnknown(q) \/ RtRecord(q) \/ RtNote(q)
    PROVE  RtInv'
<1> USE DEF RtBackedBy, RtKeyedSteps, RtDeploySteps, RtStatusSteps
<1> DEFINE k == rtReq[q].key
<1>0. /\ rtReq[q] \in RtReqs /\ rtReq[q].step \in {"insert", "unknown", "record", "note"}
      /\ RtBackedBy(rtReq[q], rtIntent, DOMAIN rtProvider, rtLive, rtRow)
      /\ UNCHANGED <<rtRow, rtProvider, rtLive, rtOverlap>>
  BY DEF RtInv, RtTyped, RtRequestsAreBacked, RtInsert, RtUnknown, RtRecord, RtNote, RtAt
<1>1. k \in RtKeys /\ rtIntent[k] \in RtIntents /\ rtIntent \in [RtKeys -> RtIntents]
  BY <1>0 DEF RtReqs, RtInv, RtTyped
<1>2. RtIdle \in RtReqs /\ RtIdle.step = "idle"
  BY DEF RtIdle, RtReqs
<1>3. ASSUME rtIntent[k] # RtNone, NEW status \in {"UNKNOWN"} \cup RtWritten,
             rtIntent' = [rtIntent EXCEPT ![k].status = status], RtDone(q)
      PROVE  RtInv'
  <2> DEFINE intent == [rtIntent[k] EXCEPT !.status = status]
  <2>1. intent \in RtIntents /\ intent # RtNone /\ intent.deploy = rtIntent[k].deploy
    BY <1>1, <1>3 DEF RtIntents, RtNone
  <2>2. rtIntent' = [rtIntent EXCEPT ![k] = intent]
    BY <1>3, <1>1
  <2>3. \/ intent.deploy = RtNoDeploy
        \/ intent.deploy = RtFirst(k) /\ RtFirst(k) \in DOMAIN rtProvider
    BY <2>1, <1>1, <1>3 DEF RtInv, RtIntentIsOwn
  <2>4. RtGo(q, RtIdle) /\ RtBackedBy(RtIdle, rtIntent', DOMAIN rtProvider, rtLive, rtRow)
    BY <1>2, <1>3 DEF RtDone
  <2> HIDE DEF intent, k, RtIdle, RtBackedBy
  <2>5. intent \in RtIntents \ {RtNone} /\ RtIdle.step # "trigger"
    BY <2>1, <1>2
  <2>6. RtIdle \in RtReqs /\ UNCHANGED <<rtRow, rtProvider, rtLive, rtOverlap>>
    BY <1>0, <1>2
  <2> QED BY <2>2, <2>3, <2>4, <2>5, <2>6, <1>1, RtIntentWritten
<1>4. CASE RtInsert(q)
  <2>1. CASE rtIntent[k] # RtNone
    <3> DEFINE req == [step |-> "lookup", key |-> k]
    <3>1. req \in RtReqs /\ RtGo(q, req) /\ rtIntent' = rtIntent
      BY <1>1, <1>4, <2>1 DEF RtReqs, RtInsert
    <3> QED BY <3>1, <2>1, <1>0, RtOnlyRequestInv
  <2>2. CASE rtIntent[k] = RtNone
    <3> DEFINE req == [step |-> "trigger", key |-> k]
               intent == [status |-> "PREPARED", deploy |-> RtNoDeploy]
    <3>1. req \in RtReqs /\ RtGo(q, req) /\ rtIntent' = [rtIntent EXCEPT ![k] = intent]
      BY <1>1, <1>4, <2>2 DEF RtReqs, RtInsert
    <3>2. intent \in RtIntents \ {RtNone} /\ intent.deploy = RtNoDeploy
      BY DEF RtIntents, RtNone
    <3>3. req.key = k /\ req.step = "trigger" /\ rtIntent'[k] # RtNone
      BY <3>1, <3>2, <1>1
    <3> HIDE DEF req, intent
    <3> QED BY <3>1, <3>2, <3>3, <2>2, <1>0, <1>1, RtIntentWritten
  <2> QED BY <2>1, <2>2
<1>5. CASE RtUnknown(q)
  BY <1>0, <1>3, <1>5 DEF RtUnknown, RtAt
<1>6. CASE RtNote(q)
  <2>1. RtNormalized(rtReq[q].status) \in RtWritten
    BY RtNormalizes
  <2> QED BY <1>0, <1>3, <1>6, <2>1 DEF RtNote, RtAt
<1>7. CASE RtRecord(q)
  <2> DEFINE req == [rtReq[q] EXCEPT !.step = "persist"]
             intent == [status |-> RtNormalized(rtReq[q].status), deploy |-> rtReq[q].deploy]
  <2>1. rtReq[q].step = "record" /\ RtGo(q, req) /\ rtIntent' = [rtIntent EXCEPT ![k] = intent]
    BY <1>7 DEF RtRecord, RtAt
  <2>2. /\ rtReq[q].deploy = RtFirst(k) /\ RtFirst(k) \in DOMAIN rtProvider
        /\ rtReq[q] \in [step : {"record", "persist", "again", "note"}, key : RtKeys,
                          deploy : RtFirsts, status : RtStatuses]
    BY <2>1, <1>0 DEF RtReqs
  <2>3. /\ req \in RtReqs /\ req.step = "persist" /\ req.key = k
        /\ req.deploy = rtReq[q].deploy /\ req.status = rtReq[q].status
    BY <2>2 DEF RtReqs
  <2>4. RtNormalized(rtReq[q].status) \in RtWritten /\ rtReq[q].deploy \in RtFirsts
    BY <2>2, RtNormalizes
  <2>5. intent \in RtIntents \ {RtNone} /\ intent.deploy = RtFirst(k)
    BY <2>2, <2>4 DEF RtIntents, RtNone
  <2>6. rtIntent'[k] # RtNone
    BY <2>1, <2>5, <1>1
  <2> HIDE DEF req, intent
  <2> QED BY <2>1, <2>2, <2>3, <2>5, <2>6, <1>0, <1>1, RtIntentWritten
<1> QED BY <1>4, <1>5, <1>6, <1>7

\* The environment's row is written by the end of a deployment or by a health check,
\* with a deployment that exists; READY, on the row of its own deployment, is what the
\* provider has said of it.
LEMMA RtRowInv ==
    ASSUME RtInv, NEW q \in RtRequests, RtPersist(q) \/ RtHealthWrite(q)
    PROVE  RtInv'
<1> USE DEF RtBackedBy, RtKeyedSteps, RtDeploySteps, RtStatusSteps
<1> DEFINE req == IF RtAt(q, "again") THEN [rtReq[q] EXCEPT !.step = "note"] ELSE RtIdle
           asked == rtReq[q].deploy
           status == RtNormalized(rtReq[q].status)
<1>0. /\ rtReq[q] \in RtReqs /\ rtReq[q].step \in {"persist", "again", "report"}
      /\ RtBackedBy(rtReq[q], rtIntent, DOMAIN rtProvider, rtLive, rtRow)
      /\ UNCHANGED <<rtIntent, rtProvider, rtLive>>
  BY DEF RtInv, RtTyped, RtRequestsAreBacked, RtPersist, RtHealthWrite, RtAt
<1>1. /\ asked \in RtFirsts /\ asked \in DOMAIN rtProvider
      /\ status \in RtWritten /\ (status = "READY" => asked \in rtLive)
  BY <1>0, RtNormalizes DEF RtReqs
<1>2. RtGo(q, req)
  BY DEF RtPersist, RtHealthWrite, RtAt, RtDone
<1>3. req \in RtReqs /\ req.step \in {"idle", "note"}
  BY <1>0 DEF RtReqs, RtIdle, RtAt
<1>4. RtBackedBy(req, rtIntent, DOMAIN rtProvider, rtLive, rtRow')
  BY <1>0 DEF RtReqs, RtIdle, RtAt
<1>5. /\ rtRow' \in [deploy : RtFirsts, status : RtWritten] /\ rtRow' # RtNone
      /\ rtRow'.deploy \in DOMAIN rtProvider /\ rtOverlap' \in BOOLEAN
      /\ rtRow'.status = "READY" /\ ~rtOverlap' => rtRow'.deploy \in rtLive
  <2>1. CASE RtPersist(q)
    BY <2>1, <1>1 DEF RtPersist, RtNone, RtInv, RtTyped
  <2>2. CASE RtHealthWrite(q)
    <3>1. rtRow \in [deploy : RtFirsts, status : RtWritten] /\ rtRow.deploy \in DOMAIN rtProvider
      BY <2>2, <1>0 DEF RtHealthWrite, RtAt, RtInv, RtTyped, RtRowIsDeployed
    <3>2. rtRow' = [rtRow EXCEPT !.status = status]
      BY <2>2 DEF RtHealthWrite
    <3>3. rtOverlap' = (rtOverlap \/ rtRow.deploy # asked) /\ rtOverlap \in BOOLEAN
      BY <2>2 DEF RtHealthWrite, RtInv, RtTyped
    <3> HIDE DEF status, asked
    <3> QED BY <3>1, <3>2, <3>3, <1>1 DEF RtNone
  <2> QED BY <2>1, <2>2
<1> HIDE DEF req, RtBackedBy
<1>6. /\ rtReq' \in [RtRequests -> RtReqs] /\ rtReq'[q] = req
      /\ \A r \in RtRequests \ {q} : rtReq'[r] = rtReq[r]
      /\ RtRequestsAreBacked'
  BY <1>0, <1>2, <1>3, <1>4, <1>5, RtRequestMoved
<1>7. RtTyped'
  BY <1>0, <1>5, <1>6 DEF RtInv, RtTyped
<1>8. RtTriggerIsFirst'
  BY <1>0, <1>3, <1>6 DEF RtInv, RtTriggerIsFirst
<1>9. RtIntentIsOwn' /\ RtLiveIsSeen' /\ RtRowIsDeployed' /\ RtReadyWasLive'
  BY <1>0, <1>5 DEF RtInv, RtIntentIsOwn, RtLiveIsSeen, RtRowIsDeployed, RtReadyWasLive
<1> QED BY <1>6, <1>7, <1>8, <1>9 DEF RtInv

\* The provider's deployments after one has gone live: the others are taken down.
LEMMA RtWentLiveKeeps ==
    ASSUME NEW provider, provider \in [DOMAIN provider -> RtStatuses], NEW d \in DOMAIN provider
    PROVE  /\ DOMAIN RtWentLive(provider, d) = DOMAIN provider
           /\ RtWentLive(provider, d) \in [DOMAIN provider -> RtStatuses]
           /\ \A x \in DOMAIN provider : RtWentLive(provider, d)[x] = "live" => x = d
BY DEF RtWentLive, RtStatuses

\* What the provider does by itself, or when it is triggered: it has the deployments it
\* had, and perhaps the first of the key that triggers.
LEMMA RtProviderInv ==
    ASSUME RtInv, NEW new \in SUBSET RtFirsts,
           DOMAIN rtProvider' = DOMAIN rtProvider \cup new,
           rtProvider' \in [DOMAIN rtProvider' -> RtStatuses],
           rtLive \subseteq rtLive', \A d \in DOMAIN rtProvider' : rtProvider'[d] = "live" => d \in rtLive',
           \A k \in RtKeys : RtFirst(k) \in new => rtIntent[k] # RtNone,
           UNCHANGED <<rtIntent, rtRow, rtOverlap>>,
           rtReq' \in [RtRequests -> RtReqs], RtRequestsAreBacked', RtTriggerIsFirst'
    PROVE  RtInv'
<1>1. RtTyped'
  BY DEF RtInv, RtTyped
<1>2. RtIntentIsOwn'
  BY DEF RtInv, RtIntentIsOwn
<1>3. RtLiveIsSeen' /\ RtRowIsDeployed' /\ RtReadyWasLive'
  BY DEF RtInv, RtLiveIsSeen, RtRowIsDeployed, RtReadyWasLive
<1> QED BY <1>1, <1>2, <1>3 DEF RtInv

\* A deployment is built or fails.
LEMMA RtProviderMovesInv ==
    ASSUME RtInv, NEW d \in DOMAIN rtProvider, RtProviderMoves(d)
    PROVE  RtInv'
<1>1. UNCHANGED <<rtIntent, rtRow, rtReq, rtOverlap>>
  BY DEF RtProviderMoves
<1>2. /\ DOMAIN rtProvider' = DOMAIN rtProvider
      /\ rtProvider' \in [DOMAIN rtProvider' -> RtStatuses]
      /\ rtLive \subseteq rtLive' /\ \A x \in DOMAIN rtProvider' : rtProvider'[x] = "live" => x \in rtLive'
  <2>1. rtProvider \in [DOMAIN rtProvider -> RtStatuses] /\ RtLiveIsSeen
    BY DEF RtInv, RtTyped
  <2>2. CASE rtProvider' = RtWentLive(rtProvider, d) /\ rtLive' = rtLive \cup {d}
    BY <2>1, <2>2, RtWentLiveKeeps
  <2>3. CASE rtProvider' = [rtProvider EXCEPT ![d] = "failed"] /\ rtLive' = rtLive
    BY <2>1, <2>3 DEF RtStatuses, RtLiveIsSeen
  <2> QED BY <2>2, <2>3 DEF RtProviderMoves
<1>3. RtRequestsAreBacked' /\ RtTriggerIsFirst' /\ rtReq' \in [RtRequests -> RtReqs]
  BY <1>1, <1>2 DEF RtInv, RtTyped, RtRequestsAreBacked, RtTriggerIsFirst, RtBackedBy
<1> QED
  <2>1. DOMAIN rtProvider' = DOMAIN rtProvider \cup {} /\ {} \in SUBSET RtFirsts
    BY <1>2
  <2>2. \A k \in RtKeys : RtFirst(k) \in {} => rtIntent[k] # RtNone
    OBVIOUS
  <2> QED BY <1>1, <1>2, <1>3, <2>1, <2>2, RtProviderInv

\* Nothing has been deployed yet when a request triggers.
LEMMA RtNothingDeployed ==
    ASSUME DOMAIN rtProvider \subseteq RtFirsts, NEW k \in RtKeys, RtFirst(k) \notin DOMAIN rtProvider
    PROVE  RtDeploysOf(k) = {} /\ <<k, Cardinality(RtDeploysOf(k)) + 1>> = RtFirst(k)
<1>1. \A d \in RtFirsts : d[1] = k => d = RtFirst(k)
  BY DEF RtFirsts, RtFirst
<1>2. RtDeploysOf(k) = {}
  BY <1>1 DEF RtDeploysOf
<1> QED BY <1>2, FS_EmptySet DEF RtFirst

\* The request that triggers is the only one for its key, and makes its only deployment.
LEMMA RtTriggerInv ==
    ASSUME RtInv, NEW q \in RtRequests, RtTrigger(q)
    PROVE  RtInv'
<1> DEFINE k == rtReq[q].key
           d == RtFirst(k)
<1>0. /\ rtReq[q].step = "trigger" /\ rtReq[q] \in RtReqs
      /\ UNCHANGED <<rtIntent, rtRow, rtOverlap>>
  BY DEF RtTrigger, RtAt, RtInv, RtTyped
<1>1. k \in RtKeys /\ rtIntent[k] # RtNone /\ d \notin DOMAIN rtProvider /\ d \in RtFirsts
  BY <1>0 DEF RtInv, RtTriggerIsFirst, RtRequestsAreBacked, RtBackedBy, RtKeyedSteps, RtReqs, RtFirsts
<1>2. <<k, Cardinality(RtDeploysOf(k)) + 1>> = d /\ rtProvider \in [DOMAIN rtProvider -> RtStatuses]
  BY <1>1, RtNothingDeployed DEF RtInv, RtTyped
<1>3. ASSUME NEW status \in {"building", "live"}
      PROVE  /\ DOMAIN RtCreated(k, d, status) = DOMAIN rtProvider \cup {d}
             /\ RtCreated(k, d, status) \in [DOMAIN rtProvider \cup {d} -> RtStatuses]
             /\ \A x \in DOMAIN rtProvider : RtCreated(k, d, status)[x] = rtProvider[x]
             /\ RtCreated(k, d, status)[d] = status
  BY <1>1, <1>2, <1>3 DEF RtCreated, RtStatuses
<1>4. PICK new \in {{}, {d}} :
        /\ DOMAIN rtProvider' = DOMAIN rtProvider \cup new
        /\ rtProvider' \in [DOMAIN rtProvider' -> RtStatuses]
        /\ rtLive \subseteq rtLive'
        /\ \A x \in DOMAIN rtProvider' : rtProvider'[x] = "live" => x \in rtLive'
        /\ \/ RtGo(q, [step |-> "unknown", key |-> k])
           \/ \E status \in {"building", "live"} :
                 /\ RtGo(q, [step |-> "record", key |-> k, deploy |-> d, status |-> status])
                 /\ new = {d} /\ (status = "live" => d \in rtLive')
  <2> HIDE DEF k, d
  <2>1. RtLiveIsSeen
    BY DEF RtInv
  <2>2. ASSUME NEW status \in {"building", "live"},
               rtProvider' = IF status = "live" THEN RtWentLive(RtCreated(k, d, status), d)
                                                ELSE RtCreated(k, d, status),
               rtLive' = IF status = "live" THEN rtLive \cup {d} ELSE rtLive
        PROVE  /\ DOMAIN rtProvider' = DOMAIN rtProvider \cup {d}
               /\ rtProvider' \in [DOMAIN rtProvider' -> RtStatuses]
               /\ rtLive \subseteq rtLive' /\ (status = "live" => d \in rtLive')
               /\ \A x \in DOMAIN rtProvider' : rtProvider'[x] = "live" => x \in rtLive'
    <3>1. CASE status = "live"
      <4>1. rtProvider' = RtWentLive(RtCreated(k, d, status), d) /\ rtLive' = rtLive \cup {d}
        BY <2>2, <3>1
      <4> QED BY <1>3, <4>1, RtWentLiveKeeps
    <3>2. CASE status = "building"
      BY <1>3, <2>1, <2>2, <3>2 DEF RtLiveIsSeen
    <3> QED BY <3>1, <3>2
  <2>3. \/ \E status \in {"building", "live"} :
              /\ rtProvider' = IF status = "live" THEN RtWentLive(RtCreated(k, d, status), d)
                                                  ELSE RtCreated(k, d, status)
              /\ rtLive' = IF status = "live" THEN rtLive \cup {d} ELSE rtLive
              /\ RtGo(q, [step |-> "record", key |-> k, deploy |-> d, status |-> status])
        \/ /\ rtProvider' = rtProvider \/ rtProvider' = RtCreated(k, d, "building")
           /\ rtLive' = rtLive
           /\ RtGo(q, [step |-> "unknown", key |-> k])
    BY <1>2 DEF RtTrigger, k
  <2>4. CASE rtProvider' = rtProvider /\ rtLive' = rtLive /\ RtGo(q, [step |-> "unknown", key |-> k])
    <3>1. DOMAIN rtProvider' = DOMAIN rtProvider \cup {}
      BY <2>4
    <3> QED BY <1>2, <2>1, <2>4, <3>1 DEF RtLiveIsSeen
  <2>5. CASE /\ rtProvider' = RtCreated(k, d, "building") /\ rtLive' = rtLive
             /\ RtGo(q, [step |-> "unknown", key |-> k])
    BY <1>3, <2>1, <2>5 DEF RtLiveIsSeen
  <2>6. CASE \E status \in {"building", "live"} :
              /\ rtProvider' = IF status = "live" THEN RtWentLive(RtCreated(k, d, status), d)
                                                  ELSE RtCreated(k, d, status)
              /\ rtLive' = IF status = "live" THEN rtLive \cup {d} ELSE rtLive
              /\ RtGo(q, [step |-> "record", key |-> k, deploy |-> d, status |-> status])
    BY <2>2, <2>6
  <2> QED BY <2>3, <2>4, <2>5, <2>6
<1>5. PICK req \in RtReqs :
        /\ RtGo(q, req) /\ req.step # "trigger"
        /\ RtBackedBy(req, rtIntent, DOMAIN rtProvider', rtLive', rtRow)
  <2>1. CASE RtGo(q, [step |-> "unknown", key |-> k])
    <3>1. [step |-> "unknown", key |-> k] \in RtReqs
      BY <1>1 DEF RtReqs
    <3> QED BY <1>1, <2>1, <3>1 DEF RtBackedBy, RtKeyedSteps, RtDeploySteps, RtStatusSteps
  <2>2. ASSUME NEW status \in {"building", "live"},
               RtGo(q, [step |-> "record", key |-> k, deploy |-> d, status |-> status]),
               new = {d}, status = "live" => d \in rtLive'
        PROVE  \E req \in RtReqs :
                  /\ RtGo(q, req) /\ req.step # "trigger"
                  /\ RtBackedBy(req, rtIntent, DOMAIN rtProvider', rtLive', rtRow)
    <3> DEFINE req == [step |-> "record", key |-> k, deploy |-> d, status |-> status]
    <3>1. req \in RtReqs
      BY <1>1 DEF RtReqs, RtStatuses
    <3>2. RtBackedBy(req, rtIntent, DOMAIN rtProvider', rtLive', rtRow)
      BY <1>1, <1>4, <2>2 DEF RtBackedBy, RtKeyedSteps, RtDeploySteps, RtStatusSteps
    <3> QED BY <2>2, <3>1, <3>2
  <2> QED BY <1>4, <2>1, <2>2
<1>6. /\ rtReq' \in [RtRequests -> RtReqs] /\ rtReq'[q] = req
      /\ \A r \in RtRequests \ {q} : rtReq'[r] = rtReq[r]
      /\ RtRequestsAreBacked'
  BY <1>0, <1>4, <1>5, RtRequestMoved
<1>7. RtTriggerIsFirst'
  <2>1. ASSUME NEW r \in RtRequests, rtReq'[r].step = "trigger"
        PROVE  r # q /\ rtReq[r] = rtReq'[r] /\ rtReq'[r].key \in RtKeys \ {k}
    <3>1. r # q /\ rtReq'[r] = rtReq[r] /\ rtReq[r] \in RtReqs
      BY <1>5, <1>6, <2>1 DEF RtInv, RtTyped
    <3> QED BY <1>0, <2>1, <3>1 DEF RtInv, RtTriggerIsFirst, RtReqs
  <2>2. \A x \in RtKeys \ {k} : RtFirst(x) # d
    BY DEF RtFirst
  <2> QED BY <1>4, <2>1, <2>2 DEF RtInv, RtTriggerIsFirst
<1>8. \A x \in RtKeys : RtFirst(x) \in new => rtIntent[x] # RtNone
  BY <1>1 DEF RtFirst
<1>9. new \in SUBSET RtFirsts
  BY <1>1
<1> QED BY <1>0, <1>4, <1>6, <1>7, <1>8, <1>9, RtProviderInv

\* Nothing is deployed at first.
LEMMA RtInitInv == RtInit => RtInv
<1> SUFFICES ASSUME RtInit PROVE RtInv
  OBVIOUS
<1>1. DOMAIN rtProvider = {} /\ \A q \in RtRequests : rtReq[q] = RtIdle
  BY DEF RtInit
<1>2. RtTyped
  <2>1. RtIdle \in RtReqs
    BY DEF RtIdle, RtReqs
  <2>2. rtProvider \in [DOMAIN rtProvider -> RtStatuses]
    BY DEF RtInit, RtStatuses
  <2> QED BY <1>1, <2>1, <2>2 DEF RtInit, RtTyped, RtIntents
<1>3. RtRequestsAreBacked /\ RtTriggerIsFirst
  BY <1>1 DEF RtIdle, RtRequestsAreBacked, RtBackedBy, RtKeyedSteps, RtDeploySteps, RtStatusSteps,
     RtTriggerIsFirst
<1>4. RtIntentIsOwn /\ RtLiveIsSeen /\ RtRowIsDeployed /\ RtReadyWasLive
  BY <1>1 DEF RtInit, RtIntentIsOwn, RtLiveIsSeen, RtRowIsDeployed, RtReadyWasLive, RtNone
<1> QED BY <1>2, <1>3, <1>4 DEF RtInv

\* Every step of a request, a health check or the provider preserves the invariant.
LEMMA RtStepInv == RtInv /\ [RtNext]_rtVars => RtInv'
<1> SUFFICES ASSUME RtInv, [RtNext]_rtVars PROVE RtInv'
  OBVIOUS
<1>1. CASE UNCHANGED rtVars
  BY <1>1 DEF rtVars, RtInv, RtTyped, RtRequestsAreBacked, RtBackedBy, RtTriggerIsFirst,
     RtIntentIsOwn, RtLiveIsSeen, RtRowIsDeployed, RtReadyWasLive
<1>2. CASE RtNext
  BY <1>2, RtReadersInv, RtWritersInv, RtRowInv, RtTriggerInv, RtProviderMovesInv DEF RtNext
<1> QED BY <1>1, <1>2

\* A key has no deployment but its first.
LEMMA RtInvIsSafe == RtInv => RuntimeSafe
<1> SUFFICES ASSUME RtInv PROVE RuntimeSafe
  OBVIOUS
<1>1. ASSUME NEW k \in RtKeys
      PROVE  RtDeploysOf(k) = IF RtFirst(k) \in DOMAIN rtProvider THEN {RtFirst(k)} ELSE {}
  <2>1. \A d \in DOMAIN rtProvider : d[1] = k <=> d = RtFirst(k)
    BY DEF RtInv, RtTyped, RtFirsts, RtFirst
  <2>2. \A d : d \in RtDeploysOf(k) <=> d \in DOMAIN rtProvider /\ d = RtFirst(k)
    BY <2>1 DEF RtDeploysOf
  <2> QED BY <2>2
<1>2. RtTypeOK
  <2>1. ASSUME NEW k \in RtKeys, rtIntent[k] # RtNone
        PROVE  /\ rtIntent[k].status \in {"PREPARED", "UNKNOWN", "READY", "FAILED", "DEPLOYING"}
               /\ rtIntent[k].deploy \in {RtNoDeploy} \cup RtDeploysOf(k)
    <3>1. rtIntent[k] \in RtIntents
      BY DEF RtInv, RtTyped
    <3>2. rtIntent[k].status \in {"PREPARED", "UNKNOWN", "READY", "FAILED", "DEPLOYING"}
      BY <2>1, <3>1 DEF RtIntents, RtWritten
    <3>3. \/ rtIntent[k].deploy = RtNoDeploy
          \/ rtIntent[k].deploy = RtFirst(k) /\ RtFirst(k) \in DOMAIN rtProvider
      BY <2>1 DEF RtInv, RtIntentIsOwn
    <3> QED BY <3>2, <3>3, <1>1
  <2>2. rtRow = RtNone \/ rtRow.deploy \in DOMAIN rtProvider
    BY DEF RtInv, RtRowIsDeployed
  <2>3. \A d \in DOMAIN rtProvider : rtProvider[d] \in {"building", "live", "failed", "deactivated"}
    BY DEF RtInv, RtTyped, RtStatuses
  <2> QED BY <2>1, <2>2, <2>3 DEF RtTypeOK
<1>3. RtOneTriggerPerKey
  BY <1>1, FS_EmptySet, FS_Singleton DEF RtInv, RtIntentIsOwn, RtOneTriggerPerKey
<1> QED BY <1>2, <1>3 DEF RtInv, RuntimeSafe

\* However often, concurrently or after a crash a deployment is requested, the provider is
\* triggered at most once for it and never before its intent is durable (main.go:511); a
\* row that reads READY names a deployment that has been live, unless a health check
\* wrote on the row of a later deployment.
THEOREM OneTriggerPerRequest == RtSpec => []RuntimeSafe
<1> QED BY RtInitInv, RtStepInv, RtInvIsSafe, PTL DEF RtSpec

-------------------------------------------------------------------------------
(* Provisioning.                                                            *)

\* What a process may be doing, and what it remembers in it: the attempt of its recovery,
\* and as long as it works the module preset it read and the step it has come to.
PvBusy == {"start", "step", "record", "fail"}
PvStates ==
    [at : {"idle", "scan"}] \cup [at : {"lock", "requeue", "unlock"}, attempt : 0..3]
    \cup [at : {"start", "step"}, attempt : 0..3, preset : PvPresets \cup {PvNone}, i : 1..16]
    \cup [at : {"record", "fail"}, attempt : 0..3, preset : PvPresets \cup {PvNone}, i : 1..15]

PvStatuses == {PvNone, "READY", "QUEUED", "RUNNING", "FAILED"} \cup PvFinal
PvSights == [licensed : BOOLEAN, done : SUBSET (1..15), unrecorded : BOOLEAN, deserted : BOOLEAN,
             edited : BOOLEAN]

PvTyped ==
    /\ pvJob \in [status : PvStatuses, preset : PvPresets \cup {PvNone}]
    /\ pvLock \in {PvNone} \cup PvWorkers
    /\ pvWorker \in [PvWorkers -> PvStates]
    /\ pvOutside \in [entitled : SUBSET (PvPresets \cup {PvNone}), desired : PvPresets \cup {PvNone},
                      deployed : BOOLEAN]
    /\ pvSeen \in PvSights

\* Whoever works on the job holds its lock.
PvHolding == PvBusy \cup {"unlock"}
PvLockIsHeld == \A w \in PvWorkers : pvWorker[w].at \in PvHolding => pvLock = w

\* Whoever works has every step before the one it has come to behind it, and recorded if
\* all results were written; and the job is not finished.
PvHasCome(w) ==
    /\ 1..(pvWorker[w].i - 1) \subseteq pvSeen.done
    /\ 1..(pvWorker[w].i - 1) \subseteq pvSuccess \/ pvSeen.unrecorded
    /\ pvWorker[w].at = "record" => pvWorker[w].i \in pvSeen.done
    /\ pvJob.status \notin PvFinal
PvAllHaveCome == \A w \in PvWorkers : pvWorker[w].at \in PvBusy => PvHasCome(w)

\* A step that was done has had its effect.
PvEffectsHold ==
    /\ 2 \in pvSeen.done => pvSeen.licensed
    /\ 6 \in pvSeen.done => pvOutside.entitled # {}
    /\ 10 \in pvSeen.done /\ ~pvSeen.edited => pvOutside.desired = pvJob.preset
    /\ 11 \in pvSeen.done => pvOutside.deployed
    /\ pvOutside.deployed => pvSeen.licensed

\* A finished job has done everything.
PvFinishedIsAll ==
    pvJob.status \in PvFinal => pvSeen.done = 1..15 /\ (pvSuccess = 1..15 \/ pvSeen.unrecorded)

\* Unless the preset was changed under them, applied presets and copies are the job's.
PvCopiesAgree ==
    ~pvSeen.edited =>
        /\ pvOutside.entitled \subseteq {pvJob.preset}
        /\ \A w \in PvWorkers : pvWorker[w].at \in PvBusy => pvWorker[w].preset = pvJob.preset

\* An unfinished job has somebody who will still look at it, or it was deserted.
PvAttending == {"lock", "requeue", "scan"} \cup PvBusy
PvCares(r) == r.at \in PvAttending \/ (r.at = "unlock" /\ r.attempt \in {1, 2})
PvIsAttended ==
    pvJob.status \in {"QUEUED", "RUNNING"} /\ ~pvSeen.deserted =>
        \E w \in PvWorkers : PvCares(pvWorker[w])

PvInv ==
    /\ PvTyped /\ PvLockIsHeld /\ PvInTurn /\ PvAllHaveCome /\ PvEffectsHold
    /\ PvFinishedIsAll /\ PvCopiesAgree /\ PvIsAttended

-------------------------------------------------------------------------------
\* The fifteen steps, and those whose effects the invariant speaks of.
LEMMA PvStepNames ==
    /\ DOMAIN PvSteps = 1..15
    /\ PvSteps[2] = "VALIDATE_LICENSE" /\ PvSteps[6] = "APPLY_MODULE_PRESET"
    /\ PvSteps[10] = "SYNC_DESIRED_STATE" /\ PvSteps[11] = "DEPLOY_STAGING"
<1>1. DOMAIN PvSteps = 1..15
  BY DEF PvSteps
<1>2. PvSteps[2] = "VALIDATE_LICENSE" /\ PvSteps[6] = "APPLY_MODULE_PRESET"
  BY DEF PvSteps
<1>3. PvSteps[10] = "SYNC_DESIRED_STATE" /\ PvSteps[11] = "DEPLOY_STAGING"
  BY DEF PvSteps
<1> QED BY <1>1, <1>2, <1>3

\* A process moves to state s.
LEMMA PvMoved ==
    ASSUME PvTyped, NEW w \in PvWorkers, NEW s \in PvStates, PvGo(w, s)
    PROVE  /\ pvWorker' \in [PvWorkers -> PvStates] /\ pvWorker'[w] = s
           /\ \A v \in PvWorkers \ {w} : pvWorker'[v] = pvWorker[v]
BY DEF PvTyped, PvGo

\* What the states of a process hold.
LEMMA PvStateFacts ==
    ASSUME PvTyped, NEW w \in PvWorkers
    PROVE  /\ pvWorker[w].at \in {"lock", "requeue", "unlock"} =>
                 pvWorker[w] \in [at : {"lock", "requeue", "unlock"}, attempt : 0..3]
           /\ pvWorker[w].at \in {"start", "step"} =>
                 pvWorker[w] \in [at : {"start", "step"}, attempt : 0..3,
                                  preset : PvPresets \cup {PvNone}, i : 1..16]
           /\ pvWorker[w].at \in {"record", "fail"} =>
                 pvWorker[w] \in [at : {"record", "fail"}, attempt : 0..3,
                                  preset : PvPresets \cup {PvNone}, i : 1..15]
<1>1. pvWorker[w] \in PvStates
  BY DEF PvTyped
<1> QED BY <1>1 DEF PvStates

\* A working process remembers the preset it read.
LEMMA PvBusyHasPreset ==
    ASSUME PvTyped, NEW w \in PvWorkers, pvWorker[w].at \in PvBusy
    PROVE  "preset" \in DOMAIN pvWorker[w]
<1>1. CASE pvWorker[w].at \in {"start", "step"}
  BY <1>1, PvStateFacts
<1>2. CASE pvWorker[w].at \in {"record", "fail"}
  BY <1>2, PvStateFacts
<1> QED BY <1>1, <1>2 DEF PvBusy

\* Deserted once, deserted for good.
LEMMA PvDesertIs ==
    ASSUME NEW b \in BOOLEAN, pvSeen.deserted \in BOOLEAN, PvDesert(b)
    PROVE  \E d \in BOOLEAN : /\ pvSeen' = [pvSeen EXCEPT !.deserted = d]
                              /\ (pvSeen.deserted => d) /\ (b => d)
<1>1. (pvSeen.deserted \/ b) \in BOOLEAN
  OBVIOUS
<1>2. pvSeen' = [pvSeen EXCEPT !.deserted = (pvSeen.deserted \/ b)]
  BY DEF PvDesert
<1>3. PICK d \in BOOLEAN : d = (pvSeen.deserted \/ b)
  BY <1>1
<1>4. pvSeen' = [pvSeen EXCEPT !.deserted = d]
  BY <1>2, <1>3
<1>5. (pvSeen.deserted => d) /\ (b => d)
  BY <1>3, Zenon
<1> QED BY <1>4, <1>5

\* A history that stays is one that is not deserted anew.
LEMMA PvSeenSame ==
    ASSUME PvTyped, pvSeen' = pvSeen
    PROVE  pvSeen' = [pvSeen EXCEPT !.deserted = pvSeen.deserted] /\ pvSeen.deserted \in BOOLEAN
BY DEF PvTyped, PvSights

\* The lock is kept, taken when it is free, or given back by its holder.
LEMMA PvLockStep ==
    ASSUME PvInv, NEW w \in PvWorkers, NEW s \in PvStates, PvGo(w, s),
           \/ pvLock' = pvLock /\ (s.at \in PvHolding => pvWorker[w].at \in PvHolding)
           \/ pvLock = PvNone /\ pvLock' = w
           \/ pvLock' = (IF pvLock = w THEN PvNone ELSE pvLock) /\ s.at \notin PvHolding
    PROVE  PvLockIsHeld'
<1>1. pvWorker'[w] = s /\ \A v \in PvWorkers \ {w} : pvWorker'[v] = pvWorker[v]
  BY PvMoved DEF PvInv
<1>2. \A v \in PvWorkers : v # PvNone
  BY PvAssumption DEF PvAssumption, PvNone
<1> QED BY <1>1, <1>2 DEF PvInv, PvLockIsHeld

\* A process that still has to look at the job keeps it attended.
LEMMA PvAttendedStep ==
    ASSUME PvInv, NEW w \in PvWorkers, NEW s \in PvStates, PvGo(w, s),
           pvSeen.deserted => pvSeen'.deserted,
           \/ PvCares(s) \/ pvSeen'.deserted
           \/ pvJob'.status \notin {"QUEUED", "RUNNING"}
           \/ pvJob'.status = pvJob.status /\ ~PvCares(pvWorker[w])
    PROVE  PvIsAttended'
<1>1. pvWorker'[w] = s /\ \A v \in PvWorkers \ {w} : pvWorker'[v] = pvWorker[v]
  BY PvMoved DEF PvInv
<1>2. SUFFICES ASSUME pvJob'.status \in {"QUEUED", "RUNNING"}, ~pvSeen'.deserted
               PROVE  \E u \in PvWorkers : PvCares(pvWorker'[u])
  BY DEF PvIsAttended, PvCares
<1>3. CASE PvCares(s)
  BY <1>1, <1>3
<1>4. CASE pvJob'.status = pvJob.status /\ ~PvCares(pvWorker[w])
  <2>1. PICK u \in PvWorkers : PvCares(pvWorker[u])
    BY <1>2, <1>4 DEF PvInv, PvIsAttended
  <2>2. u # w
    BY <1>4, <2>1
  <2>3. pvWorker'[u] = pvWorker[u]
    BY <1>1, <2>2
  <2>4. PvCares(pvWorker'[u])
    BY <2>1, <2>3
  <2> QED BY <2>4
<1> QED BY <1>2, <1>3, <1>4

\* Nobody but the holder of the lock works.
LEMMA PvAlone ==
    ASSUME PvInv, NEW w \in PvWorkers, pvWorker[w].at \in PvBusy
    PROVE  /\ pvLock = w /\ \A v \in PvWorkers \ {w} : pvWorker[v].at \notin PvBusy
           /\ PvHasCome(w)
BY DEF PvInv, PvLockIsHeld, PvHolding, PvAllHaveCome

\* A process moves on and performs no step, nor records one, nor posts a preset; it may
\* take back what a failed step's row says.
LEMMA PvWorkerStep ==
    ASSUME PvInv, NEW w \in PvWorkers, NEW s \in PvStates, PvGo(w, s),
           NEW status \in PvStatuses, pvJob' = [pvJob EXCEPT !.status = status],
           NEW d \in BOOLEAN, pvSeen' = [pvSeen EXCEPT !.deserted = d], pvSeen.deserted => d,
           pvOutside' = pvOutside, pvSuccess' \subseteq pvSuccess,
           \/ pvSuccess' = pvSuccess
           \/ pvWorker[w].at \in PvBusy /\ s.at \notin PvBusy /\ status \notin PvFinal,
           \/ status \notin PvFinal \/ status = pvJob.status
           \/ /\ pvWorker[w].at \in PvBusy /\ s.at \notin PvBusy
              /\ pvSeen.done = 1..15 /\ (pvSuccess' = 1..15 \/ pvSeen.unrecorded),
           s.at \in PvBusy =>
               /\ s.at # "record" /\ pvJob.status \notin PvFinal
               /\ \/ s.i = 1 /\ s.preset = pvJob.preset
                  \/ pvWorker[w].at \in PvBusy /\ s.i = pvWorker[w].i /\ s.preset = pvWorker[w].preset,
           \/ pvLock' = pvLock /\ (s.at \in PvHolding => pvWorker[w].at \in PvHolding)
           \/ pvLock = PvNone /\ pvLock' = w
           \/ pvLock' = (IF pvLock = w THEN PvNone ELSE pvLock) /\ s.at \notin PvHolding,
           \/ PvCares(s) \/ d
           \/ status \notin {"QUEUED", "RUNNING"}
           \/ status = pvJob.status /\ ~PvCares(pvWorker[w]),
           s.at \in PvBusy => status \notin PvFinal
    PROVE  PvInv'
<1>1. PvTyped
  BY DEF PvInv
<1>2. /\ pvWorker' \in [PvWorkers -> PvStates] /\ pvWorker'[w] = s
      /\ \A v \in PvWorkers \ {w} : pvWorker'[v] = pvWorker[v]
  BY <1>1, PvMoved
<1>3. pvJob'.status = status /\ pvJob'.preset = pvJob.preset
  BY <1>1 DEF PvTyped
<1>4. /\ pvSeen'.licensed = pvSeen.licensed /\ pvSeen'.edited = pvSeen.edited
      /\ pvSeen'.done = pvSeen.done /\ pvSeen'.unrecorded = pvSeen.unrecorded
      /\ pvSeen'.deserted = d /\ pvSeen' \in PvSights
  BY <1>1 DEF PvTyped, PvSights
<1>5. PvTyped'
  <2>1. pvLock' \in {PvNone} \cup PvWorkers
    BY <1>1 DEF PvTyped
  <2>2. pvJob' \in [status : PvStatuses, preset : PvPresets \cup {PvNone}]
    BY <1>1 DEF PvTyped
  <2> QED BY <1>1, <1>2, <1>4, <2>1, <2>2 DEF PvTyped
<1>6. PvLockIsHeld'
  BY PvLockStep
<1>7. PvInTurn'
  BY <1>4 DEF PvInv, PvInTurn
<1>8. PvAllHaveCome'
  <2> SUFFICES ASSUME NEW v \in PvWorkers, pvWorker'[v].at \in PvBusy
               PROVE  PvHasCome(v)'
    BY DEF PvAllHaveCome
  <2>1. CASE v = w
    <3>1. s.at \in PvBusy /\ pvSuccess' = pvSuccess /\ status \notin PvFinal /\ s.at # "record"
      BY <1>2, <2>1
    <3>2. CASE s.i = 1
      <4>1. 1..(s.i - 1) = {}
        BY <3>2
      <4> QED BY <1>2, <1>3, <2>1, <3>1, <4>1 DEF PvHasCome
    <3>3. CASE pvWorker[w].at \in PvBusy /\ s.i = pvWorker[w].i
      <4>1. PvHasCome(w)
        BY <3>3, PvAlone
      <4> QED BY <1>2, <1>3, <1>4, <2>1, <3>1, <3>3, <4>1 DEF PvHasCome
    <3> QED BY <3>1, <3>2, <3>3
  <2>2. CASE v # w
    <3>1. pvWorker[v] = pvWorker'[v] /\ pvWorker[v].at \in PvBusy
      BY <1>2, <2>2
    <3>2. PvHasCome(v) /\ pvWorker[w].at \notin PvBusy
      BY <2>2, <3>1, PvAlone
    <3>3. pvSuccess' = pvSuccess /\ status \notin PvFinal
      BY <3>2 DEF PvHasCome
    <3> QED BY <1>3, <1>4, <3>1, <3>2, <3>3 DEF PvHasCome
  <2> QED BY <2>1, <2>2
<1>9. PvEffectsHold'
  BY <1>3, <1>4 DEF PvInv, PvEffectsHold
<1>10. PvFinishedIsAll'
  BY <1>3, <1>4 DEF PvInv, PvFinishedIsAll
<1>11. PvCopiesAgree'
  BY <1>2, <1>3, <1>4 DEF PvInv, PvCopiesAgree
<1>12. PvIsAttended'
  BY <1>3, <1>4, PvAttendedStep
<1> QED BY <1>5, <1>6, <1>7, <1>8, <1>9, <1>10, <1>11, <1>12 DEF PvInv

\* Taking the lock, or being told that the job is busy, or not even getting so far.
LEMMA PvLockInv ==
    ASSUME PvInv, NEW w \in PvWorkers, PvLock(w)
    PROVE  PvInv'
<1>1. PvTyped
  BY DEF PvInv
<1>2. pvWorker[w].attempt \in 0..3 /\ pvWorker[w].at = "lock"
  BY <1>1, PvStateFacts DEF PvLock, PvAt
<1>3. /\ pvJob' = [pvJob EXCEPT !.status = pvJob.status]
      /\ pvJob.status \in PvStatuses /\ pvJob.preset \in PvPresets \cup {PvNone}
  BY <1>1 DEF PvTyped, PvLock
<1>4. pvSuccess' = pvSuccess /\ pvOutside' = pvOutside
  BY DEF PvLock, PvOutsideSame
<1>5. pvSeen.deserted \in BOOLEAN
  BY <1>1 DEF PvTyped, PvSights
<1>6. PvIdle \in PvStates /\ PvIdle.at = "idle"
  BY DEF PvIdle, PvStates
<1>7. CASE PvDesert(~PvRetries(w)) /\ PvGo(w, PvAfter(pvWorker[w].attempt)) /\ pvLock' = pvLock
  <2>1. (~PvRetries(w)) \in BOOLEAN
    OBVIOUS
  <2>2. PICK d \in BOOLEAN : /\ pvSeen' = [pvSeen EXCEPT !.deserted = d] /\ (pvSeen.deserted => d)
                             /\ (~PvRetries(w) => d)
    BY <1>5, <1>7, <2>1, PvDesertIs
  <2>3. PICK s \in PvStates : /\ PvGo(w, s) /\ s.at \in {"idle", "requeue"}
                              /\ s.at = "requeue" \/ ~PvRetries(w)
    <3>1. CASE PvRetries(w)
      <4>1. [at |-> "requeue", attempt |-> pvWorker[w].attempt + 1] \in PvStates
        BY <1>2, <3>1 DEF PvStates, PvRetries
      <4> QED BY <1>7, <3>1, <4>1 DEF PvRetries, PvAfter
    <3>2. CASE ~PvRetries(w)
      BY <1>6, <1>7, <3>2 DEF PvRetries, PvAfter
    <3> QED BY <3>1, <3>2
  <2>4. s.at \notin PvHolding /\ s.at \notin PvBusy /\ (PvCares(s) \/ d)
    BY <2>2, <2>3 DEF PvHolding, PvBusy, PvCares, PvAttending
  <2> QED BY <1>3, <1>4, <1>7, <2>2, <2>3, <2>4, PvWorkerStep
<1>8. CASE PvDesert(TRUE) /\ PvGo(w, PvIdle) /\ pvLock' = pvLock
  <2>1. PICK d \in BOOLEAN : pvSeen' = [pvSeen EXCEPT !.deserted = d] /\ d
    BY <1>5, <1>8, PvDesertIs
  <2>2. PvIdle.at \notin PvHolding /\ PvIdle.at \notin PvBusy
    BY <1>6 DEF PvHolding, PvBusy
  <2> QED BY <1>3, <1>4, <1>6, <1>8, <2>1, <2>2, PvWorkerStep
<1>9. CASE /\ pvLock = PvNone /\ PvDesert(FALSE) /\ pvLock' = w
           /\ PvGo(w, IF pvJob.status \in PvFinal THEN [at |-> "unlock", attempt |-> 0]
                      ELSE [at |-> "start", attempt |-> pvWorker[w].attempt,
                            preset |-> pvJob.preset, i |-> 1])
  <2>1. PICK d \in BOOLEAN : pvSeen' = [pvSeen EXCEPT !.deserted = d] /\ (pvSeen.deserted => d)
    BY <1>5, <1>9, PvDesertIs
  <2>2. CASE pvJob.status \in PvFinal
    <3>1. [at |-> "unlock", attempt |-> 0] \in PvStates
      BY DEF PvStates
    <3>2. PICK s \in PvStates : PvGo(w, s) /\ s.at = "unlock"
      BY <1>9, <2>2, <3>1
    <3>3. s.at \notin PvBusy /\ pvJob.status \notin {"QUEUED", "RUNNING"}
      BY <2>2, <3>2 DEF PvBusy, PvFinal
    <3> QED BY <1>3, <1>4, <1>9, <2>1, <3>2, <3>3, PvWorkerStep
  <2>3. CASE pvJob.status \notin PvFinal
    <3>1. [at |-> "start", attempt |-> pvWorker[w].attempt, preset |-> pvJob.preset, i |-> 1] \in PvStates
      BY <1>2, <1>3 DEF PvStates
    <3>2. PICK s \in PvStates : PvGo(w, s) /\ s.at = "start" /\ s.preset = pvJob.preset /\ s.i = 1
      BY <1>9, <2>3, <3>1
    <3>3. s.at # "record" /\ PvCares(s)
      BY <3>2 DEF PvCares, PvAttending, PvBusy
    <3> QED BY <1>3, <1>4, <1>9, <2>1, <2>3, <3>2, <3>3, PvWorkerStep
  <2> QED BY <2>2, <2>3
<1> QED BY <1>7, <1>8, <1>9 DEF PvLock

\* A request takes the job up.
LEMMA PvRunRequestInv ==
    ASSUME PvInv, NEW w \in PvWorkers, PvRunRequest(w)
    PROVE  PvInv'
<1> DEFINE s == [at |-> "lock", attempt |-> 0]
<1>1. s \in PvStates /\ s.at = "lock"
  BY DEF PvStates
<1>2. PvGo(w, s) /\ pvLock' = pvLock /\ pvSeen' = pvSeen
  BY DEF PvRunRequest
<1>3. pvSuccess' = pvSuccess /\ pvOutside' = pvOutside
  BY DEF PvRunRequest, PvOutsideSame
<1>4. /\ pvJob' = [pvJob EXCEPT !.status = pvJob.status] /\ pvJob.status \in PvStatuses
      /\ pvSeen' = [pvSeen EXCEPT !.deserted = pvSeen.deserted] /\ pvSeen.deserted \in BOOLEAN
  BY <1>2, PvSeenSame DEF PvRunRequest, PvInv, PvTyped
<1>5. s.at \notin PvBusy /\ s.at \notin PvHolding /\ PvCares(s)
  BY <1>1 DEF PvBusy, PvHolding, PvCares, PvAttending
<1> HIDE DEF s
<1> QED BY <1>1, <1>2, <1>3, <1>4, <1>5, PvWorkerStep

\* A worker that stops gives the lock back next, and comes again or the job is deserted.
LEMMA PvStopStep ==
    ASSUME PvInv, NEW w \in PvWorkers, pvWorker[w].at \in PvBusy,
           PvGo(w, PvUnlocking(w)), pvLock' = pvLock, pvOutside' = pvOutside,
           pvSuccess' \subseteq pvSuccess,
           \/ pvJob' = [pvJob EXCEPT !.status = "FAILED"] /\ PvDesert(FALSE)
           \/ pvJob' = pvJob /\ PvDesert(~PvRetries(w))
    PROVE  PvInv'
<1> DEFINE s == PvUnlocking(w)
<1>1. PvTyped /\ pvSeen.deserted \in BOOLEAN
  BY DEF PvInv, PvTyped, PvSights
<1>2. pvWorker[w].attempt \in 0..3
  BY <1>1, PvStateFacts DEF PvBusy
<1>3. s \in PvStates /\ s.at = "unlock" /\ s.attempt = pvWorker[w].attempt
  BY <1>2 DEF PvUnlocking, PvStates
<1>4. s.at \notin PvBusy /\ pvWorker[w].at \in PvHolding /\ (PvRetries(w) => PvCares(s))
  BY <1>3 DEF PvBusy, PvHolding, PvCares, PvRetries
<1>5. pvJob.status \notin PvFinal /\ pvJob.status \in PvStatuses
  BY <1>1, PvAlone DEF PvHasCome, PvTyped
<1>6. "FAILED" \in PvStatuses /\ "FAILED" \notin PvFinal /\ "FAILED" \notin {"QUEUED", "RUNNING"}
  BY DEF PvStatuses, PvFinal
<1> HIDE DEF s
<1>7. CASE pvJob' = [pvJob EXCEPT !.status = "FAILED"] /\ PvDesert(FALSE)
  <2>1. PICK d \in BOOLEAN : pvSeen' = [pvSeen EXCEPT !.deserted = d] /\ (pvSeen.deserted => d)
    BY <1>1, <1>7, PvDesertIs
  <2> QED BY <1>3, <1>4, <1>5, <1>6, <1>7, <2>1, PvWorkerStep DEF s
<1>8. CASE pvJob' = pvJob /\ PvDesert(~PvRetries(w))
  <2>1. (~PvRetries(w)) \in BOOLEAN
    OBVIOUS
  <2>2. PICK d \in BOOLEAN : /\ pvSeen' = [pvSeen EXCEPT !.deserted = d] /\ (pvSeen.deserted => d)
                             /\ (~PvRetries(w) => d)
    BY <1>1, <1>8, <2>1, PvDesertIs
  <2>3. pvJob' = [pvJob EXCEPT !.status = pvJob.status]
    BY <1>1, <1>8 DEF PvTyped
  <2>4. PvCares(s) \/ d
    BY <1>4, <2>2
  <2> QED BY <1>3, <1>4, <1>5, <2>2, <2>3, <2>4, PvWorkerStep DEF s
<1> QED BY <1>7, <1>8

\* The job is RUNNING once its worker has started, if that is written.
LEMMA PvStartInv ==
    ASSUME PvInv, NEW w \in PvWorkers, PvStart(w)
    PROVE  PvInv'
<1>1. PvTyped /\ pvSeen.deserted \in BOOLEAN /\ pvWorker[w].at = "start"
  BY DEF PvStart, PvAt, PvInv, PvTyped, PvSights
<1>2. pvWorker[w].at \in PvBusy /\ pvSuccess' = pvSuccess /\ pvOutside' = pvOutside /\ pvLock' = pvLock
  BY <1>1 DEF PvStart, PvOutsideSame, PvBusy
<1>3. CASE PvGo(w, PvUnlocking(w)) /\ pvJob' = pvJob /\ PvDesert(~PvRetries(w))
  BY <1>2, <1>3, PvStopStep
<1>4. CASE /\ PvGo(w, [pvWorker[w] EXCEPT !.at = "step"]) /\ PvDesert(FALSE)
           /\ pvJob' = [pvJob EXCEPT !.status = "RUNNING"] \/ pvJob' = pvJob
  <2>1. pvWorker[w] \in [at : {"start", "step"}, attempt : 0..3,
                         preset : PvPresets \cup {PvNone}, i : 1..16]
    BY <1>1, PvStateFacts
  <2>2. [pvWorker[w] EXCEPT !.at = "step"] \in [at : {"start", "step"}, attempt : 0..3,
                                                preset : PvPresets \cup {PvNone}, i : 1..16]
    BY <2>1
  <2>3. PICK s \in PvStates : /\ PvGo(w, s) /\ s.at = "step" /\ s.preset = pvWorker[w].preset
                              /\ s.i = pvWorker[w].i
    BY <1>4, <2>1, <2>2 DEF PvStates
  <2>4. PICK d \in BOOLEAN : pvSeen' = [pvSeen EXCEPT !.deserted = d] /\ (pvSeen.deserted => d)
    BY <1>1, <1>4, PvDesertIs
  <2>5. pvJob.status \notin PvFinal /\ pvJob.status \in PvStatuses
    BY <1>1, <1>2, PvAlone DEF PvHasCome, PvTyped
  <2>6. PICK status \in PvStatuses : pvJob' = [pvJob EXCEPT !.status = status] /\ status \notin PvFinal
    BY <1>1, <1>4, <2>5 DEF PvTyped, PvStatuses, PvFinal
  <2>7. s.at # "record" /\ s.at \in PvBusy /\ PvCares(s) /\ pvWorker[w].at \in PvHolding
    BY <1>2, <2>3 DEF PvBusy, PvCares, PvAttending, PvHolding
  <2> QED BY <1>2, <2>3, <2>4, <2>5, <2>6, <2>7, PvWorkerStep
<1> QED BY <1>3, <1>4 DEF PvStart

\* A failure is written, or not, and the lock is next to be given back.
LEMMA PvFailInv ==
    ASSUME PvInv, NEW w \in PvWorkers, PvFail(w)
    PROVE  PvInv'
<1>1. pvWorker[w].at \in PvBusy /\ pvSuccess' \subseteq pvSuccess
  BY DEF PvFail, PvAt, PvBusy
<1> QED BY <1>1, PvStopStep DEF PvFail, PvOutsideSame

\* The job is finished when every step is done, or read as SUCCESS, which only a done one is.
LEMMA PvFinishInv ==
    ASSUME PvInv, NEW w \in PvWorkers, PvFinish(w)
    PROVE  PvInv'
<1> DEFINE s == [at |-> "unlock", attempt |-> 0]
<1>1. PvTyped /\ pvSeen.deserted \in BOOLEAN /\ pvWorker[w].at = "step"
  BY DEF PvFinish, PvAt, PvInv, PvTyped, PvSights
<1>2. pvWorker[w].at \in PvBusy /\ pvSuccess' = pvSuccess /\ pvOutside' = pvOutside /\ pvLock' = pvLock
  BY <1>1 DEF PvFinish, PvOutsideSame, PvBusy
<1>3. s \in PvStates /\ s.at = "unlock" /\ PvGo(w, s)
  BY DEF PvStates, PvFinish
<1>4. s.at \notin PvBusy /\ pvWorker[w].at \in PvHolding
  BY <1>2, <1>3 DEF PvBusy, PvHolding
<1>5. pvJob.status \notin PvFinal /\ pvJob.status \in PvStatuses
  BY <1>1, <1>2, PvAlone DEF PvHasCome, PvTyped
<1>6. pvSeen.done = 1..15 /\ (pvSuccess = 1..15 \/ pvSeen.unrecorded)
  <2>1. PICK k \in 1..16 : k = pvWorker[w].i
    BY <1>1, PvStateFacts
  <2>2. /\ 1..(k - 1) \subseteq pvSeen.done
        /\ 1..(k - 1) \subseteq pvSuccess \/ pvSeen.unrecorded
    BY <1>2, <2>1, PvAlone DEF PvHasCome
  <2>3. k..15 \subseteq pvSuccess /\ pvSuccess \subseteq pvSeen.done /\ pvSeen.done \subseteq 1..15
    BY <1>1, <2>1 DEF PvFinish, PvInv, PvInTurn, PvTyped, PvSights
  <2>4. \A j \in 1..15 : j \in 1..(k - 1) \/ j \in k..15
    OBVIOUS
  <2> QED BY <2>2, <2>3, <2>4
<1>7. /\ "CONFIGURATION_REQUIRED" \in PvStatuses
      /\ "CONFIGURATION_REQUIRED" \notin {"QUEUED", "RUNNING"}
  BY DEF PvStatuses, PvFinal
<1> HIDE DEF s
<1>8. CASE pvJob' = [pvJob EXCEPT !.status = "CONFIGURATION_REQUIRED"] /\ PvDesert(FALSE)
  <2>1. PICK d \in BOOLEAN : pvSeen' = [pvSeen EXCEPT !.deserted = d] /\ (pvSeen.deserted => d)
    BY <1>1, <1>8, PvDesertIs
  <2> QED BY <1>2, <1>3, <1>4, <1>6, <1>7, <1>8, <2>1, PvWorkerStep
<1>9. CASE pvJob' = pvJob /\ PvDesert(TRUE)
  <2>1. PICK d \in BOOLEAN : pvSeen' = [pvSeen EXCEPT !.deserted = d] /\ d
    BY <1>1, <1>9, PvDesertIs
  <2>2. pvJob' = [pvJob EXCEPT !.status = pvJob.status]
    BY <1>1, <1>9 DEF PvTyped
  <2> QED BY <1>2, <1>3, <1>4, <1>5, <2>1, <2>2, PvWorkerStep
<1> QED BY <1>8, <1>9 DEF PvFinish

\* The lock is given back: whoever gives it back was holding it.
LEMMA PvUnlockInv ==
    ASSUME PvInv, NEW w \in PvWorkers, PvUnlock(w)
    PROVE  PvInv'
<1> DEFINE s == PvAfter(pvWorker[w].attempt)
<1>1. pvWorker[w].at = "unlock" /\ PvTyped
  BY DEF PvUnlock, PvAt, PvInv
<1>2. pvWorker[w].attempt \in 0..3 /\ pvLock = w
  BY <1>1, PvStateFacts DEF PvInv, PvLockIsHeld, PvHolding
<1>3. s \in PvStates /\ s.at \in {"idle", "requeue"} /\ (s.at = "requeue" <=> PvRetries(w))
  BY <1>2 DEF PvAfter, PvIdle, PvStates, PvRetries
<1>4. PvGo(w, s) /\ pvLock' = (IF pvLock = w THEN PvNone ELSE pvLock) /\ pvSeen' = pvSeen
  BY <1>2 DEF PvUnlock
<1>5. pvSuccess' = pvSuccess /\ pvOutside' = pvOutside
  BY DEF PvUnlock, PvOutsideSame
<1>6. /\ pvJob' = [pvJob EXCEPT !.status = pvJob.status] /\ pvJob.status \in PvStatuses
      /\ pvSeen' = [pvSeen EXCEPT !.deserted = pvSeen.deserted] /\ pvSeen.deserted \in BOOLEAN
  BY <1>1, <1>4, PvSeenSame DEF PvUnlock, PvTyped
<1>7. s.at \notin PvBusy /\ s.at \notin PvHolding /\ (PvCares(s) \/ ~PvCares(pvWorker[w]))
  BY <1>1, <1>3 DEF PvAttending, PvHolding, PvBusy, PvCares, PvRetries
<1> HIDE DEF s
<1> QED BY <1>2, <1>3, <1>4, <1>5, <1>6, <1>7, PvWorkerStep

\* The recovery queues the job for its next attempt, if that is written.
LEMMA PvRequeueInv ==
    ASSUME PvInv, NEW w \in PvWorkers, PvRequeue(w)
    PROVE  PvInv'
<1> DEFINE s == [pvWorker[w] EXCEPT !.at = "lock"]
<1>1. pvWorker[w].at = "requeue" /\ PvTyped
  BY DEF PvRequeue, PvAt, PvInv
<1>2. s \in PvStates /\ s.at = "lock"
  BY <1>1, PvStateFacts DEF PvStates
<1>3. PvGo(w, s) /\ pvLock' = pvLock /\ pvSeen' = pvSeen
  BY DEF PvRequeue
<1>4. pvSuccess' = pvSuccess /\ pvOutside' = pvOutside
  BY DEF PvRequeue, PvOutsideSame
<1>5. PICK status \in PvStatuses : /\ pvJob' = [pvJob EXCEPT !.status = status]
                                   /\ status \notin PvFinal \/ status = pvJob.status
  <2>1. pvJob.status \in PvStatuses /\ [pvJob EXCEPT !.status = pvJob.status] = pvJob
    BY <1>1 DEF PvTyped
  <2>2. "QUEUED" \in PvStatuses /\ "QUEUED" \notin PvFinal
    BY DEF PvStatuses, PvFinal
  <2> QED BY <2>1, <2>2 DEF PvRequeue
<1>6. /\ pvSeen' = [pvSeen EXCEPT !.deserted = pvSeen.deserted] /\ pvSeen.deserted \in BOOLEAN
      /\ s.at \notin PvBusy /\ s.at \notin PvHolding /\ PvCares(s)
  BY <1>1, <1>2, <1>3, PvSeenSame DEF PvBusy, PvHolding, PvCares, PvAttending
<1> HIDE DEF s
<1> QED BY <1>2, <1>3, <1>4, <1>5, <1>6, PvWorkerStep

\* A process dies, and its lock with it.
LEMMA PvCrashInv ==
    ASSUME PvInv, NEW w \in PvWorkers, PvCrash(w)
    PROVE  PvInv'
<1> DEFINE s == [at |-> "scan"]
<1>1. s \in PvStates /\ s.at = "scan"
  BY DEF PvStates
<1>2. PvGo(w, s) /\ pvSeen' = pvSeen /\ pvLock' = IF pvLock = w THEN PvNone ELSE pvLock
  BY DEF PvCrash
<1>3. pvSuccess' = pvSuccess /\ pvOutside' = pvOutside
  BY DEF PvCrash, PvOutsideSame
<1>4. /\ pvJob' = [pvJob EXCEPT !.status = pvJob.status] /\ pvJob.status \in PvStatuses
      /\ pvSeen' = [pvSeen EXCEPT !.deserted = pvSeen.deserted] /\ pvSeen.deserted \in BOOLEAN
  BY <1>2, PvSeenSame DEF PvCrash, PvInv, PvTyped
<1>5. s.at \notin PvHolding /\ s.at \notin PvBusy /\ PvCares(s)
  BY <1>1 DEF PvHolding, PvBusy, PvCares, PvAttending
<1> HIDE DEF s
<1> QED BY <1>1, <1>2, <1>3, <1>4, <1>5, PvWorkerStep

\* A process that has started looks whether the job was interrupted.
LEMMA PvScanInv ==
    ASSUME PvInv, NEW w \in PvWorkers, PvScan(w)
    PROVE  PvInv'
<1>1. PvTyped /\ pvSeen.deserted \in BOOLEAN
  BY DEF PvInv, PvTyped, PvSights
<1>2. pvSuccess' = pvSuccess /\ pvOutside' = pvOutside /\ pvLock' = pvLock
  BY DEF PvScan, PvOutsideSame
<1>3. pvJob' = [pvJob EXCEPT !.status = pvJob.status] /\ pvJob.status \in PvStatuses
  BY <1>1 DEF PvScan, PvTyped
<1>4. PvIdle \in PvStates /\ PvIdle.at = "idle"
  BY DEF PvIdle, PvStates
<1>5. CASE PvDesert(TRUE) /\ PvGo(w, PvIdle)
  <2>1. PICK d \in BOOLEAN : pvSeen' = [pvSeen EXCEPT !.deserted = d] /\ d
    BY <1>1, <1>5, PvDesertIs
  <2>2. PvIdle.at \notin PvHolding /\ PvIdle.at \notin PvBusy
    BY <1>4 DEF PvHolding, PvBusy
  <2> QED BY <1>2, <1>3, <1>4, <1>5, <2>1, <2>2, PvWorkerStep
<1>6. CASE /\ PvDesert(FALSE)
           /\ PvGo(w, IF pvJob.status \in {"QUEUED", "RUNNING"} THEN [at |-> "lock", attempt |-> 1]
                      ELSE PvIdle)
  <2>1. PICK d \in BOOLEAN : pvSeen' = [pvSeen EXCEPT !.deserted = d] /\ (pvSeen.deserted => d)
    BY <1>1, <1>6, PvDesertIs
  <2>2. [at |-> "lock", attempt |-> 1] \in PvStates
    BY DEF PvStates
  <2>3. PICK s \in PvStates : /\ PvGo(w, s) /\ s.at \in {"lock", "idle"}
                              /\ s.at = "lock" \/ pvJob.status \notin {"QUEUED", "RUNNING"}
    BY <1>4, <1>6, <2>2
  <2>4. s.at \notin PvHolding /\ s.at \notin PvBusy /\ (s.at = "lock" => PvCares(s))
    BY <2>3 DEF PvHolding, PvBusy, PvCares, PvAttending
  <2> QED BY <1>2, <1>3, <2>1, <2>3, <2>4, PvWorkerStep
<1> QED BY <1>5, <1>6 DEF PvScan

\* A POST writes the job; a changed preset is noticed when a worker has a copy or it is applied.
LEMMA PvPostInv ==
    ASSUME PvInv, NEW w \in PvWorkers, NEW preset \in PvPresets, NEW prepare \in BOOLEAN,
           PvPost(w, preset, prepare)
    PROVE  PvInv'
<1>1. PvTyped
  BY DEF PvInv
<1>2. [at |-> "lock", attempt |-> 0] \in PvStates /\ PvIdle \in PvStates
  BY DEF PvStates, PvIdle
<1>3. PICK s \in PvStates : PvGo(w, s) /\ s.at = IF prepare THEN "idle" ELSE "lock"
  BY <1>2 DEF PvPost, PvIdle
<1>4. /\ pvWorker' \in [PvWorkers -> PvStates] /\ pvWorker'[w] = s
      /\ \A v \in PvWorkers \ {w} : pvWorker'[v] = pvWorker[v]
  BY <1>1, <1>3, PvMoved
<1>5. pvSuccess' = pvSuccess /\ pvOutside' = pvOutside /\ pvLock' = pvLock
  BY DEF PvPost, PvOutsideSame
<1>6. /\ pvJob'.preset = preset
      /\ pvJob'.status \in PvFinal <=> pvJob.status \in PvFinal
      /\ pvJob'.status \in {"QUEUED", "RUNNING"} => ~prepare
  BY DEF PvPost, PvFinal
<1>7. /\ pvSeen'.licensed = pvSeen.licensed /\ pvSeen'.deserted = pvSeen.deserted
      /\ pvSeen'.done = pvSeen.done /\ pvSeen'.unrecorded = pvSeen.unrecorded
      /\ pvSeen'.edited = (pvSeen.edited \/ (pvJob.preset # preset /\ PvPresetInUse))
  BY <1>1 DEF PvPost, PvTyped, PvSights
<1>8. PvTyped'
  <2>1. pvJob' \in [status : PvStatuses, preset : PvPresets \cup {PvNone}]
    BY DEF PvPost, PvStatuses
  <2>2. pvSeen' \in PvSights
    <3>1. (pvSeen.edited \/ (pvJob.preset # preset /\ PvPresetInUse)) \in BOOLEAN
      OBVIOUS
    <3> QED BY <1>1, <3>1 DEF PvPost, PvTyped, PvSights
  <2> QED BY <1>1, <1>4, <1>5, <2>1, <2>2 DEF PvTyped
<1>9. s.at \notin PvHolding /\ s.at \notin PvBusy /\ s.at # "record"
  BY <1>3 DEF PvHolding, PvBusy
<1>10. PvLockIsHeld'
  BY <1>3, <1>5, <1>9, PvLockStep
<1>11. pvSeen'.edited \/ pvJob'.preset = pvJob.preset \/ ~PvPresetInUse
  BY <1>6, <1>7
<1>12. PvInTurn' /\ PvAllHaveCome' /\ PvFinishedIsAll'
  <2>1. PvInTurn' /\ PvFinishedIsAll'
    BY <1>5, <1>6, <1>7 DEF PvInv, PvInTurn, PvFinishedIsAll
  <2>2. ASSUME NEW v \in PvWorkers, pvWorker'[v].at \in PvBusy PROVE PvHasCome(v)'
    <3>1. pvWorker'[v] = pvWorker[v] /\ PvHasCome(v)
      BY <1>4, <1>9, <2>2 DEF PvInv, PvAllHaveCome
    <3> QED BY <1>5, <1>6, <1>7, <3>1 DEF PvHasCome
  <2> QED BY <2>1, <2>2 DEF PvAllHaveCome
<1>13. PvEffectsHold'
  <2>1. 10 \in pvSeen.done => 6 \in pvSeen.done
    <3>1. 6 \in 1..10
      OBVIOUS
    <3> QED BY <3>1 DEF PvInv, PvInTurn
  <2>2. pvSeen'.edited \/ pvJob'.preset = pvJob.preset \/ pvOutside.entitled = {}
    BY <1>11 DEF PvPresetInUse
  <2>3. pvSeen.edited => pvSeen'.edited
    BY <1>7
  <2> QED BY <1>5, <1>7, <2>1, <2>2, <2>3 DEF PvInv, PvEffectsHold
<1>14. PvCopiesAgree'
  <2> SUFFICES ASSUME ~pvSeen'.edited PROVE PvCopiesAgree'
    BY DEF PvCopiesAgree
  <2>1. CASE pvJob'.preset = pvJob.preset
    BY <1>4, <1>5, <1>7, <1>9, <2>1 DEF PvInv, PvCopiesAgree
  <2>2. CASE ~PvPresetInUse
    <3>1. pvOutside.entitled = {} /\ \A v \in PvWorkers : pvWorker[v].at \notin PvBusy
      BY <1>1, <2>2, PvBusyHasPreset DEF PvPresetInUse
    <3>2. \A v \in PvWorkers : pvWorker'[v].at \notin PvBusy
      BY <1>4, <1>9, <3>1
    <3> QED BY <1>5, <3>1, <3>2 DEF PvCopiesAgree
  <2> QED BY <1>11, <2>1, <2>2
<1>15. PvIsAttended'
  <2>1. PvCares(s) \/ pvJob'.status \notin {"QUEUED", "RUNNING"}
    BY <1>3, <1>6 DEF PvCares, PvAttending
  <2> QED BY <1>3, <1>7, <2>1, PvAttendedStep
<1> QED BY <1>8, <1>10, <1>12, <1>13, <1>14, <1>15 DEF PvInv

\* A result is written, or is known not to be; the worker comes to the next step.
LEMMA PvRecordInv ==
    ASSUME PvInv, NEW w \in PvWorkers, PvRecord(w)
    PROVE  PvInv'
<1>1. PvTyped /\ pvWorker[w].at = "record" /\ pvWorker[w].at \in PvBusy
  BY DEF PvInv, PvRecord, PvAt, PvBusy
<1>2. PICK i \in 1..15 : i = pvWorker[w].i
  BY <1>1, PvStateFacts
<1>3. /\ pvLock = w /\ \A v \in PvWorkers \ {w} : pvWorker[v].at \notin PvBusy
      /\ 1..(i - 1) \subseteq pvSeen.done /\ i \in pvSeen.done
      /\ 1..(i - 1) \subseteq pvSuccess \/ pvSeen.unrecorded
      /\ pvJob.status \notin PvFinal
  BY <1>1, <1>2, PvAlone DEF PvHasCome
<1>4. PICK s \in PvStates : PvGo(w, s) /\ s.at = "step" /\ s.preset = pvWorker[w].preset /\ s.i = i + 1
  <2>1. pvWorker[w] \in [at : {"record", "fail"}, attempt : 0..3, preset : PvPresets \cup {PvNone}, i : 1..15]
    BY <1>1, PvStateFacts
  <2>2. i + 1 \in 1..16
    OBVIOUS
  <2>3. PICK s : s = [pvWorker[w] EXCEPT !.at = "step", !.i = @ + 1]
    OBVIOUS
  <2>4. /\ s \in [at : {"start", "step"}, attempt : 0..3, preset : PvPresets \cup {PvNone}, i : 1..16]
        /\ s.at = "step" /\ s.preset = pvWorker[w].preset /\ s.i = i + 1
    BY <1>2, <2>1, <2>2, <2>3
  <2>5. s \in PvStates
    BY <2>4 DEF PvStates
  <2>6. PvGo(w, s)
    BY <2>3 DEF PvRecord
  <2> QED BY <2>4, <2>5, <2>6
<1>5. /\ pvWorker' \in [PvWorkers -> PvStates] /\ pvWorker'[w] = s
      /\ \A v \in PvWorkers \ {w} : pvWorker'[v] = pvWorker[v]
  BY <1>1, <1>4, PvMoved
<1>6. pvJob' = pvJob /\ pvLock' = pvLock /\ pvOutside' = pvOutside
  BY DEF PvRecord, PvOutsideSame
<1>7. /\ pvSeen' \in PvSights /\ pvSeen'.done = pvSeen.done /\ pvSeen'.licensed = pvSeen.licensed
      /\ pvSeen'.edited = pvSeen.edited /\ pvSeen'.deserted = pvSeen.deserted
      /\ pvSeen.unrecorded => pvSeen'.unrecorded
      /\ pvSuccess' = pvSuccess \cup {i} \/ (pvSuccess' = pvSuccess /\ pvSeen'.unrecorded)
  <2>1. CASE pvSeen' = pvSeen /\ pvSuccess' = pvSuccess \cup {i}
    BY <1>1, <2>1 DEF PvTyped
  <2>2. CASE pvSuccess' = pvSuccess /\ pvSeen' = [pvSeen EXCEPT !.unrecorded = TRUE]
    BY <1>1, <2>2 DEF PvTyped, PvSights
  <2> QED BY <1>2, <2>1, <2>2 DEF PvRecord
<1>8. PvTyped'
  BY <1>1, <1>5, <1>6, <1>7 DEF PvTyped
<1>9. PvLockIsHeld'
  BY <1>1, <1>4, <1>6, PvLockStep DEF PvHolding
<1>10. PvInTurn'
  BY <1>3, <1>7 DEF PvInv, PvInTurn
<1>11. PvAllHaveCome'
  <2> SUFFICES ASSUME NEW v \in PvWorkers, pvWorker'[v].at \in PvBusy PROVE PvHasCome(v)'
    BY DEF PvAllHaveCome
  <2>1. pvWorker'[v] = s
    BY <1>3, <1>5
  <2>2. \A j \in 1..(s.i - 1) : j = i \/ j \in 1..(i - 1)
    BY <1>4
  <2> QED BY <1>3, <1>4, <1>6, <1>7, <2>1, <2>2 DEF PvHasCome
<1>12. PvEffectsHold' /\ PvFinishedIsAll'
  BY <1>3, <1>6, <1>7 DEF PvInv, PvEffectsHold, PvFinishedIsAll
<1>13. PvCopiesAgree'
  BY <1>1, <1>4, <1>5, <1>6, <1>7 DEF PvInv, PvCopiesAgree
<1>14. PvIsAttended'
  <2>1. PvCares(s)
    BY <1>4 DEF PvCares, PvAttending, PvBusy
  <2> QED BY <1>4, <1>7, <2>1, PvAttendedStep
<1> QED BY <1>8, <1>9, <1>10, <1>11, <1>12, <1>13, <1>14 DEF PvInv

\* What a step does: a preset is applied or synced, a deployment made, and nothing undone.
LEMMA PvEffectFacts ==
    ASSUME PvTyped, NEW w \in PvWorkers, NEW step, PvEffect(w, step),
           pvWorker[w].preset \in PvPresets \cup {PvNone}
    PROVE  /\ pvOutside' \in [entitled : SUBSET (PvPresets \cup {PvNone}),
                              desired : PvPresets \cup {PvNone}, deployed : BOOLEAN]
           /\ pvOutside.entitled \subseteq pvOutside'.entitled
           /\ pvOutside'.entitled \subseteq pvOutside.entitled \cup {pvWorker[w].preset}
           /\ step = "APPLY_MODULE_PRESET" => pvWorker[w].preset \in pvOutside'.entitled
           /\ pvOutside'.desired \in {pvOutside.desired, pvWorker[w].preset}
           /\ step = "SYNC_DESIRED_STATE" => pvOutside'.desired = pvWorker[w].preset
           /\ pvOutside.deployed => pvOutside'.deployed
           /\ step = "DEPLOY_STAGING" => pvOutside'.deployed
           /\ pvOutside'.deployed => pvOutside.deployed \/ step = "DEPLOY_STAGING"
<1>1. CASE step = "APPLY_MODULE_PRESET"
  BY <1>1 DEF PvTyped, PvEffect
<1>2. CASE step = "SYNC_DESIRED_STATE"
  BY <1>2 DEF PvTyped, PvEffect
<1>3. CASE step = "DEPLOY_STAGING"
  BY <1>3 DEF PvTyped, PvEffect
<1>4. CASE step \notin {"APPLY_MODULE_PRESET", "SYNC_DESIRED_STATE", "DEPLOY_STAGING"}
  <2>1. pvOutside' = pvOutside
    BY <1>4 DEF PvEffect
  <2> QED BY <1>4, <2>1 DEF PvTyped
<1> QED BY <1>1, <1>2, <1>3, <1>4

\* What an execution of step i leaves in the history.
LEMMA PvExecuteSees ==
    ASSUME PvTyped, NEW i \in 1..15, NEW D, D = {} \/ D = {i},
           pvSeen' = [pvSeen EXCEPT
               !.licensed = @ \/ (PvSteps[i] = "VALIDATE_LICENSE" /\ pvPartner.licensed),
               !.unrecorded = @ \/ i \in pvSuccess,
               !.done = @ \cup D]
    PROVE  /\ pvSeen' \in PvSights /\ pvSeen'.done = pvSeen.done \cup D
           /\ pvSeen'.deserted = pvSeen.deserted /\ pvSeen'.edited = pvSeen.edited
           /\ pvSeen.licensed => pvSeen'.licensed
           /\ PvSteps[i] = "VALIDATE_LICENSE" /\ pvPartner.licensed => pvSeen'.licensed
           /\ pvSeen.unrecorded => pvSeen'.unrecorded
           /\ i \in pvSuccess => pvSeen'.unrecorded
<1>1. PICK r \in PvSights : r = pvSeen
  BY DEF PvTyped
<1>2. PICK a \in BOOLEAN : a = (r.licensed \/ (PvSteps[i] = "VALIDATE_LICENSE" /\ pvPartner.licensed))
  OBVIOUS
<1>3. PICK b \in BOOLEAN : b = (r.unrecorded \/ i \in pvSuccess)
  OBVIOUS
<1>4. PICK c \in SUBSET (1..15) : c = r.done \cup D
  BY <1>1 DEF PvSights
<1>5. pvSeen' = [r EXCEPT !.licensed = a, !.unrecorded = b, !.done = c]
  BY <1>1, <1>2, <1>3, <1>4
<1>6. /\ pvSeen' \in PvSights /\ pvSeen'.done = c /\ pvSeen'.licensed = a /\ pvSeen'.unrecorded = b
      /\ pvSeen'.deserted = r.deserted /\ pvSeen'.edited = r.edited
  BY <1>5 DEF PvSights
<1>7. /\ r.licensed => a
      /\ PvSteps[i] = "VALIDATE_LICENSE" /\ pvPartner.licensed => a
      /\ r.unrecorded => b /\ (i \in pvSuccess => b)
  BY <1>2, <1>3, Zenon
<1> QED BY <1>1, <1>4, <1>6, <1>7

\* The step executed has every step before it behind it, and its effect is what the
\* invariant says of a step that was done.
LEMMA PvExecuteInv ==
    ASSUME PvInv, NEW w \in PvWorkers, PvExecute(w)
    PROVE  PvInv'
<1> DEFINE me == pvWorker[w]
<1>1. PvTyped /\ me.at = "step" /\ me.at \in PvBusy
  BY DEF PvInv, PvExecute, PvAt, PvBusy
<1>2. me \in [at : {"start", "step"}, attempt : 0..3, preset : PvPresets \cup {PvNone}, i : 1..16]
  BY <1>1, PvStateFacts
<1>3. PICK k \in 1..16 : k = me.i
  BY <1>2
<1>4. PICK i \in k..15 :
         /\ k..(i - 1) \subseteq pvSuccess
         /\ pvSuccess' \in {pvSuccess, pvSuccess \ {i}}
         /\ \E D \in {{}, {i}} :
              /\ pvSeen' = [pvSeen EXCEPT
                    !.licensed = @ \/ (PvSteps[i] = "VALIDATE_LICENSE" /\ pvPartner.licensed),
                    !.unrecorded = @ \/ i \in pvSuccess,
                    !.done = @ \cup D]
              /\ \/ /\ ~PvBlocked(PvSteps[i]) /\ PvEffect(w, PvSteps[i])
                    /\ \/ PvGo(w, [[me EXCEPT !.i = i] EXCEPT !.at = "record"]) /\ D = {i}
                       \/ PvGo(w, [[me EXCEPT !.i = i] EXCEPT !.at = "fail"]) /\ D = {}
                 \/ pvOutside' = pvOutside /\ PvGo(w, [[me EXCEPT !.i = i] EXCEPT !.at = "fail"]) /\ D = {}
  BY <1>3 DEF PvExecute, PvOutsideSame
<1>5. i \in 1..15
  BY <1>3, <1>4
<1> DEFINE step == PvSteps[i]
<1>6. PICK D \in {{}, {i}} :
         /\ pvSeen' = [pvSeen EXCEPT
                    !.licensed = @ \/ (PvSteps[i] = "VALIDATE_LICENSE" /\ pvPartner.licensed),
                    !.unrecorded = @ \/ i \in pvSuccess,
                    !.done = @ \cup D]
         /\ \/ /\ ~PvBlocked(step) /\ PvEffect(w, step)
               /\ \/ PvGo(w, [[me EXCEPT !.i = i] EXCEPT !.at = "record"]) /\ D = {i}
                  \/ PvGo(w, [[me EXCEPT !.i = i] EXCEPT !.at = "fail"]) /\ D = {}
            \/ pvOutside' = pvOutside /\ PvGo(w, [[me EXCEPT !.i = i] EXCEPT !.at = "fail"]) /\ D = {}
  BY <1>4
<1>7. /\ pvSeen' \in PvSights /\ pvSeen'.done = pvSeen.done \cup D
      /\ pvSeen'.deserted = pvSeen.deserted /\ pvSeen'.edited = pvSeen.edited
      /\ pvSeen.licensed => pvSeen'.licensed
      /\ step = "VALIDATE_LICENSE" /\ pvPartner.licensed => pvSeen'.licensed
      /\ pvSeen.unrecorded => pvSeen'.unrecorded
      /\ i \in pvSuccess => pvSeen'.unrecorded
  <2>1. D = {} \/ D = {i}
    OBVIOUS
  <2> QED BY <1>1, <1>5, <1>6, <2>1, PvExecuteSees
<1>8. PICK s \in PvStates :
         /\ PvGo(w, s) /\ s.at \in {"record", "fail"} /\ s.preset = me.preset /\ s.i = i
         /\ s.at = "record" => D = {i}
         /\ s.at = "fail" => D = {}
         /\ (~PvBlocked(step) /\ PvEffect(w, step)) \/ (pvOutside' = pvOutside /\ D = {})
  <2>1. \A at \in {"record", "fail"} :
          [[me EXCEPT !.i = i] EXCEPT !.at = at]
             \in [at : {"record", "fail"}, attempt : 0..3, preset : PvPresets \cup {PvNone}, i : 1..15]
    BY <1>2, <1>5
  <2>2. \A at \in {"record", "fail"} : /\ [[me EXCEPT !.i = i] EXCEPT !.at = at] \in PvStates
                                       /\ [[me EXCEPT !.i = i] EXCEPT !.at = at].at = at
                                       /\ [[me EXCEPT !.i = i] EXCEPT !.at = at].preset = me.preset
                                       /\ [[me EXCEPT !.i = i] EXCEPT !.at = at].i = i
    BY <1>2, <2>1 DEF PvStates
  <2> HIDE DEF step
  <2>3. CASE PvGo(w, [[me EXCEPT !.i = i] EXCEPT !.at = "record"]) /\ D = {i}
    BY <1>6, <2>2, <2>3
  <2>4. CASE PvGo(w, [[me EXCEPT !.i = i] EXCEPT !.at = "fail"]) /\ D = {}
    BY <1>6, <2>2, <2>4
  <2> QED BY <1>6, <2>3, <2>4
<1>9. /\ pvWorker' \in [PvWorkers -> PvStates] /\ pvWorker'[w] = s
      /\ \A v \in PvWorkers \ {w} : pvWorker'[v] = pvWorker[v]
  BY <1>1, <1>8, PvMoved
<1>10. pvJob' = pvJob /\ pvLock' = pvLock
  BY DEF PvExecute
<1>11. /\ \A v \in PvWorkers \ {w} : pvWorker[v].at \notin PvBusy
       /\ 1..(k - 1) \subseteq pvSeen.done /\ pvJob.status \notin PvFinal
       /\ 1..(k - 1) \subseteq pvSuccess \/ pvSeen.unrecorded
  BY <1>1, <1>3, PvAlone DEF PvHasCome
<1>12. /\ 1..(i - 1) \subseteq pvSeen.done
       /\ 1..(i - 1) \subseteq pvSuccess \/ pvSeen.unrecorded
  <2>1. \A j \in 1..(i - 1) : j \in 1..(k - 1) \/ j \in k..(i - 1)
    BY <1>3, <1>4
  <2> QED BY <1>4, <1>11, <2>1 DEF PvInv, PvInTurn
<1>13. /\ i = 2 => step = "VALIDATE_LICENSE"
       /\ i = 6 => step = "APPLY_MODULE_PRESET"
       /\ i = 10 => step = "SYNC_DESIRED_STATE"
       /\ i = 11 => step = "DEPLOY_STAGING"
       /\ step = "DEPLOY_STAGING" => i = 11
  <2>1. \A j \in 1..15 : PvSteps[j] = "DEPLOY_STAGING" => j = 11
    BY DEF PvSteps
  <2> QED BY <1>5, <2>1, PvStepNames
<1>14. /\ 2 \in pvSeen.done => pvSeen.licensed
       /\ 6 \in pvSeen.done => pvOutside.entitled # {}
       /\ 10 \in pvSeen.done /\ ~pvSeen.edited => pvOutside.desired = pvJob.preset
       /\ 11 \in pvSeen.done => pvOutside.deployed
       /\ pvOutside.deployed => pvSeen.licensed
  BY DEF PvInv, PvEffectsHold
<1>15. ~pvSeen.edited => me.preset = pvJob.preset /\ pvOutside.entitled \subseteq {pvJob.preset}
  BY <1>1 DEF PvInv, PvCopiesAgree
<1>16. step = "VALIDATE_LICENSE" /\ ~PvBlocked(step) => pvSeen'.licensed
  BY <1>7 DEF PvBlocked, PvAllowed
<1>17. me.preset \in PvPresets \cup {PvNone}
  BY <1>2
<1> HIDE DEF me, step
<1>18. /\ pvOutside' \in [entitled : SUBSET (PvPresets \cup {PvNone}),
                          desired : PvPresets \cup {PvNone}, deployed : BOOLEAN]
       /\ pvOutside'.entitled \subseteq pvOutside.entitled \cup {me.preset}
  <2>1. CASE pvOutside' = pvOutside
    BY <1>1, <2>1 DEF PvTyped
  <2>2. CASE PvEffect(w, step)
    BY <1>1, <1>17, <2>2, PvEffectFacts DEF me
  <2> QED BY <1>8, <2>1, <2>2
<1>19. PvEffectsHold'
  <2>1. CASE pvOutside' = pvOutside /\ D = {}
    BY <1>7, <1>10, <1>14, <2>1 DEF PvEffectsHold
  <2>2. CASE ~PvBlocked(step) /\ PvEffect(w, step)
    <3>1. /\ pvOutside.entitled \subseteq pvOutside'.entitled
          /\ step = "APPLY_MODULE_PRESET" => me.preset \in pvOutside'.entitled
          /\ pvOutside'.desired \in {pvOutside.desired, me.preset}
          /\ step = "SYNC_DESIRED_STATE" => pvOutside'.desired = me.preset
          /\ pvOutside.deployed => pvOutside'.deployed
          /\ step = "DEPLOY_STAGING" => pvOutside'.deployed
          /\ pvOutside'.deployed => pvOutside.deployed \/ step = "DEPLOY_STAGING"
      BY <1>1, <1>17, <2>2, PvEffectFacts DEF me
    <3>2. \A j \in pvSeen'.done : j \in pvSeen.done \/ j = i
      BY <1>7
    <3>3. 2 \in pvSeen'.done => pvSeen'.licensed
      BY <1>7, <1>13, <1>14, <1>16, <2>2, <3>2
    <3>4. 6 \in pvSeen'.done => pvOutside'.entitled # {}
      BY <1>13, <1>14, <3>1, <3>2
    <3>5. 10 \in pvSeen'.done /\ ~pvSeen'.edited => pvOutside'.desired = pvJob'.preset
      BY <1>7, <1>10, <1>13, <1>14, <1>15, <3>1, <3>2
    <3>6. 11 \in pvSeen'.done => pvOutside'.deployed
      BY <1>13, <1>14, <3>1, <3>2
    <3>7. pvOutside'.deployed => pvSeen'.licensed
      <4>1. i = 11 => 2 \in pvSeen.done
        BY <1>12
      <4> QED BY <1>7, <1>13, <1>14, <3>1, <4>1
    <3> QED BY <3>3, <3>4, <3>5, <3>6, <3>7 DEF PvEffectsHold
  <2> QED BY <1>8, <2>1, <2>2
<1>20. PvTyped'
  BY <1>1, <1>7, <1>9, <1>10, <1>18 DEF PvTyped
<1>21. PvLockIsHeld'
  BY <1>1, <1>8, <1>10, PvLockStep DEF me, PvHolding
<1>22. PvInTurn'
  <2>1. \A j \in 1..i : j = i \/ j \in 1..(i - 1)
    BY <1>5
  <2>2. pvSuccess' \subseteq pvSuccess /\ pvSuccess \subseteq pvSeen.done
    BY <1>4 DEF PvInv, PvInTurn
  <2>3. ASSUME NEW j \in pvSeen'.done PROVE 1..j \subseteq pvSeen'.done
    <3>1. CASE j \in pvSeen.done
      BY <1>7, <3>1 DEF PvInv, PvInTurn
    <3>2. CASE j = i /\ D = {i}
      BY <1>7, <1>12, <2>1, <3>2
    <3> QED BY <1>7, <2>3, <3>1, <3>2
  <2> QED BY <1>7, <2>2, <2>3 DEF PvInTurn
<1>23. PvAllHaveCome'
  <2> SUFFICES ASSUME NEW v \in PvWorkers, pvWorker'[v].at \in PvBusy PROVE PvHasCome(v)'
    BY DEF PvAllHaveCome
  <2>1. pvWorker'[v] = s
    BY <1>9, <1>11
  <2>2. i \notin 1..(i - 1)
    BY <1>5
  <2>3. 1..(i - 1) \subseteq pvSuccess' \/ pvSeen'.unrecorded
    BY <1>4, <1>7, <1>12, <2>2
  <2>4. s.at = "record" => i \in pvSeen'.done
    BY <1>7, <1>8
  <2>5. 1..(i - 1) \subseteq pvSeen'.done
    BY <1>7, <1>12
  <2> QED BY <1>8, <1>10, <1>11, <2>1, <2>3, <2>4, <2>5 DEF PvHasCome
<1>24. PvFinishedIsAll'
  BY <1>10, <1>11 DEF PvFinishedIsAll
<1>25. PvCopiesAgree'
  BY <1>7, <1>8, <1>9, <1>10, <1>15, <1>18 DEF PvInv, PvCopiesAgree
<1>26. PvIsAttended'
  <2>1. PvCares(s)
    BY <1>8 DEF PvCares, PvAttending, PvBusy
  <2> QED BY <1>7, <1>8, <2>1, PvAttendedStep
<1> QED BY <1>19, <1>20, <1>21, <1>22, <1>23, <1>24, <1>25, <1>26 DEF PvInv

\* Nobody works on a job that does not exist.
LEMMA PvInitInv == PvInit => PvInv
<1> SUFFICES ASSUME PvInit PROVE PvInv
  OBVIOUS
<1>1. pvWorker = [w \in PvWorkers |-> PvIdle] /\ PvIdle \in PvStates
  BY DEF PvInit, PvIdle, PvStates
<1>2. \A w \in PvWorkers : pvWorker[w].at = "idle"
  BY <1>1 DEF PvIdle
<1>3. pvSuccess = {} /\ pvSeen.done = {} /\ pvSeen \in PvSights
  BY DEF PvInit, PvSights
<1>4. PvTyped
  BY <1>1, <1>3 DEF PvInit, PvTyped, PvStatuses
<1>5. PvLockIsHeld /\ PvAllHaveCome
  BY <1>2 DEF PvLockIsHeld, PvAllHaveCome, PvHolding, PvBusy
<1>6. PvInTurn /\ PvEffectsHold
  BY <1>3 DEF PvInit, PvInTurn, PvEffectsHold
<1>7. PvFinishedIsAll /\ PvCopiesAgree /\ PvIsAttended
  BY <1>2 DEF PvInit, PvFinishedIsAll, PvCopiesAgree, PvIsAttended, PvBusy, PvFinal, PvNone
<1> QED BY <1>4, <1>5, <1>6, <1>7 DEF PvInv

\* Every step of the job, of its callers and of its processes keeps the invariant.
LEMMA PvStepInv == PvInv /\ [PvNext]_pvVars => PvInv'
<1> SUFFICES ASSUME PvInv, [PvNext]_pvVars PROVE PvInv'
  OBVIOUS
<1>1. ASSUME NEW w \in PvWorkers, NEW preset \in PvPresets, NEW prepare \in BOOLEAN,
             PvPost(w, preset, prepare)
      PROVE  PvInv'
  BY <1>1, PvPostInv
<1>2. ASSUME NEW w \in PvWorkers, PvRunRequest(w) \/ PvLock(w) \/ PvStart(w)
      PROVE  PvInv'
  BY <1>2, PvRunRequestInv, PvLockInv, PvStartInv
<1>3. ASSUME NEW w \in PvWorkers, PvExecute(w) \/ PvRecord(w) \/ PvFail(w) \/ PvFinish(w)
      PROVE  PvInv'
  BY <1>3, PvExecuteInv, PvRecordInv, PvFailInv, PvFinishInv
<1>4. ASSUME NEW w \in PvWorkers, PvUnlock(w) \/ PvRequeue(w)
      PROVE  PvInv'
  BY <1>4, PvUnlockInv, PvRequeueInv
<1>5. ASSUME NEW w \in PvWorkers, PvCrash(w) \/ PvScan(w)
      PROVE  PvInv'
  BY <1>5, PvCrashInv, PvScanInv
<1>6. ASSUME UNCHANGED <<pvJob, pvSuccess, pvLock, pvWorker, pvOutside, pvSeen>>
      PROVE  PvInv'
  <2>1. /\ pvJob' = pvJob /\ pvSuccess' = pvSuccess /\ pvLock' = pvLock /\ pvWorker' = pvWorker
        /\ pvOutside' = pvOutside /\ pvSeen' = pvSeen
    BY <1>6
  <2>2. PvTyped' /\ PvLockIsHeld' /\ PvInTurn'
    BY <2>1 DEF PvInv, PvTyped, PvLockIsHeld, PvInTurn
  <2>3. PvAllHaveCome' /\ PvEffectsHold' /\ PvFinishedIsAll'
    BY <2>1 DEF PvInv, PvAllHaveCome, PvHasCome, PvEffectsHold, PvFinishedIsAll
  <2>4. PvCopiesAgree' /\ PvIsAttended'
    BY <2>1 DEF PvInv, PvCopiesAgree, PvIsAttended, PvCares
  <2> QED BY <2>2, <2>3, <2>4 DEF PvInv
<1> QED BY <1>1, <1>2, <1>3, <1>4, <1>5, <1>6 DEF PvNext, PvOthersMove, pvVars

\* The invariant is what is promised of the job.
LEMMA PvInvIsSafe == PvInv => ProvisioningSafe
<1> SUFFICES ASSUME PvInv PROVE ProvisioningSafe
  OBVIOUS
<1>1. PvTypeOK
  BY PvStepNames DEF PvInv, PvTyped, PvSights, PvInTurn, PvStatuses, PvTypeOK
<1>2. PvOneWorker
  BY DEF PvInv, PvLockIsHeld, PvHolding, PvBusy, PvOneWorker
<1>3. PvDeployedWasLicensed
  BY PvStepNames DEF PvInv, PvEffectsHold, PvFinishedIsAll, PvDeployedWasLicensed
<1>4. PvPresetApplied
  <2> SUFFICES ASSUME pvJob.status \in PvFinal, ~pvSeen.edited
               PROVE  pvOutside.entitled = {pvJob.preset} /\ pvOutside.desired = pvJob.preset
    BY DEF PvPresetApplied
  <2>1. pvOutside.entitled # {} /\ pvOutside.desired = pvJob.preset
    BY DEF PvInv, PvEffectsHold, PvFinishedIsAll
  <2>2. pvOutside.entitled \subseteq {pvJob.preset}
    BY DEF PvInv, PvCopiesAgree
  <2> QED BY <2>1, <2>2
<1>5. PvOrphanWasDeserted
  BY DEF PvInv, PvIsAttended, PvCares, PvAttending, PvBusy, PvOrphanWasDeserted, PvAt, PvTyped
<1> QED BY <1>1, <1>2, <1>3, <1>4, <1>5 DEF ProvisioningSafe, PvInv

\* A partner is provisioned by one worker at a time, each step after those before it, never
\* deployed without a licence, finished only when everything was done with the job's own
\* module preset, and an interrupted job is left alone only when some worker gave it up,
\* for any processes and presets, whatever crashes or is cut off and whichever writes fail.
THEOREM OneWorkerProvisions == PvSpec => []ProvisioningSafe
<1>1. PvSpec => []PvInv
  BY PvInitInv, PvStepInv, PTL DEF PvSpec
<1> QED BY <1>1, PvInvIsSafe, PTL
-----------------------------------------------------------------------------
(* The launch of an environment.                                            *)

LnOps == {"patch", "verify", "deploy", "recover", "health", "launch"}
LnStatuses == {"LIVE", "READY_FOR_LAUNCH", "OTHER"}
LnRows == [host : LnHosts, deployed : BOOLEAN, healthy : BOOLEAN, release : BOOLEAN,
           verified : BOOLEAN, status : LnStatuses]

\* A row opens no gate to a hostname that has not been checked.
LnGuards(row, checked) ==
    /\ row.status = "LIVE" => row.host \in checked
    /\ row.verified = TRUE => row.host \in checked

\* A request keeps what it needs of a row, which was LIVE only once the partner had been;
\* and it is about to write LIVE only after the partner.
LnWorking(r, wasLive) ==
    /\ r \in [op : LnOps, step : {r.step}, e : {r.e}, stale : BOOLEAN]
    /\ r.op \in {"patch", "verify"} => r.e.status \in LnStatuses
    /\ r.op = "patch" => /\ r.e.host \in LnHosts /\ r.e.deployed \in BOOLEAN
                         /\ r.e.release \in BOOLEAN /\ r.e.verified \in BOOLEAN
    /\ r.e.status = "LIVE" \/ r.step = "live" => wasLive = TRUE

\* A request whose row nobody has written since is right about what it will write back,
\* and has asked for the hostname that the row still has.
LnInformed(r, row, checked) ==
    /\ r.step = "read" /\ r.op \in {"patch", "verify"} => r.e.host = row.host /\ r.e.status = row.status
    /\ r.step = "read" /\ r.op = "patch" => r.e.verified = row.verified
    /\ r.e.status = "LIVE" \/ r.step = "live" => row.host \in checked
    /\ r.step \in {"testing", "gate"} => r.e.verified = row.verified

LnRequestsWork == \A q \in LnRequests : lnReq[q] # LnIdle => LnWorking(lnReq[q], lnWasLive)
LnFreshAreInformed ==
    lnOverlap = FALSE =>
       \A q \in LnRequests : lnReq[q] # LnIdle /\ lnReq[q].stale = FALSE => LnInformed(lnReq[q], lnRow, lnChecked)

LnInv ==
    /\ lnRow \in LnRows /\ lnPartner \in {"CONFIGURATION", "TESTING", "READY_FOR_LAUNCH", "LIVE", "SUSPENDED"}
    /\ lnWasLive \in BOOLEAN /\ lnOverlap \in BOOLEAN /\ DOMAIN lnReq = LnRequests
    /\ lnRow.status = "LIVE" \/ lnPartner \in {"LIVE", "SUSPENDED"} => lnWasLive = TRUE
    /\ lnOverlap = FALSE => LnGuards(lnRow, lnChecked)
    /\ LnRequestsWork
    /\ LnFreshAreInformed

\* What a request copies of the row is what the row holds.
LEMMA LnCopies ==
    ASSUME NEW op \in LnOps
    PROVE  /\ LnCopy(op).status = lnRow.status
           /\ op \in {"patch", "verify"} => LnCopy(op).host = lnRow.host
           /\ op = "patch" => /\ LnCopy(op).deployed = lnRow.deployed /\ LnCopy(op).release = lnRow.release
                              /\ LnCopy(op).verified = lnRow.verified
<1>1. "status" \in LnNeeds(op) /\ (op \in {"patch", "verify"} => "host" \in LnNeeds(op))
      /\ (op = "patch" => {"deployed", "release", "verified"} \subseteq LnNeeds(op))
  BY DEF LnNeeds, LnOps
<1> QED BY <1>1 DEF LnCopy

\* A request stays as good as it was when the partner goes on, and when it has fallen behind.
LEMMA LnWorkingStays ==
    ASSUME NEW r, NEW was, NEW is, LnWorking(r, was), was = TRUE => is = TRUE
    PROVE  LnWorking(r, is) /\ LnWorking([r EXCEPT !.stale = TRUE], is) /\ [r EXCEPT !.stale = TRUE].stale = TRUE
<1> DEFINE s == [r EXCEPT !.stale = TRUE]
<1>1. s \in [op : {r.op}, step : {r.step}, e : {r.e}, stale : {TRUE}]
  BY DEF LnWorking
<1> HIDE DEF s
<1>2. LnWorking(r, is)
  BY DEF LnWorking
<1>3. s.op = r.op /\ s.step = r.step /\ s.e = r.e /\ s.stale = TRUE
  BY <1>1
<1>4. LnWorking(s, is)
  BY <1>1, <1>2, <1>3 DEF LnWorking
<1> QED BY <1>2, <1>3, <1>4 DEF s

\* One request moves without writing the row, and perhaps the partner with it.
LEMMA LnMoving ==
    ASSUME LnInv, NEW q \in LnRequests, NEW r, lnReq' = [lnReq EXCEPT ![q] = r],
           r # LnIdle => LnWorking(r, lnWasLive'),
           r # LnIdle /\ r.stale = FALSE /\ lnOverlap = FALSE => LnInformed(r, lnRow, lnChecked),
           UNCHANGED <<lnRow, lnChecked, lnOverlap>>,
           lnPartner' \in {"CONFIGURATION", "TESTING", "READY_FOR_LAUNCH", "LIVE", "SUSPENDED"},
           lnWasLive' \in BOOLEAN, lnWasLive = TRUE => lnWasLive' = TRUE,
           lnPartner' \in {"LIVE", "SUSPENDED"} => lnWasLive' = TRUE
    PROVE  LnInv'
<1>1. \A p \in LnRequests : lnReq'[p] = IF p = q THEN r ELSE lnReq[p]
  BY DEF LnInv
<1>2. \A p \in LnRequests : lnReq[p] # LnIdle => LnWorking(lnReq[p], lnWasLive')
  BY LnWorkingStays DEF LnInv, LnRequestsWork
<1>3. LnRequestsWork'
  BY <1>1, <1>2 DEF LnRequestsWork
<1>4. LnFreshAreInformed'
  BY <1>1 DEF LnInv, LnFreshAreInformed
<1>5. DOMAIN lnReq' = LnRequests
  BY DEF LnInv
<1> QED BY <1>3, <1>4, <1>5 DEF LnInv

\* A request writes the row as it may, and goes on knowing what it has written.
LEMMA LnWriting ==
    ASSUME LnInv, NEW q \in LnRequests, lnReq[q] # LnIdle, NEW row \in LnRows, NEW next,
           LnWrite(q, row, next), lnPartner' = lnPartner, lnWasLive' = lnWasLive, lnChecked \subseteq lnChecked',
           row.status = "LIVE" => lnWasLive = TRUE,
           lnOverlap = FALSE /\ lnReq[q].stale = FALSE => LnGuards(row, lnChecked'),
           next # LnIdle => LnWorking(next, lnWasLive),
           next # LnIdle /\ lnOverlap = FALSE /\ lnReq[q].stale = FALSE => LnInformed(next, row, lnChecked')
    PROVE  LnInv'
<1>1. lnReq[q].stale \in BOOLEAN /\ lnOverlap \in BOOLEAN
  BY DEF LnInv, LnRequestsWork, LnWorking
<1>2. lnOverlap' \in BOOLEAN /\ (lnOverlap' = FALSE => lnOverlap = FALSE /\ lnReq[q].stale = FALSE)
  BY <1>1 DEF LnWrite
<1>3. /\ DOMAIN lnReq' = LnRequests /\ lnReq'[q] = next /\ lnRow' = row
      /\ \A p \in LnRequests \ {q} :
            \/ lnReq[p] # LnIdle /\ lnReq'[p] = [lnReq[p] EXCEPT !.stale = TRUE]
            \/ lnReq'[p] = lnReq[p] /\ (lnReq[p] # LnIdle => row = lnRow)
  BY DEF LnWrite
<1>4. LnRequestsWork'
  <2>1. ASSUME NEW p \in LnRequests \ {q}, lnReq'[p] # LnIdle PROVE LnWorking(lnReq'[p], lnWasLive)
    <3>1. lnReq[p] # LnIdle => LnWorking(lnReq[p], lnWasLive)
      BY DEF LnInv, LnRequestsWork
    <3>2. lnReq[p] # LnIdle => LnWorking([lnReq[p] EXCEPT !.stale = TRUE], lnWasLive)
      BY <3>1, LnWorkingStays
    <3> QED BY <1>3, <2>1, <3>1, <3>2
  <2> QED BY <1>3, <2>1 DEF LnRequestsWork
<1>5. LnFreshAreInformed'
  <2>1. ASSUME NEW p \in LnRequests \ {q}, lnReq'[p] # LnIdle, lnReq'[p].stale = FALSE, lnOverlap' = FALSE
        PROVE  LnInformed(lnReq'[p], row, lnChecked')
    <3>1. lnReq[p] # LnIdle => [lnReq[p] EXCEPT !.stale = TRUE].stale = TRUE
      BY LnWorkingStays DEF LnInv, LnRequestsWork
    <3>2. lnReq'[p] = lnReq[p] /\ row = lnRow
      BY <1>3, <2>1, <3>1
    <3>3. LnInformed(lnReq[p], lnRow, lnChecked)
      BY <1>2, <2>1, <3>2 DEF LnInv, LnFreshAreInformed
    <3> QED BY <3>2, <3>3 DEF LnInformed
  <2> QED BY <1>2, <1>3, <2>1 DEF LnFreshAreInformed
<1>6. lnOverlap' = FALSE => LnGuards(lnRow', lnChecked')
  BY <1>2, <1>3
<1> QED BY <1>2, <1>3, <1>4, <1>5, <1>6 DEF LnInv

\* What the invariant says of a request and of the row.
LEMMA LnHolds ==
    ASSUME LnInv, NEW q \in LnRequests, lnReq[q] # LnIdle
    PROVE  /\ lnRow \in LnRows /\ LnWorking(lnReq[q], lnWasLive)
           /\ lnRow.status = "LIVE" => lnWasLive = TRUE
           /\ lnOverlap = FALSE => LnGuards(lnRow, lnChecked)
           /\ lnOverlap = FALSE /\ lnReq[q].stale = FALSE => LnInformed(lnReq[q], lnRow, lnChecked)
BY DEF LnInv, LnRequestsWork, LnFreshAreInformed

\* A request that goes on to another place is still at work.
LEMMA LnGoing ==
    ASSUME NEW was, NEW q \in LnRequests, LnWorking(lnReq[q], was), NEW step, step = "live" => was = TRUE
    PROVE  /\ LnWorking(LnGoto(q, step), was) /\ LnGoto(q, step).step = step
           /\ LnGoto(q, step).e = lnReq[q].e
<1> DEFINE r == lnReq[q]
           s == LnGoto(q, step)
<1>1. s \in [op : {r.op}, step : {step}, e : {r.e}, stale : {r.stale}]
  BY DEF LnWorking, LnGoto
<1> HIDE DEF s
<1>2. s.step = step /\ s.e = r.e /\ s.stale = r.stale /\ s.op = r.op
  BY <1>1
<1>3. LnWorking(s, was)
  BY <1>1, <1>2 DEF LnWorking
<1> QED BY <1>2, <1>3 DEF s

\* What it then holds.
LEMMA LnGoneOn ==
    ASSUME NEW was, NEW q \in LnRequests, LnWorking(lnReq[q], was), NEW step
    PROVE  LnGoto(q, step) \in [op : {lnReq[q].op}, step : {step}, e : {lnReq[q].e}, stale : {lnReq[q].stale}]
BY DEF LnWorking, LnGoto

\* So is one that reads a row again.
LEMMA LnRereading ==
    ASSUME NEW was, NEW q \in LnRequests, LnWorking(lnReq[q], was), NEW step, step # "live",
           NEW row \in LnRows, row.status = "LIVE" => was = TRUE
    PROVE  LnWorking(LnReread(q, row, step), was)
<1> DEFINE s == LnReread(q, row, step)
<1>1. s \in [op : {lnReq[q].op}, step : {step}, e : {row}, stale : {FALSE}]
  BY DEF LnWorking, LnReread
<1> HIDE DEF s
<1>2. s.step = step /\ s.e = row /\ s.stale = FALSE /\ s.op = lnReq[q].op
  BY <1>1
<1>3. LnWorking(s, was)
  BY <1>1, <1>2 DEF LnWorking, LnRows
<1> QED BY <1>3 DEF s

\* What it then holds.
LEMMA LnReadAgain ==
    ASSUME NEW was, NEW q \in LnRequests, LnWorking(lnReq[q], was), NEW step, NEW row
    PROVE  LnReread(q, row, step) \in [op : {lnReq[q].op}, step : {step}, e : {row}, stale : {FALSE}]
BY DEF LnWorking, LnReread

\* A write that leaves the hostname and the verification alone, and LIVE where the row or the
\* copy of it had it, opens no gate.
LEMMA LnKeepsShut ==
    ASSUME LnInv, NEW q \in LnRequests, lnReq[q] # LnIdle, NEW row \in LnRows,
           row.host = lnRow.host, row.verified = lnRow.verified,
           row.status = "LIVE" => lnRow.status = "LIVE" \/ lnReq[q].e.status = "LIVE" \/ lnReq[q].step = "live"
    PROVE  /\ row.status = "LIVE" => lnWasLive = TRUE
           /\ lnOverlap = FALSE /\ lnReq[q].stale = FALSE => LnGuards(row, lnChecked)
BY LnHolds DEF LnWorking, LnGuards, LnInformed

\* A request begins with a copy of the row, or is dropped.
LEMMA LnBeginInv ==
    ASSUME LnInv, NEW q \in LnRequests, (\E op \in LnOps : LnBegin(q, op)) \/ LnDie(q)
    PROVE  LnInv'
<1>1. ASSUME NEW op \in LnOps, LnBegin(q, op) PROVE LnInv'
  <2> DEFINE r == [op |-> op, step |-> "read", e |-> LnCopy(op), stale |-> FALSE]
  <2>1. LnWorking(r, lnWasLive)
    BY LnCopies DEF LnWorking, LnInv, LnRows
  <2>2. lnOverlap = FALSE => LnInformed(r, lnRow, lnChecked)
    BY LnCopies DEF LnInformed, LnInv, LnGuards
  <2>3. lnReq' = [lnReq EXCEPT ![q] = r]
    BY <1>1 DEF LnBegin
  <2> HIDE DEF r
  <2> QED BY <1>1, <2>1, <2>2, <2>3, LnMoving DEF LnBegin, LnInv
<1>2. CASE LnDie(q)
  BY <1>2, LnMoving DEF LnDie, LnInv
<1> QED BY <1>1, <1>2

\* PATCH writes back what it has read, but a new hostname loses its verification.
LEMMA LnPatchInv ==
    ASSUME LnInv, NEW q \in LnRequests, NEW edit \in LnEdits, LnPatch(q, edit) PROVE LnInv'
<1> DEFINE e == lnReq[q].e
           row == LnEdited(e, edit)
<1>1. lnReq[q] # LnIdle /\ lnReq[q].op = "patch" /\ lnReq[q].step = "read"
  BY DEF LnPatch, LnAt
<1>2. /\ e.host \in LnHosts /\ e.status \in LnStatuses /\ e.deployed \in BOOLEAN
      /\ e.release \in BOOLEAN /\ e.verified \in BOOLEAN /\ (e.status = "LIVE" => lnWasLive = TRUE)
  BY <1>1, LnHolds DEF LnWorking
<1>3. ~("host" \in DOMAIN edit /\ edit.host # e.host /\ e.status = "LIVE")
  BY DEF LnPatch
<1>4. LnWrite(q, row, LnIdle)
  BY DEF LnPatch
<1>5. row \in LnRows
  <2> DEFINE set(c) == IF c \in DOMAIN edit THEN edit[c] ELSE e[c]
             status == IF "status" \in DOMAIN edit THEN edit.status
                       ELSE IF set("host") # e.host /\ e.status = "READY_FOR_LAUNCH" THEN "OTHER" ELSE e.status
             verified == e.verified /\ set("host") = e.host
  <2>1. set("host") \in LnHosts /\ set("deployed") \in BOOLEAN /\ set("release") \in BOOLEAN
    BY <1>2, LnAssumption
  <2>2. status \in LnStatuses
    BY <1>2, LnAssumption DEF LnStatuses
  <2>3. verified \in BOOLEAN /\ lnRow.healthy \in BOOLEAN
    BY <1>1, <1>2, LnHolds DEF LnRows
  <2>4. row = [host |-> set("host"), deployed |-> set("deployed"), release |-> set("release"),
               healthy |-> lnRow.healthy, verified |-> verified, status |-> status]
    BY DEF LnEdited
  <2> HIDE DEF set, status, verified
  <2> QED BY <2>1, <2>2, <2>3, <2>4 DEF LnRows
<1>6. row.status = "LIVE" => e.status = "LIVE" /\ row.host = e.host
  BY <1>3, LnAssumption DEF LnEdited
<1>7. row.verified = TRUE => e.verified = TRUE /\ row.host = e.host
  BY <1>2 DEF LnEdited
<1>8. lnOverlap = FALSE /\ lnReq[q].stale = FALSE => LnGuards(row, lnChecked)
  BY <1>1, <1>6, <1>7, LnHolds DEF LnGuards, LnInformed
<1> HIDE DEF row
<1> QED BY <1>1, <1>2, <1>4, <1>5, <1>6, <1>8, LnWriting DEF LnPatch

\* A verification notes the hostname it has read as checked, and its status.
LEMMA LnVerifyInv ==
    ASSUME LnInv, NEW q \in LnRequests, NEW ok \in BOOLEAN, LnVerify(q, ok) PROVE LnInv'
<1> DEFINE e == lnReq[q].e
           row == [lnRow EXCEPT !.verified = ok, !.status = e.status]
           next == IF row.status # "LIVE" /\ LnReady(row) THEN LnReread(q, row, "ready") ELSE LnIdle
<1>1. lnReq[q] # LnIdle /\ lnReq[q].op = "verify" /\ lnReq[q].step = "read"
  BY DEF LnVerify, LnAt
<1>2. e.status \in LnStatuses /\ LnWorking(lnReq[q], lnWasLive) /\ (e.status = "LIVE" => lnWasLive = TRUE)
  BY <1>1, LnHolds DEF LnWorking
<1>3. row \in LnRows /\ row.host = lnRow.host /\ row.status = e.status /\ row.verified = ok
  BY <1>1, <1>2, LnHolds DEF LnRows
<1>4. LnWrite(q, row, next)
  BY DEF LnVerify
<1>5. lnChecked' = (IF ok THEN lnChecked \cup {e.host} ELSE lnChecked)
  BY DEF LnVerify
<1> HIDE DEF row
<1>6. lnOverlap = FALSE /\ lnReq[q].stale = FALSE => LnGuards(row, lnChecked')
  BY <1>1, <1>3, <1>5, LnHolds DEF LnGuards, LnInformed
<1>7. next # LnIdle => /\ LnWorking(next, lnWasLive) /\ next.step = "ready" /\ next.e = row /\ row.status # "LIVE"
  <2>1. next # LnIdle => next = LnReread(q, row, "ready") /\ row.status # "LIVE"
    OBVIOUS
  <2> DEFINE again == LnReread(q, row, "ready")
  <2>2. row.status # "LIVE" => LnWorking(again, lnWasLive)
    BY <1>2, <1>3, LnRereading
  <2>3. again \in [op : {lnReq[q].op}, step : {"ready"}, e : {row}, stale : {FALSE}]
    BY <1>2, LnReadAgain
  <2> HIDE DEF again
  <2>4. again.step = "ready" /\ again.e = row
    BY <2>3
  <2> HIDE DEF next
  <2> QED BY <2>1, <2>2, <2>4 DEF again
<1>8. next # LnIdle => LnInformed(next, row, lnChecked')
  BY <1>7 DEF LnInformed
<1> HIDE DEF next
<1> QED BY <1>1, <1>2, <1>3, <1>4, <1>5, <1>6, <1>7, <1>8, LnWriting DEF LnVerify

\* What is done with a hostname that stays and a verification that stays opens no gate: the
\* request is over, or goes on with the row it has written, or with what it knew.
LEMMA LnWritingStatus ==
    ASSUME LnInv, NEW q \in LnRequests, lnReq[q] # LnIdle, NEW row \in LnRows, NEW next, NEW step,
           LnWrite(q, row, next), UNCHANGED <<lnPartner, lnChecked, lnWasLive>>, step # "live",
           row.host = lnRow.host, row.verified = lnRow.verified,
           row.status = "LIVE" => lnRow.status = "LIVE" \/ lnReq[q].e.status = "LIVE" \/ lnReq[q].step = "live",
           \/ next = LnIdle
           \/ next = LnReread(q, row, step)
           \/ next = LnGoto(q, step) /\ step = "called"
    PROVE  LnInv'
<1>1. /\ row.status = "LIVE" => lnWasLive = TRUE
      /\ lnOverlap = FALSE /\ lnReq[q].stale = FALSE => LnGuards(row, lnChecked)
  BY LnKeepsShut
<1>2. LnWorking(lnReq[q], lnWasLive)
  BY LnHolds
<1>3. next # LnIdle => LnWorking(next, lnWasLive)
  <2>1. LnWorking(LnReread(q, row, step), lnWasLive)
    BY <1>1, <1>2, LnRereading
  <2>2. LnWorking(LnGoto(q, step), lnWasLive)
    BY <1>2, LnGoing
  <2> QED BY <2>1, <2>2
<1>4. ASSUME next # LnIdle, lnOverlap = FALSE, lnReq[q].stale = FALSE PROVE LnInformed(next, row, lnChecked)
  <2>1. CASE next = LnReread(q, row, step)
    <3>1. next \in [op : {lnReq[q].op}, step : {step}, e : {row}, stale : {FALSE}]
      BY <1>2, <2>1, LnReadAgain
    <3>2. next.step = step /\ next.e = row
      BY <3>1
    <3> QED BY <1>1, <1>4, <3>2 DEF LnInformed, LnGuards
  <2>2. CASE next = LnGoto(q, step) /\ step = "called"
    <3>1. next.step = "called" /\ next.e = lnReq[q].e
      BY <1>2, <2>2, LnGoing
    <3>2. LnInformed(lnReq[q], lnRow, lnChecked)
      BY <1>4, LnHolds
    <3> QED BY <3>1, <3>2 DEF LnInformed
  <2> QED BY <1>4, <2>1, <2>2
<1> QED BY <1>1, <1>3, <1>4, LnWriting

\* A deployment that is finalized keeps LIVE only if the row was LIVE when it was read.
LEMMA LnFinalizeInv ==
    ASSUME LnInv, NEW q \in LnRequests, lnReq[q] # LnIdle, LnFinalize(q),
           UNCHANGED <<lnPartner, lnChecked, lnWasLive>>
    PROVE  LnInv'
<1> DEFINE live == lnReq[q].e.status = "LIVE"
           row == [lnRow EXCEPT !.deployed = TRUE, !.release = TRUE, !.healthy = TRUE,
                                !.status = IF live THEN "LIVE" ELSE "OTHER"]
           next == IF live THEN LnDone(q, row) ELSE LnReread(q, row, "testing")
<1>1. row \in LnRows /\ row.host = lnRow.host /\ row.verified = lnRow.verified
      /\ (row.status = "LIVE" => lnReq[q].e.status = "LIVE")
  BY LnHolds DEF LnRows, LnStatuses
<1>2. LnWrite(q, row, next)
  BY DEF LnFinalize
<1>3. next = LnIdle \/ next = LnReread(q, row, "gate") \/ next = LnReread(q, row, "testing")
  BY DEF LnDone
<1> HIDE DEF row, next
<1> QED BY <1>1, <1>2, <1>3, LnWritingStatus

\* The rows that a request may write without a look at the hostname: LIVE stays only where
\* the row has it, or had it when it was read, or the gate has been passed.
LnStatusRows(q) ==
    {row \in LnRows : /\ row.host = lnRow.host /\ row.verified = lnRow.verified
                      /\ row.status = "LIVE" => \/ lnRow.status = "LIVE" \/ lnReq[q].e.status = "LIVE"
                                                \/ lnReq[q].step = "live"}

\* The steps that write such a row.
LEMMA LnStatusRowInv ==
    ASSUME LnInv, NEW q \in LnRequests, lnReq[q] # LnIdle, UNCHANGED <<lnPartner, lnChecked, lnWasLive>>,
           NEW row \in LnStatusRows(q), NEW next \in {LnIdle, LnDone(q, row), LnGoto(q, "called")},
           LnWrite(q, row, next)
    PROVE  LnInv'
<1>1. next = LnIdle \/ next = LnReread(q, row, "gate") \/ next = LnGoto(q, "called")
  BY DEF LnDone
<1>2. row \in LnRows /\ row.host = lnRow.host /\ row.verified = lnRow.verified
      /\ (row.status = "LIVE" => lnRow.status = "LIVE" \/ lnReq[q].e.status = "LIVE" \/ lnReq[q].step = "live")
  BY DEF LnStatusRows
<1>3. CASE next = LnGoto(q, "called")
  BY <1>2, <1>3, LnWritingStatus
<1>4. CASE next = LnIdle \/ next = LnReread(q, row, "gate")
  BY <1>2, <1>4, LnWritingStatus
<1> QED BY <1>1, <1>3, <1>4

\* A deployment is begun and answered, or a recovery reuses what is deployed.
LEMMA LnDeployInv ==
    ASSUME LnInv, NEW q \in LnRequests,
           \/ LnDeploy(q) \/ LnRecoverReuse(q)
           \/ \E answer \in {"READY", "DEPLOYING", "ERROR"} : LnDeployAnswer(q, answer)
    PROVE  LnInv'
<1> DEFINE down == [lnRow EXCEPT !.deployed = FALSE, !.healthy = FALSE, !.status = LnStatusOf(q)]
           up == [lnRow EXCEPT !.deployed = TRUE, !.status = "OTHER", !.release = TRUE, !.healthy = TRUE]
           off == [lnRow EXCEPT !.status = "OTHER"]
<1>1. lnReq[q] # LnIdle /\ UNCHANGED <<lnPartner, lnChecked, lnWasLive>>
  BY DEF LnDeploy, LnRecoverReuse, LnDeployAnswer, LnAt
<1>2. down \in LnStatusRows(q) /\ up \in LnStatusRows(q) /\ off \in LnStatusRows(q)
  <2>1. lnRow \in LnRows
    BY DEF LnInv
  <2>2. LnStatusOf(q) = "OTHER" \/ (LnStatusOf(q) = "LIVE" /\ lnReq[q].e.status = "LIVE")
    BY DEF LnStatusOf
  <2>3. down \in LnStatusRows(q)
    BY <2>1, <2>2 DEF LnStatusRows, LnRows, LnStatuses
  <2> QED BY <2>1, <2>3 DEF LnStatusRows, LnRows, LnStatuses
<1>3. \/ LnFinalize(q)
      \/ LnWrite(q, down, LnGoto(q, "called")) \/ LnWrite(q, down, LnIdle)
      \/ LnWrite(q, up, LnIdle) \/ LnWrite(q, off, LnIdle)
  <2>1. ASSUME NEW answer \in {"READY", "DEPLOYING", "ERROR"}, LnDeployAnswer(q, answer)
        PROVE  LnFinalize(q) \/ LnWrite(q, up, LnIdle) \/ LnWrite(q, down, LnIdle)
    <3>1. lnReq[q].op \in {"deploy", "recover"}
      BY <2>1 DEF LnDeployAnswer, LnAt
    <3>2. CASE answer = "READY"
      BY <2>1, <3>1, <3>2 DEF LnDeployAnswer
    <3>3. CASE answer = "DEPLOYING"
      BY <2>1, <3>3 DEF LnDeployAnswer
    <3>4. CASE answer = "ERROR"
      BY <2>1, <3>4 DEF LnDeployAnswer
    <3> QED BY <3>2, <3>3, <3>4
  <2>2. LnDeploy(q) => LnWrite(q, down, LnGoto(q, "called"))
    BY DEF LnDeploy
  <2>3. LnRecoverReuse(q) => LnWrite(q, up, LnIdle) \/ LnWrite(q, off, LnIdle)
    BY DEF LnRecoverReuse
  <2> QED BY <2>1, <2>2, <2>3
<1> HIDE DEF down, up, off
<1> QED BY <1>1, <1>2, <1>3, LnFinalizeInv, LnStatusRowInv

\* A health check, alone or in a launch, finds the runtime as it is.
LEMMA LnProbeInv ==
    ASSUME LnInv, NEW q \in LnRequests, NEW answer \in {"READY", "DEPLOYING", "ERROR", "UNEXPECTED"},
           LnProbe(q, answer)
    PROVE  LnInv'
<1> DEFINE well == [lnRow EXCEPT !.healthy = TRUE]
           ill == [lnRow EXCEPT !.healthy = FALSE]
           down == [lnRow EXCEPT !.deployed = FALSE, !.healthy = FALSE]
<1>1. lnReq[q] # LnIdle /\ UNCHANGED <<lnPartner, lnChecked, lnWasLive>>
  BY DEF LnProbe, LnAt
<1>2. well \in LnStatusRows(q) /\ ill \in LnStatusRows(q) /\ down \in LnStatusRows(q)
  <2>1. lnRow \in LnRows
    BY DEF LnInv
  <2> QED BY <2>1 DEF LnStatusRows, LnRows
<1>3. \/ LnFinalize(q)
      \/ LnWrite(q, well, LnDone(q, well)) \/ LnWrite(q, down, LnDone(q, down))
      \/ LnWrite(q, ill, LnIdle) \/ LnWrite(q, down, LnIdle)
  BY DEF LnProbe
<1> HIDE DEF well, ill, down
<1> QED BY <1>1, <1>2, <1>3, LnFinalizeInv, LnStatusRowInv

\* The environment is marked ready, or LIVE behind the gate.
LEMMA LnMarkInv == ASSUME LnInv, NEW q \in LnRequests, LnMark(q) \/ LnGoLive(q) PROVE LnInv'
<1> DEFINE ready == [lnRow EXCEPT !.status = "READY_FOR_LAUNCH"]
           live == [lnRow EXCEPT !.status = "LIVE"]
<1>1. lnReq[q] # LnIdle /\ UNCHANGED <<lnPartner, lnChecked, lnWasLive>>
  BY DEF LnMark, LnGoLive, LnAt
<1>2. ready \in LnStatusRows(q) /\ (LnGoLive(q) => live \in LnStatusRows(q))
  <2>1. lnRow \in LnRows
    BY DEF LnInv
  <2>2. LnGoLive(q) => lnReq[q].step = "live"
    BY DEF LnGoLive, LnAt
  <2> QED BY <2>1, <2>2 DEF LnStatusRows, LnRows, LnStatuses
<1>3. LnWrite(q, ready, LnDone(q, ready)) \/ (LnGoLive(q) /\ LnWrite(q, live, LnIdle))
  BY DEF LnMark, LnGoLive
<1> HIDE DEF ready, live
<1> QED BY <1>1, <1>2, <1>3, LnStatusRowInv

\* The partner is moved on, and the request with it if it succeeds: behind the gate only
\* with the partner LIVE and a row, unchanged since, of a verified hostname.
LEMMA LnTransitionInv ==
    ASSUME LnInv, NEW q \in LnRequests, lnReq[q] # LnIdle, NEW target \in {"TESTING", "READY_FOR_LAUNCH", "LIVE"},
           NEW step \in {"ready", "mark", "gate", "live"},
           NEW next \in {LnIdle, LnGoto(q, step)}, LnTransition(q, target, next),
           step = "gate" => lnReq[q].step = "testing",
           step = "live" => target = "LIVE" /\ lnReq[q].step = "gate" /\ lnReq[q].e.verified = TRUE
    PROVE  LnInv'
<1>1. /\ lnWasLive \in BOOLEAN /\ lnPartner \in {"CONFIGURATION", "TESTING", "READY_FOR_LAUNCH", "LIVE", "SUSPENDED"}
      /\ lnPartner \in {"LIVE", "SUSPENDED"} => lnWasLive = TRUE
  BY DEF LnInv
<1>2. /\ UNCHANGED <<lnRow, lnChecked, lnOverlap>> /\ lnWasLive' = (lnWasLive \/ lnPartner' = "LIVE")
      /\ lnPartner' \in {lnPartner, target}
      /\ \/ lnReq' = [lnReq EXCEPT ![q] = LnIdle]
         \/ lnReq' = [lnReq EXCEPT ![q] = next] /\ (target = "LIVE" => lnPartner' = "LIVE")
  BY DEF LnTransition, LnPast, LnFrom
<1>3. /\ lnWasLive' \in BOOLEAN /\ (lnWasLive = TRUE => lnWasLive' = TRUE)
      /\ lnPartner' \in {"CONFIGURATION", "TESTING", "READY_FOR_LAUNCH", "LIVE", "SUSPENDED"}
      /\ lnPartner' \in {"LIVE", "SUSPENDED"} => lnWasLive' = TRUE
  BY <1>1, <1>2
<1>4. CASE lnReq' = [lnReq EXCEPT ![q] = LnIdle]
  BY <1>2, <1>3, <1>4, LnMoving
<1>5. CASE lnReq' = [lnReq EXCEPT ![q] = LnGoto(q, step)] /\ (target = "LIVE" => lnPartner' = "LIVE")
  <2> DEFINE r == LnGoto(q, step)
  <2>1. LnWorking(lnReq[q], lnWasLive') /\ (step = "live" => lnWasLive' = TRUE)
    BY <1>3, <1>5, LnHolds, LnWorkingStays
  <2>2. LnWorking(r, lnWasLive')
    BY <2>1, LnGoing
  <2>3. lnOverlap = FALSE /\ lnReq[q].stale = FALSE =>
           LnInformed(lnReq[q], lnRow, lnChecked) /\ LnGuards(lnRow, lnChecked)
    BY LnHolds
  <2>4. r \in [op : {lnReq[q].op}, step : {step}, e : {lnReq[q].e}, stale : {lnReq[q].stale}]
    BY <2>1, LnGoneOn
  <2> HIDE DEF r
  <2>5. r.step = step /\ r.e = lnReq[q].e /\ r.stale = lnReq[q].stale
    BY <2>4
  <2>6. lnOverlap = FALSE /\ r.stale = FALSE => LnInformed(r, lnRow, lnChecked)
    BY <2>3, <2>5 DEF LnInformed, LnGuards
  <2> QED BY <1>2, <1>3, <1>5, <2>2, <2>6, LnMoving DEF r
<1> QED BY <1>2, <1>4, <1>5

\* The three transitions of a request.
LEMMA LnTransitionsInv ==
    ASSUME LnInv, NEW q \in LnRequests, LnToTesting(q) \/ LnToReady(q) \/ LnGate(q) PROVE LnInv'
<1>1. CASE LnToTesting(q)
  <2> DEFINE next == IF LnReady(lnReq[q].e) THEN LnGoto(q, "ready")
                     ELSE IF lnReq[q].op = "launch" THEN LnGoto(q, "gate") ELSE LnIdle
  <2>1. /\ lnReq[q] # LnIdle /\ lnReq[q].step = "testing" /\ LnTransition(q, "TESTING", next)
        /\ next = LnGoto(q, "ready") \/ next \in {LnIdle, LnGoto(q, "gate")}
    BY <1>1 DEF LnToTesting
  <2> HIDE DEF next
  <2> QED BY <2>1, LnTransitionInv
<1>2. CASE LnToReady(q)
  BY <1>2, LnTransitionInv DEF LnToReady
<1>3. CASE LnGate(q)
  <2>1. lnReq[q].e.verified = TRUE
    BY <1>3 DEF LnGate, LnReady
  <2> QED BY <1>3, <2>1, LnTransitionInv DEF LnGate, LnAt
<1> QED BY <1>1, <1>2, <1>3

\* Every step keeps the invariant of the launch.
LEMMA LnStepInv == LnInv /\ [LnNext]_lnVars => LnInv'
<1> SUFFICES ASSUME LnInv, [LnNext]_lnVars PROVE LnInv'
  OBVIOUS
<1>1. CASE UNCHANGED lnVars
  BY <1>1 DEF LnInv, LnRequestsWork, LnFreshAreInformed, LnInformed, LnWorking, LnGuards, lnVars
<1>2. CASE LnPartnerMoves
  BY <1>2 DEF LnPartnerMoves, LnInv, LnRequestsWork, LnFreshAreInformed, LnInformed, LnWorking, LnGuards
<1>3. ASSUME NEW q \in LnRequests,
             \/ \E op \in {"patch", "verify", "deploy", "recover", "health", "launch"} : LnBegin(q, op)
             \/ LnDie(q)
             \/ \E edit \in LnEdits : LnPatch(q, edit)
             \/ \E ok \in BOOLEAN : LnVerify(q, ok)
      PROVE  LnInv'
  BY <1>3, LnBeginInv, LnPatchInv, LnVerifyInv DEF LnOps
<1>4. ASSUME NEW q \in LnRequests,
             \/ LnToTesting(q) \/ LnToReady(q) \/ LnMark(q)
             \/ LnDeploy(q) \/ LnRecoverReuse(q)
             \/ \E answer \in {"READY", "DEPLOYING", "ERROR"} : LnDeployAnswer(q, answer)
             \/ \E answer \in {"READY", "DEPLOYING", "ERROR", "UNEXPECTED"} : LnProbe(q, answer)
             \/ LnGate(q) \/ LnGoLive(q)
      PROVE  LnInv'
  BY <1>4, LnTransitionsInv, LnMarkInv, LnDeployInv, LnProbeInv
<1> QED BY <1>1, <1>2, <1>3, <1>4 DEF LnNext

\* An environment is LIVE only behind its partner, and only under a hostname that has passed
\* DNS and TLS unless a request wrote over a row it had not seen (launchEnvironment,
\* main.go:570): for any number of requests that overlap and die at any statement.
THEOREM LiveIsEarned == LnSpec => []LaunchSafe
<1>1. LnInit => LnInv
  <2> SUFFICES ASSUME LnInit PROVE LnInv
    OBVIOUS
  <2>1. lnRow \in LnRows /\ LnGuards(lnRow, lnChecked) /\ lnRow.status = "OTHER"
    BY LnAssumption DEF LnInit, LnRows, LnStatuses, LnGuards
  <2>2. DOMAIN lnReq = LnRequests /\ \A q \in LnRequests : lnReq[q] = LnIdle
    BY DEF LnInit
  <2>3. lnPartner = "CONFIGURATION" /\ lnWasLive = FALSE /\ lnOverlap = FALSE
    BY DEF LnInit
  <2> QED BY <2>1, <2>2, <2>3 DEF LnInv, LnRequestsWork, LnFreshAreInformed
<1>2. LnInv => LaunchSafe
  BY DEF LnInv, LnRows, LnStatuses, LnGuards, LaunchSafe, LnTypeOK, LnLiveFollowsPartner, LnGateHoldsInOrder
<1> QED BY <1>1, <1>2, LnStepInv, PTL DEF LnSpec
-----------------------------------------------------------------------------
\* The rows of the page workflow and what a request carries from its read to its commit.
CmsSeens == [draft : Nat, published : [CmsPageIds -> Nat]]
CmsRows == [state : {"DRAFT", "PREVIEW", "PUBLISHED"}, content : CmsContents, source : Nat,
            rollback : BOOLEAN, saw : {<<>>} \cup CmsSeens]
CmsReads == [op : {"preview", "publish", "rollback"}, page : CmsPageIds, source : Nat, saw : {<<>>} \cup CmsSeens]

CmsTypes ==
    /\ cmsVersion \in [CmsPageIds -> Seq(CmsRows)]
    /\ cmsPage \in [CmsPageIds -> [draft : Nat, preview : Nat, published : Nat]]
    /\ cmsRefs = [pg \in CmsPageIds |-> cmsRefs[pg]]
    /\ cmsMedia \in [CmsMediaIds -> {"none", "stored", "row"}]
    /\ cmsReq \in [CmsCallers -> {CmsIdle} \cup CmsReads]

\* Version v of the page is there, in that state.
CmsIs(pg, v, state) == v \in 1..Len(cmsVersion[pg]) /\ cmsVersion[pg][v].state = state
CmsPointers ==
    \A pg \in CmsPageIds :
        /\ cmsPage[pg].draft # 0 => CmsIs(pg, cmsPage[pg].draft, "DRAFT")
        /\ cmsPage[pg].preview # 0 => CmsIs(pg, cmsPage[pg].preview, "PREVIEW")
        /\ cmsPage[pg].published # 0 => CmsIs(pg, cmsPage[pg].published, "PUBLISHED")

\* The content was valid and met no published page when "saw" was read.
CmsCleared(pg, content, saw) ==
    /\ content.ok = TRUE /\ \A m \in content.media : cmsMedia[m] = "row"
    /\ saw \in CmsSeens
    /\ \A q \in CmsPageIds \ {pg} : saw.published[q] # 0 =>
          /\ saw.published[q] \in 1..Len(cmsVersion[q])
          /\ cmsVersion[q][saw.published[q]].content.slug # content.slug

\* A version repeats its source, which is older, and was cleared to be published.
CmsRepeats(pg, v, state) ==
    LET row == cmsVersion[pg][v] IN
    /\ row.source \in 1..(v - 1) /\ cmsVersion[pg][row.source].state = state
    /\ cmsVersion[pg][row.source].content = row.content
CmsVersionOk(pg, v) ==
    LET row == cmsVersion[pg][v] IN
    /\ row.state = "PREVIEW" => CmsRepeats(pg, v, "DRAFT")
    /\ row.state = "PUBLISHED" =>
          /\ CmsCleared(pg, row.content, row.saw)
          /\ row.rollback = TRUE => CmsRepeats(pg, v, "PUBLISHED")
          /\ row.rollback = FALSE => CmsRepeats(pg, v, "PREVIEW") /\ cmsVersion[pg][row.source].source = row.saw.draft

\* What a request may rely on when it commits: versions never change.
CmsRequestOk(r) ==
    /\ r.op = "preview" => CmsIs(r.page, r.source, "DRAFT")
    /\ r.op = "publish" => /\ CmsIs(r.page, r.source, "PREVIEW")
                           /\ CmsCleared(r.page, cmsVersion[r.page][r.source].content, r.saw)
                           /\ cmsVersion[r.page][r.source].source = r.saw.draft
    /\ r.op = "rollback" => /\ CmsIs(r.page, r.source, "PUBLISHED")
                            /\ CmsCleared(r.page, cmsVersion[r.page][r.source].content, r.saw)

\* The references of a page are those of the version that is online.
CmsRefsOf(v, media) == IF v = 0 THEN {} ELSE {[version |-> v, media |-> m] : m \in media}
CmsRefsFollow ==
    \A pg \in CmsPageIds :
        cmsRefs[pg] = CmsRefsOf(cmsPage[pg].published, cmsVersion[pg][cmsPage[pg].published].content.media)

CmsInv ==
    /\ CmsTypes /\ CmsPointers /\ CmsRefsFollow
    /\ \A pg \in CmsPageIds : \A v \in 1..Len(cmsVersion[pg]) : CmsVersionOk(pg, v)
    /\ \A c \in CmsCallers : CmsRequestOk(cmsReq[c])

\* The settings: until the row exists everybody has read the defaults.
SiteFirst == [draft |-> SiteDefault, published |-> SiteDefault, version |-> 0]
SiteInv ==
    /\ SiteKeepsDraftAndLive
    /\ DOMAIN siteRow = {"draft", "published", "version"}
    /\ siteRow = [draft |-> siteRow.draft, published |-> siteRow.published, version |-> siteRow.version]
    /\ siteExists \in BOOLEAN
    /\ siteReq = [e \in SiteEditors |-> siteReq[e]]
    /\ \A e \in SiteEditors : siteReq[e].op \in {"draft", "preview", "publish"} =>
          /\ siteReq[e].row = [draft |-> siteReq[e].row.draft, published |-> siteReq[e].row.published,
                               version |-> siteReq[e].row.version]
          /\ siteExists = FALSE => siteReq[e].row = SiteFirst
    /\ siteExists = FALSE => siteRow = SiteFirst

\* The branding: what is public, or about to be, is the partner's own.
BrandTables ==
    /\ brandOwner = [m \in BrandMedia |-> brandOwner[m]]
    /\ brandUpload = [p \in BrandPartners |-> brandUpload[p]]
    /\ brandTheme = [t \in BrandProfiles |-> brandTheme[t]]
    /\ brandActive = [p \in BrandPartners |-> brandActive[p]]
    /\ brandLogo = [p \in BrandPartners |-> brandLogo[p]]
    /\ brandIcons = [p \in BrandPartners |-> brandIcons[p]]
BrandHas(p, media) == media \subseteq BrandMedia /\ \A m \in media : BrandOwns(p, m)
BrandUploadsOwn == \A p \in BrandPartners : brandUpload[p] # "none" => BrandHas(p, {brandUpload[p]})
BrandLogosOwn == \A p \in BrandPartners : BrandHas(p, brandLogo[p])
BrandIconsOwn == \A p \in BrandPartners : BrandHas(p, brandIcons[p])
BrandThemesOwn ==
    \A t \in BrandProfiles :
        /\ brandTheme[t].assets \subseteq BrandMedia
        /\ brandTheme[t].owner \in BrandPartners => BrandHas(brandTheme[t].owner, brandTheme[t].assets)
BrandActiveOwn ==
    \A p \in BrandPartners : brandActive[p] # BrandCatalog =>
        brandActive[p] \in BrandProfiles /\ brandTheme[brandActive[p]].owner = p
BrandInv == BrandTables /\ BrandUploadsOwn /\ BrandLogosOwn /\ BrandIconsOwn /\ BrandThemesOwn /\ BrandActiveOwn

\* A statement on the settings row goes from what its request has read.
LEMMA SiteUpsertInv ==
    ASSUME SiteInv, NEW e \in SiteEditors, siteReq[e].op \in {"draft", "preview", "publish"},
           NEW insert, NEW update, SiteUpsert(e, insert, update),
           IF siteExists THEN update.draft = siteSaved' /\ update.published = siteLive'
           ELSE insert.draft = siteSaved' /\ insert.published = siteLive',
           insert = [draft |-> insert.draft, published |-> insert.published, version |-> insert.version],
           update = [draft |-> update.draft, published |-> update.published, version |-> update.version]
    PROVE  SiteInv'
<1> DEFINE new == IF siteExists THEN update ELSE insert
<1>1. /\ siteReq' = [siteReq EXCEPT ![e] = SiteIdle] /\ siteExists' = TRUE /\ siteRow' = new
      /\ siteReq = [d \in SiteEditors |-> siteReq[d]]
  BY DEF SiteUpsert, SiteInv
<1>2. /\ new.draft = siteSaved' /\ new.published = siteLive'
      /\ new = [draft |-> new.draft, published |-> new.published, version |-> new.version]
  OBVIOUS
<1> HIDE DEF new
<1>3. DOMAIN new = {"draft", "published", "version"}
  BY <1>2
<1>4. siteReq' = [d \in SiteEditors |-> siteReq'[d]]
  BY <1>1
<1>5. \A d \in SiteEditors : siteReq'[d] = IF d = e THEN SiteIdle ELSE siteReq[d]
  BY <1>1
<1>6. \A d \in SiteEditors : siteReq'[d].op \in {"draft", "preview", "publish"} =>
        siteReq'[d].row = [draft |-> siteReq'[d].row.draft, published |-> siteReq'[d].row.published,
                           version |-> siteReq'[d].row.version]
  BY <1>5 DEF SiteInv, SiteIdle
<1> QED BY <1>1, <1>2, <1>3, <1>4, <1>6 DEF SiteInv, SiteKeepsDraftAndLive

\* Every step keeps draft and live apart.
LEMMA SiteStepInv == SiteInv /\ [SiteNext]_siteVars => SiteInv'
<1> SUFFICES ASSUME SiteInv, [SiteNext]_siteVars PROVE SiteInv'
  OBVIOUS
<1> USE DEF SiteKeepsDraftAndLive
<1>1. ASSUME NEW e \in SiteEditors, NEW op \in {"draft", "preview", "publish"}, NEW value, SiteRead(e, op, value)
      PROVE  SiteInv'
  <2>1. /\ siteReq' = [siteReq EXCEPT ![e] = [op |-> op, value |-> value, row |-> siteRow]]
        /\ UNCHANGED <<siteRow, siteExists, siteSaved, siteLive>>
        /\ siteReq = [d \in SiteEditors |-> siteReq[d]]
    BY <1>1 DEF SiteRead, SiteInv
  <2>2. /\ siteReq' = [d \in SiteEditors |-> siteReq'[d]]
        /\ \A d \in SiteEditors : d # e => siteReq'[d] = siteReq[d]
        /\ siteReq'[e].row = siteRow
    BY <2>1
  <2> QED BY <2>1, <2>2 DEF SiteInv, SiteFirst
<1>2. ASSUME NEW e \in SiteEditors, SiteSaveDraft(e) PROVE SiteInv'
  <2> DEFINE read == siteReq[e].row
  <2> DEFINE value == siteReq[e].value
  <2> DEFINE insert == [read EXCEPT !.draft = value]
  <2> DEFINE update == [siteRow EXCEPT !.draft = value]
  <2>1. siteReq[e].op = "draft" /\ SiteUpsert(e, insert, update) /\ siteSaved' = value /\ siteLive' = siteLive
    BY <1>2 DEF SiteSaveDraft
  <2>2. /\ siteRow = [draft |-> siteRow.draft, published |-> siteRow.published, version |-> siteRow.version]
        /\ read = [draft |-> read.draft, published |-> read.published, version |-> read.version]
        /\ siteRow.published = siteLive /\ siteExists \in BOOLEAN
        /\ siteExists = FALSE => read = siteRow
    BY <2>1 DEF SiteInv
  <2>3. /\ insert.draft = value /\ insert.published = read.published /\ insert.version = read.version
        /\ insert = [draft |-> insert.draft, published |-> insert.published, version |-> insert.version]
    <3> HIDE DEF read, value
    <3> QED BY <2>2
  <2>4. /\ update.draft = value /\ update.published = siteRow.published /\ update.version = siteRow.version
        /\ update = [draft |-> update.draft, published |-> update.published, version |-> update.version]
    <3> HIDE DEF read, value
    <3> QED BY <2>2
  <2> HIDE DEF insert, update, read, value
  <2>5. siteExists = FALSE => insert.published = siteLive
    BY <2>2, <2>3
  <2> QED BY <2>1, <2>2, <2>3, <2>4, <2>5, SiteUpsertInv
<1>3. ASSUME NEW e \in SiteEditors, SitePreview(e) PROVE SiteInv'
  <2>1. /\ siteReq[e].op = "preview" /\ SiteUpsert(e, siteReq[e].row, siteRow)
        /\ siteSaved' = siteSaved /\ siteLive' = siteLive
    BY <1>3 DEF SitePreview
  <2>2. siteExists \in BOOLEAN /\ (siteExists = FALSE => siteReq[e].row = siteRow)
    BY <2>1 DEF SiteInv
  <2>3. /\ siteRow = [draft |-> siteRow.draft, published |-> siteRow.published, version |-> siteRow.version]
        /\ siteReq[e].row = [draft |-> siteReq[e].row.draft, published |-> siteReq[e].row.published,
                             version |-> siteReq[e].row.version]
        /\ siteRow.draft = siteSaved /\ siteRow.published = siteLive
    BY <2>1 DEF SiteInv
  <2> QED BY <2>1, <2>2, <2>3, SiteUpsertInv
<1>4. ASSUME NEW e \in SiteEditors, SitePublish(e) PROVE SiteInv'
  <2> DEFINE read == siteReq[e].row
  <2> DEFINE insert == [draft |-> read.draft, published |-> read.draft, version |-> read.version + 1]
  <2> DEFINE update == [siteRow EXCEPT !.published = read.draft, !.version = read.version + 1]
  <2>1. siteReq[e].op = "publish" /\ SiteUpsert(e, insert, update) /\ siteSaved' = siteSaved /\ siteLive' = read.draft
    BY <1>4 DEF SitePublish
  <2>2. /\ siteRow = [draft |-> siteRow.draft, published |-> siteRow.published, version |-> siteRow.version]
        /\ siteRow.draft = siteSaved /\ siteExists \in BOOLEAN
        /\ siteExists = FALSE => read = siteRow
    BY <2>1 DEF SiteInv
  <2>3. /\ insert.draft = read.draft /\ insert.published = read.draft
        /\ insert = [draft |-> insert.draft, published |-> insert.published, version |-> insert.version]
    OBVIOUS
  <2>4. /\ update.draft = siteRow.draft /\ update.published = read.draft
        /\ update = [draft |-> update.draft, published |-> update.published, version |-> update.version]
    <3> DEFINE n == read.version + 1
    <3> DEFINE d == read.draft
    <3>1. update = [siteRow EXCEPT !.published = d, !.version = n]
      OBVIOUS
    <3> HIDE DEF update, n, read
    <3>2. update = [draft |-> siteRow.draft, published |-> d, version |-> n]
      BY <2>2, <3>1
    <3> QED BY <3>2
  <2> HIDE DEF insert, update
  <2> QED BY <2>1, <2>2, <2>3, <2>4, SiteUpsertInv
<1>5. ASSUME NEW e \in SiteEditors, SiteAbandon(e) PROVE SiteInv'
  <2>1. /\ siteReq' = [siteReq EXCEPT ![e] = SiteIdle]
        /\ UNCHANGED <<siteRow, siteExists, siteSaved, siteLive>>
        /\ siteReq = [d \in SiteEditors |-> siteReq[d]]
    BY <1>5 DEF SiteAbandon, SiteInv
  <2>2. /\ siteReq' = [d \in SiteEditors |-> siteReq'[d]]
        /\ \A d \in SiteEditors : siteReq'[d] = IF d = e THEN SiteIdle ELSE siteReq[d]
    BY <2>1
  <2> QED BY <2>1, <2>2 DEF SiteInv, SiteFirst, SiteIdle
<1>6. CASE UNCHANGED siteVars
  BY <1>6 DEF siteVars, SiteInv, SiteFirst
<1> QED BY <1>1, <1>2, <1>3, <1>4, <1>5, <1>6 DEF SiteNext

\* What a partner has it keeps, whatever is uploaded.
LEMMA BrandKeeps ==
    ASSUME BrandTables, NEW p \in BrandPartners, NEW m \in BrandMedia, brandOwner[m] = "none",
           brandOwner' = [brandOwner EXCEPT ![m] = p]
    PROVE  /\ BrandHas(p, {m})' /\ brandOwner' = [n \in BrandMedia |-> brandOwner'[n]]
           /\ \A r \in BrandPartners : \A media : BrandHas(r, media) => BrandHas(r, media)'
<1>1. brandOwner = [n \in BrandMedia |-> brandOwner[n]] /\ "none" \notin BrandPartners
  BY BrandAssumption DEF BrandTables
<1>2. brandOwner'[m] = p /\ \A n \in BrandMedia : n # m => brandOwner'[n] = brandOwner[n]
  BY <1>1
<1>3. brandOwner' = [n \in BrandMedia |-> brandOwner'[n]]
  BY <1>1
<1>4. BrandHas(p, {m})'
  BY <1>2 DEF BrandHas, BrandOwns
<1>5. ASSUME NEW r \in BrandPartners, NEW media, BrandHas(r, media) PROVE BrandHas(r, media)'
  BY <1>1, <1>2, <1>5 DEF BrandHas, BrandOwns
<1> QED BY <1>3, <1>4, <1>5

\* Every step keeps the branding of each partner its own.
LEMMA BrandStepInv == BrandInv /\ [BrandNext]_brandVars => BrandInv'
<1> SUFFICES ASSUME BrandInv, [BrandNext]_brandVars PROVE BrandInv'
  OBVIOUS
<1> USE BrandAssumption
<1>0. BrandTables /\ BrandUploadsOwn /\ BrandLogosOwn /\ BrandIconsOwn /\ BrandThemesOwn /\ BrandActiveOwn
  BY DEF BrandInv
<1>1. ASSUME NEW p \in BrandPartners, NEW m \in BrandMedia, NEW purpose \in {"none", "logo"}, BrandStoreMedia(p, m, purpose)
      PROVE  BrandInv'
  <2> DEFINE up == IF purpose = "logo" THEN m ELSE "none"
  <2>1. /\ brandOwner[m] = "none" /\ brandOwner' = [brandOwner EXCEPT ![m] = p]
        /\ brandUpload' = [brandUpload EXCEPT ![p] = up]
        /\ UNCHANGED <<brandTheme, brandActive, brandLogo, brandIcons>>
    BY <1>1 DEF BrandStoreMedia
  <2>2. /\ BrandHas(p, {m})' /\ brandOwner' = [n \in BrandMedia |-> brandOwner'[n]]
        /\ \A r \in BrandPartners : \A media : BrandHas(r, media) => BrandHas(r, media)'
    BY <1>0, <2>1, BrandKeeps
  <2>3. up # "none" => up = m
    OBVIOUS
  <2> HIDE DEF up
  <2>4. /\ brandUpload' = [r \in BrandPartners |-> brandUpload'[r]]
        /\ \A r \in BrandPartners : brandUpload'[r] = IF r = p THEN up ELSE brandUpload[r]
    BY <1>0, <2>1 DEF BrandTables
  <2>5. BrandTables'
    BY <1>0, <2>1, <2>2, <2>4 DEF BrandTables
  <2>6. BrandUploadsOwn'
    <3> SUFFICES ASSUME NEW r \in BrandPartners, NEW u, u = brandUpload'[r], u # "none" PROVE BrandHas(r, {u})'
      BY DEF BrandUploadsOwn, BrandHas, BrandOwns
    <3>1. CASE r = p
      BY <2>2, <2>3, <2>4, <3>1
    <3>2. CASE r # p
      BY <1>0, <2>2, <2>4, <3>2 DEF BrandUploadsOwn
    <3> QED BY <3>1, <3>2
  <2>7. BrandLogosOwn'
    <3> SUFFICES ASSUME NEW r \in BrandPartners, NEW u, u = brandLogo[r] PROVE BrandHas(r, u)'
      BY <2>1 DEF BrandLogosOwn, BrandHas, BrandOwns
    <3> QED BY <1>0, <2>2 DEF BrandLogosOwn
  <2>8. BrandIconsOwn'
    <3> SUFFICES ASSUME NEW r \in BrandPartners, NEW u, u = brandIcons[r] PROVE BrandHas(r, u)'
      BY <2>1 DEF BrandIconsOwn, BrandHas, BrandOwns
    <3> QED BY <1>0, <2>2 DEF BrandIconsOwn
  <2>9. BrandThemesOwn'
    <3> SUFFICES ASSUME NEW t \in BrandProfiles, NEW u, u = brandTheme[t].assets, NEW o, o = brandTheme[t].owner
                 PROVE  u \subseteq BrandMedia /\ (o \in BrandPartners => BrandHas(o, u)')
      BY <2>1 DEF BrandThemesOwn, BrandHas, BrandOwns
    <3> QED BY <1>0, <2>2 DEF BrandThemesOwn
  <2>10. BrandActiveOwn'
    BY <1>0, <2>1 DEF BrandActiveOwn
  <2> QED BY <2>5, <2>6, <2>7, <2>8, <2>9, <2>10 DEF BrandInv
<1>2. ASSUME NEW p \in BrandPartners, BrandRegisterLogo(p) PROVE BrandInv'
  <2>1. /\ brandUpload[p] # "none" /\ brandLogo' = [brandLogo EXCEPT ![p] = {brandUpload[p]}]
        /\ brandUpload' = [brandUpload EXCEPT ![p] = "none"]
        /\ UNCHANGED <<brandOwner, brandTheme, brandActive, brandIcons>>
    BY <1>2 DEF BrandRegisterLogo
  <2>2. /\ brandLogo' = [r \in BrandPartners |-> brandLogo'[r]] /\ brandUpload' = [r \in BrandPartners |-> brandUpload'[r]]
        /\ \A r \in BrandPartners : /\ brandLogo'[r] = IF r = p THEN {brandUpload[p]} ELSE brandLogo[r]
                                    /\ brandUpload'[r] = IF r = p THEN "none" ELSE brandUpload[r]
    BY <1>0, <2>1 DEF BrandTables
  <2>3. BrandTables'
    BY <1>0, <2>1, <2>2 DEF BrandTables
  <2>4. BrandUploadsOwn' /\ BrandLogosOwn'
    BY <1>0, <2>1, <2>2 DEF BrandUploadsOwn, BrandLogosOwn, BrandHas, BrandOwns
  <2>5. BrandIconsOwn' /\ BrandThemesOwn' /\ BrandActiveOwn'
    BY <1>0, <2>1 DEF BrandIconsOwn, BrandThemesOwn, BrandActiveOwn, BrandHas, BrandOwns
  <2> QED BY <2>3, <2>4, <2>5 DEF BrandInv
<1>3. ASSUME NEW p \in BrandPartners, BrandUploadDies(p) PROVE BrandInv'
  <2>1. /\ brandUpload' = [brandUpload EXCEPT ![p] = "none"]
        /\ UNCHANGED <<brandOwner, brandTheme, brandActive, brandLogo, brandIcons>>
    BY <1>3 DEF BrandUploadDies
  <2>2. /\ brandUpload' = [r \in BrandPartners |-> brandUpload'[r]]
        /\ \A r \in BrandPartners : brandUpload'[r] = IF r = p THEN "none" ELSE brandUpload[r]
    BY <1>0, <2>1 DEF BrandTables
  <2>3. BrandTables' /\ BrandUploadsOwn'
    BY <1>0, <2>1, <2>2 DEF BrandTables, BrandUploadsOwn, BrandHas, BrandOwns
  <2>4. BrandLogosOwn' /\ BrandIconsOwn' /\ BrandThemesOwn' /\ BrandActiveOwn'
    BY <1>0, <2>1 DEF BrandLogosOwn, BrandIconsOwn, BrandThemesOwn, BrandActiveOwn, BrandHas, BrandOwns
  <2> QED BY <2>3, <2>4 DEF BrandInv
<1>4. ASSUME NEW p \in BrandPartners, NEW t \in BrandProfiles, NEW assets \in SUBSET BrandMedia, BrandSaveProfile(p, t, assets)
      PROVE  BrandInv'
  <2> DEFINE new == [owner |-> p, assets |-> assets]
  <2>1. /\ brandTheme[t].owner \in {"none", p} /\ BrandHas(p, assets)
        /\ brandTheme' = [brandTheme EXCEPT ![t] = new]
        /\ UNCHANGED <<brandOwner, brandUpload, brandActive, brandLogo, brandIcons>>
    BY <1>4 DEF BrandSaveProfile, BrandThemeValid, BrandHas
  <2>2. new.owner = p /\ new.assets = assets
    OBVIOUS
  <2> HIDE DEF new
  <2>3. /\ brandTheme' = [u \in BrandProfiles |-> brandTheme'[u]]
        /\ \A u \in BrandProfiles : brandTheme'[u] = IF u = t THEN new ELSE brandTheme[u]
    BY <1>0, <2>1 DEF BrandTables
  <2>4. BrandTables'
    BY <1>0, <2>1, <2>3 DEF BrandTables
  <2>5. BrandThemesOwn'
    <3> SUFFICES ASSUME NEW u \in BrandProfiles, NEW x, x = brandTheme'[u]
                 PROVE  x.assets \subseteq BrandMedia /\ (x.owner \in BrandPartners => BrandHas(x.owner, x.assets))
      BY <2>1 DEF BrandThemesOwn, BrandHas, BrandOwns
    <3>1. CASE u = t
      BY <1>4, <2>1, <2>2, <2>3, <3>1
    <3>2. CASE u # t
      BY <1>0, <2>3, <3>2 DEF BrandThemesOwn
    <3> QED BY <3>1, <3>2
  <2>6. BrandActiveOwn'
    <3> SUFFICES ASSUME NEW r \in BrandPartners, brandActive[r] # BrandCatalog
                 PROVE  brandActive[r] \in BrandProfiles /\ brandTheme'[brandActive[r]].owner = r
      BY <2>1 DEF BrandActiveOwn
    <3>1. brandActive[r] \in BrandProfiles /\ brandTheme[brandActive[r]].owner = r
      BY <1>0 DEF BrandActiveOwn
    <3> QED BY <2>1, <2>2, <2>3, <3>1
  <2>7. BrandUploadsOwn' /\ BrandLogosOwn' /\ BrandIconsOwn'
    BY <1>0, <2>1 DEF BrandUploadsOwn, BrandLogosOwn, BrandIconsOwn, BrandHas, BrandOwns
  <2> QED BY <2>4, <2>5, <2>6, <2>7 DEF BrandInv
<1>5. ASSUME NEW p \in BrandPartners, NEW t \in BrandProfiles \cup {BrandCatalog}, BrandActivate(p, t)
      PROVE  BrandInv'
  <2>1. /\ t # BrandCatalog => brandTheme[t].owner = p
        /\ brandActive' = [brandActive EXCEPT ![p] = t]
        /\ UNCHANGED <<brandOwner, brandUpload, brandTheme, brandLogo, brandIcons>>
    BY <1>5 DEF BrandActivate, BrandMayUse
  <2>2. /\ brandActive' = [r \in BrandPartners |-> brandActive'[r]]
        /\ \A r \in BrandPartners : brandActive'[r] = IF r = p THEN t ELSE brandActive[r]
    BY <1>0, <2>1 DEF BrandTables
  <2>3. BrandTables'
    BY <1>0, <2>1, <2>2 DEF BrandTables
  <2>4. BrandActiveOwn'
    BY <1>0, <1>5, <2>1, <2>2 DEF BrandActiveOwn
  <2>5. BrandUploadsOwn' /\ BrandLogosOwn' /\ BrandIconsOwn' /\ BrandThemesOwn'
    BY <1>0, <2>1 DEF BrandUploadsOwn, BrandLogosOwn, BrandIconsOwn, BrandThemesOwn, BrandHas, BrandOwns
  <2> QED BY <2>3, <2>4, <2>5 DEF BrandInv
<1>6. ASSUME NEW p \in BrandPartners, NEW media \in SUBSET BrandMedia, BrandSetIcon(p, media) PROVE BrandInv'
  <2>1. /\ BrandHas(p, media) /\ brandIcons' = [brandIcons EXCEPT ![p] = media]
        /\ UNCHANGED <<brandOwner, brandUpload, brandTheme, brandActive, brandLogo>>
    BY <1>6 DEF BrandSetIcon, BrandHas
  <2>2. /\ brandIcons' = [r \in BrandPartners |-> brandIcons'[r]]
        /\ \A r \in BrandPartners : brandIcons'[r] = IF r = p THEN media ELSE brandIcons[r]
    BY <1>0, <2>1 DEF BrandTables
  <2>3. BrandTables'
    BY <1>0, <2>1, <2>2 DEF BrandTables
  <2>4. BrandIconsOwn'
    <3> SUFFICES ASSUME NEW r \in BrandPartners, NEW u, u = brandIcons'[r] PROVE BrandHas(r, u)
      BY <2>1 DEF BrandIconsOwn, BrandHas, BrandOwns
    <3> QED BY <1>0, <2>1, <2>2 DEF BrandIconsOwn
  <2>5. BrandUploadsOwn' /\ BrandLogosOwn' /\ BrandThemesOwn' /\ BrandActiveOwn'
    BY <1>0, <2>1 DEF BrandUploadsOwn, BrandLogosOwn, BrandThemesOwn, BrandActiveOwn, BrandHas, BrandOwns
  <2> QED BY <2>3, <2>4, <2>5 DEF BrandInv
<1>7. CASE UNCHANGED brandVars
  <2>1. BrandTables' /\ BrandActiveOwn'
    BY <1>0, <1>7 DEF brandVars, BrandTables, BrandActiveOwn
  <2>2. BrandUploadsOwn' /\ BrandLogosOwn' /\ BrandIconsOwn' /\ BrandThemesOwn'
    BY <1>0, <1>7 DEF brandVars, BrandUploadsOwn, BrandLogosOwn, BrandIconsOwn, BrandThemesOwn, BrandHas, BrandOwns
  <2> QED BY <2>1, <2>2 DEF BrandInv
<1> QED BY <1>1, <1>2, <1>3, <1>4, <1>5, <1>6, <1>7 DEF BrandNext

\* Settings and branding begin like that, and the invariants say what is promised of them.
LEMMA SiteSafeFrom == (SiteInit => SiteInv) /\ (BrandInit => BrandInv) /\ (SiteInv /\ BrandInv => CmsSiteSafe)
<1>1. SiteInit => SiteInv
  <2> SUFFICES ASSUME SiteInit PROVE SiteInv
    OBVIOUS
  <2>1. /\ siteRow = SiteFirst /\ siteExists = FALSE /\ siteReq = [e \in SiteEditors |-> SiteIdle]
        /\ siteSaved = SiteDefault /\ siteLive = SiteDefault
    BY DEF SiteInit, SiteFirst
  <2>2. /\ siteRow.draft = SiteDefault /\ siteRow.published = SiteDefault
        /\ DOMAIN siteRow = {"draft", "published", "version"}
        /\ siteRow = [draft |-> siteRow.draft, published |-> siteRow.published, version |-> siteRow.version]
    BY <2>1 DEF SiteFirst
  <2>3. \A e \in SiteEditors : siteReq[e].op = "idle"
    BY <2>1 DEF SiteIdle
  <2> QED BY <2>1, <2>2, <2>3 DEF SiteInv, SiteKeepsDraftAndLive
<1>2. BrandInit => BrandInv
  BY BrandAssumption DEF BrandInit, BrandInv, BrandTables, BrandUploadsOwn, BrandLogosOwn, BrandIconsOwn,
     BrandThemesOwn, BrandActiveOwn, BrandHas
<1>3. ASSUME SiteInv, BrandInv PROVE CmsSiteSafe
  <2>1. SiteKeepsDraftAndLive
    BY <1>3 DEF SiteInv
  <2>2. BrandPublicIsOwn
    <3> SUFFICES ASSUME NEW p \in BrandPartners
                 PROVE  (\A m \in BrandPublicMedia(p) : BrandOwns(p, m)) /\ BrandShown(p) = brandActive[p]
      BY DEF BrandPublicIsOwn
    <3>1. \A m \in brandLogo[p] \cup brandIcons[p] : BrandOwns(p, m)
      BY <1>3 DEF BrandInv, BrandLogosOwn, BrandIconsOwn, BrandHas
    <3>2. CASE brandActive[p] = BrandCatalog
      BY <3>1, <3>2 DEF BrandPublicMedia, BrandShown, BrandMayUse
    <3>3. CASE brandActive[p] # BrandCatalog
      <4>1. brandActive[p] \in BrandProfiles /\ brandTheme[brandActive[p]].owner = p
        BY <1>3, <3>3 DEF BrandInv, BrandActiveOwn
      <4>2. \A m \in brandTheme[brandActive[p]].assets : BrandOwns(p, m)
        BY <1>3, <4>1 DEF BrandInv, BrandThemesOwn, BrandHas
      <4> QED BY <3>1, <3>3, <4>1, <4>2 DEF BrandPublicMedia, BrandShown, BrandMayUse
    <3> QED BY <3>2, <3>3
  <2> QED BY <2>1, <2>2 DEF CmsSiteSafe
<1> QED BY <1>1, <1>2, <1>3

\* Versions are added and never changed, and media on record stay there.
CmsGrows ==
    /\ \A pg \in CmsPageIds :
          /\ Len(cmsVersion'[pg]) \in Nat /\ Len(cmsVersion[pg]) <= Len(cmsVersion'[pg])
          /\ \A v \in 1..Len(cmsVersion[pg]) : cmsVersion'[pg][v] = cmsVersion[pg][v]
    /\ \A m \in CmsMediaIds : cmsMedia[m] = "row" => cmsMedia'[m] = "row"

\* What a version is.
LEMMA CmsRowOf ==
    ASSUME CmsTypes, NEW pg \in CmsPageIds
    PROVE  /\ Len(cmsVersion[pg]) \in Nat /\ cmsVersion[pg] \in Seq(CmsRows)
           /\ \A v \in 1..Len(cmsVersion[pg]) :
                 LET row == cmsVersion[pg][v] IN
                 /\ row \in CmsRows /\ row.content \in CmsContents /\ row.source \in Nat /\ row.rollback \in BOOLEAN
<1>1. cmsVersion[pg] \in Seq(CmsRows)
  BY DEF CmsTypes
<1>2. \A v \in 1..Len(cmsVersion[pg]) : cmsVersion[pg][v] \in CmsRows
  BY <1>1
<1>3. \A row \in CmsRows : row.content \in CmsContents /\ row.source \in Nat /\ row.rollback \in BOOLEAN
  BY DEF CmsRows
<1> QED BY <1>1, <1>2, <1>3

\* A version that is there stays as it is ...
LEMMA CmsIsStays ==
    ASSUME CmsTypes, CmsGrows, NEW pg \in CmsPageIds, NEW v, NEW state, CmsIs(pg, v, state)
    PROVE  CmsIs(pg, v, state)' /\ cmsVersion'[pg][v] = cmsVersion[pg][v]
BY CmsRowOf DEF CmsGrows, CmsIs

\* ... what was cleared to go live stays cleared ...
LEMMA CmsClearedStays ==
    ASSUME CmsTypes, CmsGrows, NEW pg \in CmsPageIds, NEW content \in CmsContents, NEW saw, CmsCleared(pg, content, saw)
    PROVE  CmsCleared(pg, content, saw)'
<1>1. content.media \subseteq CmsMediaIds
  BY CmsAssumption
<1>2. \A m \in content.media : cmsMedia'[m] = "row"
  BY <1>1 DEF CmsCleared, CmsGrows
<1>3. ASSUME NEW q \in CmsPageIds \ {pg}, NEW v, v = saw.published[q], v # 0
      PROVE  v \in 1..Len(cmsVersion'[q]) /\ cmsVersion'[q][v].content.slug # content.slug
  <2>1. v \in 1..Len(cmsVersion[q]) /\ cmsVersion[q][v].content.slug # content.slug
    BY <1>3 DEF CmsCleared
  <2> QED BY <2>1, CmsRowOf DEF CmsGrows
<1>4. content.ok = TRUE /\ saw \in CmsSeens
  BY DEF CmsCleared
<1> QED BY <1>2, <1>3, <1>4 DEF CmsCleared, CmsSeens

\* ... a version that was right stays right ...
LEMMA CmsVersionStays ==
    ASSUME CmsTypes, CmsGrows, NEW pg \in CmsPageIds, NEW v \in 1..Len(cmsVersion[pg]), CmsVersionOk(pg, v)
    PROVE  CmsVersionOk(pg, v)'
<1> DEFINE row == cmsVersion[pg][v]
<1>1. Len(cmsVersion[pg]) \in Nat /\ row.content \in CmsContents
  BY CmsRowOf
<1>2. row = cmsVersion'[pg][v]
  BY DEF CmsGrows
<1>3. ASSUME NEW state, CmsRepeats(pg, v, state)
      PROVE  /\ row.source \in 1..(v - 1) /\ cmsVersion'[pg][row.source].state = state
             /\ cmsVersion'[pg][row.source].content = row.content
             /\ cmsVersion'[pg][row.source] = cmsVersion[pg][row.source]
  <2>1. row.source \in 1..(v - 1) /\ row.source \in 1..Len(cmsVersion[pg])
    BY <1>1, <1>3 DEF CmsRepeats
  <2> QED BY <1>3, <2>1 DEF CmsRepeats, CmsGrows
<1>4. ASSUME NEW state, CmsRepeats(pg, v, state) PROVE CmsRepeats(pg, v, state)'
  BY <1>2, <1>3, <1>4 DEF CmsRepeats
<1>5. ASSUME row.state = "PUBLISHED", NEW content, content = row.content, NEW saw, saw = row.saw
      PROVE  CmsCleared(pg, content, saw)'
  <2>1. content \in CmsContents /\ CmsCleared(pg, content, saw)
    BY <1>1, <1>5 DEF CmsVersionOk
  <2> QED BY <2>1, CmsClearedStays
<1>6. row.state = "PUBLISHED" /\ row.rollback = FALSE => cmsVersion'[pg][row.source].source = row.saw.draft
  BY <1>3 DEF CmsVersionOk
<1>7. /\ row.state = "PREVIEW" => CmsRepeats(pg, v, "DRAFT")'
      /\ row.state = "PUBLISHED" /\ row.rollback = TRUE => CmsRepeats(pg, v, "PUBLISHED")'
      /\ row.state = "PUBLISHED" /\ row.rollback = FALSE => CmsRepeats(pg, v, "PREVIEW")'
  BY <1>4 DEF CmsVersionOk
<1>8. row.state = "PUBLISHED" => CmsCleared(pg, cmsVersion[pg][v].content, cmsVersion[pg][v].saw)'
  BY <1>2, <1>5 DEF CmsCleared
<1> QED BY <1>2, <1>6, <1>7, <1>8 DEF CmsVersionOk

\* ... and a request may still rely on what it has read.
LEMMA CmsRequestStays ==
    ASSUME CmsTypes, CmsGrows, NEW r \in {CmsIdle} \cup CmsReads, CmsRequestOk(r)
    PROVE  CmsRequestOk(r)'
<1>1. CASE r = CmsIdle
  BY <1>1 DEF CmsRequestOk, CmsIdle
<1>2. CASE r \in CmsReads
  <2> DEFINE pg == r.page
  <2> DEFINE v == r.source
  <2>1. pg \in CmsPageIds /\ r.op \in {"preview", "publish", "rollback"}
    BY <1>2 DEF CmsReads
  <2>2. ASSUME NEW state, CmsIs(pg, v, state)
        PROVE  CmsIs(pg, v, state)' /\ cmsVersion'[pg][v] = cmsVersion[pg][v]
               /\ cmsVersion[pg][v].content \in CmsContents
    BY <2>1, <2>2, CmsIsStays, CmsRowOf DEF CmsIs
  <2>3. ASSUME NEW content \in CmsContents, NEW saw, CmsCleared(pg, content, saw) PROVE CmsCleared(pg, content, saw)'
    BY <2>1, <2>3, CmsClearedStays
  <2>4. r.op = "preview" => CmsIs(pg, v, "DRAFT")'
    BY <2>2 DEF CmsRequestOk
  <2>5. ASSUME NEW content, NEW row, row = cmsVersion[pg][v], content = row.content, r.op \in {"publish", "rollback"}
        PROVE  /\ CmsCleared(pg, content, r.saw)' /\ content = cmsVersion'[pg][v].content
               /\ r.op = "publish" => CmsIs(pg, v, "PREVIEW")' /\ cmsVersion'[pg][v].source = r.saw.draft
               /\ r.op = "rollback" => CmsIs(pg, v, "PUBLISHED")'
    <3>1. /\ r.op = "publish" => CmsIs(pg, v, "PREVIEW") /\ row.source = r.saw.draft
          /\ r.op = "rollback" => CmsIs(pg, v, "PUBLISHED")
          /\ CmsCleared(pg, content, r.saw)
      BY <2>5 DEF CmsRequestOk
    <3>2. /\ r.op = "publish" => CmsIs(pg, v, "PREVIEW")'
          /\ r.op = "rollback" => CmsIs(pg, v, "PUBLISHED")'
          /\ cmsVersion'[pg][v] = row /\ content \in CmsContents
      BY <2>2, <2>5, <3>1
    <3> QED BY <2>3, <2>5, <3>1, <3>2
  <2>6. r.op \in {"publish", "rollback"} => CmsCleared(r.page, cmsVersion[r.page][r.source].content, r.saw)'
    BY <2>5 DEF CmsCleared
  <2> QED BY <2>1, <2>4, <2>5, <2>6 DEF CmsRequestOk
<1> QED BY <1>1, <1>2

\* Inserting a version lengthens its page by that row and changes nothing else.
LEMMA CmsInserted ==
    ASSUME CmsTypes, NEW pg \in CmsPageIds, NEW row \in CmsRows,
           cmsVersion' = [cmsVersion EXCEPT ![pg] = Append(@, row)], cmsMedia' = cmsMedia
    PROVE  /\ CmsGrows /\ cmsVersion' \in [CmsPageIds -> Seq(CmsRows)]
           /\ CmsNewNo(pg) \in Nat \ {0} /\ Len(cmsVersion'[pg]) = CmsNewNo(pg)
           /\ cmsVersion'[pg][CmsNewNo(pg)] = row
           /\ \A q \in CmsPageIds \ {pg} : cmsVersion'[q] = cmsVersion[q]
<1>1. cmsVersion \in [CmsPageIds -> Seq(CmsRows)] /\ \A q \in CmsPageIds : Len(cmsVersion[q]) \in Nat
  BY CmsRowOf DEF CmsTypes
<1>2. cmsVersion'[pg] = Append(cmsVersion[pg], row) /\ \A q \in CmsPageIds \ {pg} : cmsVersion'[q] = cmsVersion[q]
  BY <1>1
<1>3. cmsVersion[pg] \in Seq(CmsRows)
  BY <1>1
<1>4. /\ Append(cmsVersion[pg], row) \in Seq(CmsRows)
      /\ Len(Append(cmsVersion[pg], row)) = Len(cmsVersion[pg]) + 1
      /\ Append(cmsVersion[pg], row)[Len(cmsVersion[pg]) + 1] = row
      /\ \A v \in 1..Len(cmsVersion[pg]) : Append(cmsVersion[pg], row)[v] = cmsVersion[pg][v]
  BY <1>3
<1>5. cmsVersion' \in [CmsPageIds -> Seq(CmsRows)]
  BY <1>1, <1>2, <1>4
<1>6. CmsGrows
  BY <1>1, <1>2, <1>4 DEF CmsGrows
<1> QED BY <1>1, <1>2, <1>4, <1>5, <1>6 DEF CmsNewNo

\* What a row must repeat and rest on before it is inserted.
CmsCopies(pg, row, state) == CmsIs(pg, row.source, state) /\ cmsVersion[pg][row.source].content = row.content
CmsSound(pg, row) ==
    /\ row.state = "PREVIEW" => CmsCopies(pg, row, "DRAFT")
    /\ row.state = "PUBLISHED" =>
          /\ CmsCleared(pg, row.content, row.saw)
          /\ row.rollback = TRUE => CmsCopies(pg, row, "PUBLISHED")
          /\ row.rollback = FALSE => CmsCopies(pg, row, "PREVIEW") /\ cmsVersion[pg][row.source].source = row.saw.draft

\* A sound row makes a version that is right.
LEMMA CmsNewVersionOk ==
    ASSUME CmsTypes, NEW pg \in CmsPageIds, NEW row \in CmsRows, CmsSound(pg, row),
           CmsGrows, cmsVersion'[pg][CmsNewNo(pg)] = row, NEW n, n = CmsNewNo(pg)
    PROVE  CmsVersionOk(pg, n)'
<1>1. Len(cmsVersion[pg]) \in Nat /\ n = Len(cmsVersion[pg]) + 1 /\ cmsVersion'[pg][n] = row
  BY CmsRowOf DEF CmsNewNo
<1>2. row.content \in CmsContents
  BY DEF CmsRows
<1>3. ASSUME NEW state, CmsCopies(pg, row, state)
      PROVE  /\ row.source \in 1..(n - 1) /\ cmsVersion'[pg][row.source].state = state
             /\ cmsVersion'[pg][row.source].content = row.content
             /\ cmsVersion'[pg][row.source] = cmsVersion[pg][row.source]
  BY <1>1, <1>3 DEF CmsCopies, CmsIs, CmsGrows
<1>4. ASSUME NEW state, CmsCopies(pg, row, state) PROVE CmsRepeats(pg, n, state)'
  BY <1>1, <1>3, <1>4 DEF CmsRepeats
<1>5. ASSUME row.state = "PUBLISHED", NEW content, content = row.content, NEW saw, saw = row.saw
      PROVE  CmsCleared(pg, content, saw)'
  <2>1. content \in CmsContents /\ CmsCleared(pg, content, saw)
    BY <1>2, <1>5 DEF CmsSound
  <2> QED BY <2>1, CmsClearedStays
<1>6. row.state = "PUBLISHED" /\ row.rollback = FALSE => cmsVersion'[pg][row.source].source = row.saw.draft
  BY <1>3 DEF CmsSound
<1>7. /\ row.state = "PREVIEW" => CmsRepeats(pg, n, "DRAFT")'
      /\ row.state = "PUBLISHED" /\ row.rollback = TRUE => CmsRepeats(pg, n, "PUBLISHED")'
      /\ row.state = "PUBLISHED" /\ row.rollback = FALSE => CmsRepeats(pg, n, "PREVIEW")'
  BY <1>4 DEF CmsSound
<1>8. row.state = "PUBLISHED" => CmsCleared(pg, cmsVersion[pg][n].content, cmsVersion[pg][n].saw)'
  BY <1>1, <1>5 DEF CmsCleared
<1> QED BY <1>1, <1>6, <1>7, <1>8 DEF CmsVersionOk

\* All versions and all requests stay right when a sound row is inserted.
LEMMA CmsInsertVersions ==
    ASSUME CmsInv, NEW pg \in CmsPageIds, NEW row \in CmsRows, CmsSound(pg, row),
           cmsVersion' = [cmsVersion EXCEPT ![pg] = Append(@, row)], cmsMedia' = cmsMedia
    PROVE  \A q \in CmsPageIds : \A v \in 1..Len(cmsVersion'[q]) : CmsVersionOk(q, v)'
<1> DEFINE n == CmsNewNo(pg)
<1>1. CmsTypes
  BY DEF CmsInv
<1>2. /\ CmsGrows /\ Len(cmsVersion'[pg]) = n /\ cmsVersion'[pg][n] = row
      /\ \A q \in CmsPageIds \ {pg} : cmsVersion'[q] = cmsVersion[q]
  BY <1>1, CmsInserted
<1>3. Len(cmsVersion[pg]) \in Nat /\ n = Len(cmsVersion[pg]) + 1
  BY <1>1, CmsRowOf DEF CmsNewNo
<1>4. ASSUME NEW q \in CmsPageIds, NEW v \in 1..Len(cmsVersion[q]) PROVE CmsVersionOk(q, v)'
  <2>1. CmsVersionOk(q, v)
    BY DEF CmsInv
  <2> QED BY <1>1, <1>2, <2>1, CmsVersionStays
<1>5. ASSUME NEW v, v = n PROVE CmsVersionOk(pg, v)'
  BY <1>1, <1>2, <1>5, CmsNewVersionOk
<1>6. ASSUME NEW q \in CmsPageIds, NEW v \in 1..Len(cmsVersion'[q]) PROVE v \in 1..Len(cmsVersion[q]) \/ (q = pg /\ v = n)
  BY <1>2, <1>3
<1>7. ASSUME NEW q \in CmsPageIds, NEW v \in 1..Len(cmsVersion'[q]) PROVE CmsVersionOk(q, v)'
  <2>1. CASE v \in 1..Len(cmsVersion[q])
    BY <1>4, <2>1
  <2>2. CASE q = pg /\ v = n
    BY <1>5, <2>2
  <2> QED BY <1>6, <2>1, <2>2
<1> QED BY <1>7

\* No request is begun: after the step each is idle or what it was.
CmsNoneBegun ==
    /\ cmsReq' \in [CmsCallers -> {CmsIdle} \cup CmsReads]
    /\ \A d \in CmsCallers : cmsReq'[d] \in {CmsIdle, cmsReq[d]}

\* So it is when none, or one, is answered.
LEMMA CmsAnswered ==
    ASSUME CmsTypes, cmsReq' = cmsReq \/ \E c \in CmsCallers : cmsReq' = [cmsReq EXCEPT ![c] = CmsIdle]
    PROVE  CmsNoneBegun
BY DEF CmsTypes, CmsNoneBegun

\* The requests that go on may rely on what they have read.
LEMMA CmsRequestsStay ==
    ASSUME CmsInv, CmsGrows, CmsNoneBegun
    PROVE  /\ cmsReq' \in [CmsCallers -> {CmsIdle} \cup CmsReads]
           /\ \A d \in CmsCallers : CmsRequestOk(cmsReq[d])'
<1>1. cmsReq \in [CmsCallers -> {CmsIdle} \cup CmsReads] /\ CmsTypes
  BY DEF CmsInv, CmsTypes
<1>2. cmsReq' \in [CmsCallers -> {CmsIdle} \cup CmsReads] /\ \A d \in CmsCallers : cmsReq'[d] \in {CmsIdle, cmsReq[d]}
  BY DEF CmsNoneBegun
<1>3. ASSUME NEW d \in CmsCallers, NEW r, r = cmsReq'[d] PROVE CmsRequestOk(r)'
  <2>1. r \in {CmsIdle} \cup CmsReads /\ CmsRequestOk(r)
    BY <1>1, <1>2, <1>3 DEF CmsInv, CmsRequestOk, CmsIdle
  <2> QED BY <1>1, <2>1, CmsRequestStays
<1>4. ASSUME NEW d \in CmsCallers PROVE CmsRequestOk(cmsReq[d])'
  BY <1>3 DEF CmsRequestOk, CmsIs, CmsCleared
<1> QED BY <1>2, <1>4

\* The pointers of a page after the version it has gained.
CmsMoves(old, ptr, n, state) ==
    /\ ptr.draft = IF state = "DRAFT" THEN n ELSE old.draft
    /\ ptr.preview = IF state = "PREVIEW" THEN n ELSE old.preview
    /\ ptr.published = IF state = "PUBLISHED" THEN n ELSE old.published

\* A transaction that inserts a sound row and points the page at it keeps all of it.
LEMMA CmsInsertInv ==
    ASSUME CmsInv, NEW pg \in CmsPageIds, NEW row \in CmsRows, CmsSound(pg, row),
           cmsVersion' = [cmsVersion EXCEPT ![pg] = Append(@, row)], cmsMedia' = cmsMedia,
           NEW ptr \in [draft : Nat, preview : Nat, published : Nat],
           CmsMoves(cmsPage[pg], ptr, CmsNewNo(pg), row.state),
           cmsPage' = [cmsPage EXCEPT ![pg] = ptr],
           cmsRefs' = IF row.state = "PUBLISHED"
                        THEN [cmsRefs EXCEPT ![pg] = CmsRefsOf(CmsNewNo(pg), row.content.media)]
                        ELSE cmsRefs,
           CmsNoneBegun
    PROVE  CmsInv'
<1> DEFINE n == CmsNewNo(pg)
<1>1. CmsTypes /\ CmsPointers /\ CmsRefsFollow
  BY DEF CmsInv
<1>2. /\ CmsGrows /\ cmsVersion' \in [CmsPageIds -> Seq(CmsRows)]
      /\ n \in Nat \ {0} /\ Len(cmsVersion'[pg]) = n /\ cmsVersion'[pg][n] = row
      /\ \A q \in CmsPageIds \ {pg} : cmsVersion'[q] = cmsVersion[q]
  BY <1>1, CmsInserted
<1>3. \A q \in CmsPageIds : \A v \in 1..Len(cmsVersion'[q]) : CmsVersionOk(q, v)'
  BY CmsInsertVersions
<1>4. cmsReq' \in [CmsCallers -> {CmsIdle} \cup CmsReads] /\ \A d \in CmsCallers : CmsRequestOk(cmsReq[d])'
  BY <1>2, CmsRequestsStay
<1>5. /\ cmsPage' \in [CmsPageIds -> [draft : Nat, preview : Nat, published : Nat]]
      /\ cmsPage'[pg] = ptr /\ \A q \in CmsPageIds \ {pg} : cmsPage'[q] = cmsPage[q]
  BY <1>1 DEF CmsTypes
<1>6. \A q \in CmsPageIds : Len(cmsVersion[q]) \in Nat
  BY <1>1, CmsRowOf
<1>7. CmsTypes'
  <2>1. cmsRefs' = [q \in CmsPageIds |-> cmsRefs'[q]]
    BY <1>1 DEF CmsTypes
  <2>2. cmsMedia' \in [CmsMediaIds -> {"none", "stored", "row"}]
    BY <1>1 DEF CmsTypes
  <2> QED BY <1>2, <1>4, <1>5, <2>1, <2>2 DEF CmsTypes
<1>8. ASSUME NEW q \in CmsPageIds, NEW v, NEW state, CmsIs(q, v, state)
      PROVE  v \in 1..Len(cmsVersion'[q]) /\ cmsVersion'[q][v].state = state /\ cmsVersion'[q][v] = cmsVersion[q][v]
  BY <1>2, <1>8 DEF CmsIs, CmsGrows
<1>9. n \in 1..Len(cmsVersion'[pg]) /\ cmsVersion'[pg][n].state = row.state
  BY <1>2
<1>10. CmsPointers'
  <2>1. ASSUME NEW q \in CmsPageIds
        PROVE  /\ cmsPage'[q].draft # 0 => CmsIs(q, cmsPage[q].draft, "DRAFT")'
               /\ cmsPage'[q].preview # 0 => CmsIs(q, cmsPage[q].preview, "PREVIEW")'
               /\ cmsPage'[q].published # 0 => CmsIs(q, cmsPage[q].published, "PUBLISHED")'
    <3>1. CASE q = pg
      BY <1>1, <1>5, <1>8, <1>9, <3>1 DEF CmsPointers, CmsMoves, CmsIs
    <3>2. CASE q # pg
      BY <1>1, <1>5, <1>8, <3>2 DEF CmsPointers, CmsIs
    <3> QED BY <3>1, <3>2
  <2> QED BY <2>1 DEF CmsPointers
<1>11. CmsRefsFollow'
  <2>1. ASSUME NEW q \in CmsPageIds
        PROVE  cmsRefs'[q] = CmsRefsOf(cmsPage'[q].published, cmsVersion'[q][cmsPage'[q].published].content.media)
    <3>1. CASE q = pg /\ row.state = "PUBLISHED"
      <4>1. cmsPage'[q].published = n /\ n # 0 /\ cmsVersion'[q][n].content = row.content
        BY <1>2, <1>5, <3>1 DEF CmsMoves
      <4>2. cmsRefs'[q] = CmsRefsOf(n, row.content.media)
        BY <1>1, <3>1 DEF CmsTypes
      <4> QED BY <4>1, <4>2
    <3>2. CASE ~(q = pg /\ row.state = "PUBLISHED")
      <4>1. cmsPage'[q].published = cmsPage[q].published /\ cmsRefs'[q] = cmsRefs[q]
        BY <1>1, <1>5, <3>2 DEF CmsMoves, CmsTypes
      <4>2. cmsPage[q].published # 0 =>
              cmsVersion'[q][cmsPage[q].published].content = cmsVersion[q][cmsPage[q].published].content
        BY <1>1, <1>8 DEF CmsPointers
      <4>3. ASSUME NEW media, NEW others, NEW v, v = 0 PROVE CmsRefsOf(v, media) = CmsRefsOf(v, others)
        BY <4>3 DEF CmsRefsOf
      <4>4. cmsRefs[q] = CmsRefsOf(cmsPage[q].published, cmsVersion[q][cmsPage[q].published].content.media)
        BY <1>1 DEF CmsRefsFollow
      <4>5. CASE cmsPage[q].published = 0
        BY <4>1, <4>3, <4>4, <4>5
      <4>6. CASE cmsPage[q].published # 0
        BY <4>1, <4>2, <4>4, <4>6
      <4> QED BY <4>5, <4>6
    <3> QED BY <3>1, <3>2
  <2> QED BY <2>1 DEF CmsRefsFollow
<1> QED BY <1>3, <1>4, <1>7, <1>10, <1>11 DEF CmsInv

\* Saving a draft is such a transaction ...
LEMMA CmsSaveDraftInv ==
    ASSUME CmsInv, NEW pg \in CmsPageIds, NEW content \in CmsContents, CmsSaveDraft(pg, content)
    PROVE  CmsInv'
<1> DEFINE row == [state |-> "DRAFT", content |-> content, source |-> 0, rollback |-> FALSE, saw |-> <<>>]
<1> DEFINE ptr == [cmsPage[pg] EXCEPT !.draft = CmsNewNo(pg)]
<1>1. CmsTypes
  BY DEF CmsInv
<1>2. /\ cmsVersion' = [cmsVersion EXCEPT ![pg] = Append(@, row)] /\ cmsMedia' = cmsMedia
      /\ cmsRefs' = cmsRefs /\ CmsNoneBegun
  BY <1>1, CmsAnswered DEF CmsSaveDraft, CmsInsert
<1>3. cmsPage[pg] \in [draft : Nat, preview : Nat, published : Nat] /\ CmsNewNo(pg) \in Nat
  BY <1>1, CmsRowOf DEF CmsTypes, CmsNewNo
<1>4. cmsPage' = [cmsPage EXCEPT ![pg] = ptr]
  BY DEF CmsSaveDraft
<1>5. row \in CmsRows /\ CmsSound(pg, row)
  BY DEF CmsRows, CmsSound
<1>6. ptr \in [draft : Nat, preview : Nat, published : Nat] /\ CmsMoves(cmsPage[pg], ptr, CmsNewNo(pg), "DRAFT")
  BY <1>3 DEF CmsMoves
<1>7. row.state = "DRAFT"
  OBVIOUS
<1> HIDE DEF row, ptr
<1> QED BY <1>2, <1>4, <1>5, <1>6, <1>7, CmsInsertInv

\* What a request holds when it is about to commit.
LEMMA CmsHeld ==
    ASSUME CmsInv, NEW c \in CmsCallers, NEW op \in {"preview", "publish", "rollback"}, cmsReq[c].op = op
    PROVE  /\ cmsReq[c] \in CmsReads /\ CmsRequestOk(cmsReq[c])
           /\ cmsReq[c].page \in CmsPageIds /\ cmsReq[c].source \in Nat
           /\ cmsReq[c].source \in 1..Len(cmsVersion[cmsReq[c].page])
           /\ CmsContentOf(cmsReq[c].page, cmsReq[c].source) \in CmsContents
<1>1. CmsTypes /\ CmsRequestOk(cmsReq[c])
  BY DEF CmsInv
<1>2. cmsReq[c] \in CmsReads
  BY <1>1 DEF CmsTypes, CmsIdle
<1>3. cmsReq[c].page \in CmsPageIds /\ cmsReq[c].source \in Nat
  BY <1>2 DEF CmsReads
<1>4. cmsReq[c].source \in 1..Len(cmsVersion[cmsReq[c].page])
  BY <1>1 DEF CmsRequestOk, CmsIs
<1> QED BY <1>1, <1>2, <1>3, <1>4, CmsRowOf DEF CmsContentOf

\* ... and so are the making of a preview ...
LEMMA CmsPromoteInv == ASSUME CmsInv, NEW c \in CmsCallers, CmsPromotePreview(c) PROVE CmsInv'
<1> DEFINE pg == cmsReq[c].page
<1> DEFINE draft == cmsReq[c].source
<1> DEFINE content == CmsContentOf(pg, draft)
<1> DEFINE row == [state |-> "PREVIEW", content |-> content, source |-> draft, rollback |-> FALSE, saw |-> <<>>]
<1> DEFINE ptr == [cmsPage[pg] EXCEPT !.preview = CmsNewNo(pg)]
<1>1. CmsTypes /\ cmsReq[c].op = "preview"
  BY DEF CmsInv, CmsPromotePreview, CmsCommits
<1>2. pg \in CmsPageIds /\ draft \in Nat /\ content \in CmsContents /\ CmsIs(pg, draft, "DRAFT")
  BY <1>1, CmsHeld DEF CmsRequestOk
<1>3. /\ cmsVersion' = [cmsVersion EXCEPT ![pg] = Append(@, row)] /\ cmsMedia' = cmsMedia
      /\ cmsRefs' = cmsRefs /\ CmsNoneBegun
      /\ cmsPage' = [cmsPage EXCEPT ![pg] = ptr]
  BY <1>1, CmsAnswered DEF CmsPromotePreview, CmsInsert, CmsCommits
<1>4. cmsPage[pg] \in [draft : Nat, preview : Nat, published : Nat] /\ CmsNewNo(pg) \in Nat
  BY <1>1, <1>2, CmsRowOf DEF CmsTypes, CmsNewNo
<1>5. row \in CmsRows /\ CmsSound(pg, row)
  BY <1>2 DEF CmsRows, CmsSound, CmsCopies, CmsContentOf
<1>6. ptr \in [draft : Nat, preview : Nat, published : Nat] /\ CmsMoves(cmsPage[pg], ptr, CmsNewNo(pg), "PREVIEW")
  BY <1>4 DEF CmsMoves
<1>7. row.state = "PREVIEW"
  OBVIOUS
<1> HIDE DEF row, ptr, pg
<1> QED BY <1>2, <1>3, <1>5, <1>6, <1>7, CmsInsertInv

\* ... and a publication or a rollback of what was cleared.
LEMMA CmsGoLiveInv ==
    ASSUME CmsInv, NEW c \in CmsCallers, NEW op \in {"publish", "rollback"}, CmsCommits(c, op),
           NEW rollback \in BOOLEAN, rollback = (op = "rollback"),
           CmsGoLive(cmsReq[c].page, cmsReq[c].source, rollback, cmsReq[c].saw)
    PROVE  CmsInv'
<1> DEFINE pg == cmsReq[c].page
<1> DEFINE source == cmsReq[c].source
<1> DEFINE content == CmsContentOf(pg, source)
<1> DEFINE row == [state |-> "PUBLISHED", content |-> content, source |-> source,
                   rollback |-> rollback, saw |-> cmsReq[c].saw]
<1> DEFINE ptr == [cmsPage[pg] EXCEPT !.published = CmsNewNo(pg)]
<1>1. CmsTypes /\ cmsReq[c].op = op
  BY DEF CmsInv, CmsCommits
<1>2. /\ pg \in CmsPageIds /\ source \in Nat /\ content \in CmsContents
      /\ CmsRequestOk(cmsReq[c]) /\ cmsReq[c].saw \in {<<>>} \cup CmsSeens
  BY <1>1, CmsHeld DEF CmsReads
<1>3. /\ cmsVersion' = [cmsVersion EXCEPT ![pg] = Append(@, row)] /\ cmsMedia' = cmsMedia
      /\ CmsNoneBegun /\ cmsPage' = [cmsPage EXCEPT ![pg] = ptr]
  BY <1>1, CmsAnswered DEF CmsGoLive, CmsInsert, CmsCommits
<1>4. cmsPage[pg] \in [draft : Nat, preview : Nat, published : Nat] /\ CmsNewNo(pg) \in Nat /\ CmsNewNo(pg) # 0
  BY <1>1, <1>2, CmsRowOf DEF CmsTypes, CmsNewNo
<1>5. cmsRefs' = [cmsRefs EXCEPT ![pg] = CmsRefsOf(CmsNewNo(pg), content.media)]
  BY <1>4 DEF CmsGoLive, CmsReplaceMedia, CmsRefsOf
<1>6. row \in CmsRows
  BY <1>2 DEF CmsRows
<1>7. CmsSound(pg, row)
  <2>1. CASE op = "publish"
    BY <1>1, <1>2, <2>1 DEF CmsRequestOk, CmsSound, CmsCopies, CmsContentOf
  <2>2. CASE op = "rollback"
    BY <1>1, <1>2, <2>2 DEF CmsRequestOk, CmsSound, CmsCopies, CmsContentOf
  <2> QED BY <2>1, <2>2
<1>8. ptr \in [draft : Nat, preview : Nat, published : Nat] /\ CmsMoves(cmsPage[pg], ptr, CmsNewNo(pg), "PUBLISHED")
  BY <1>4 DEF CmsMoves
<1>9. row.state = "PUBLISHED" /\ row.content = content
  OBVIOUS
<1> HIDE DEF row, ptr, pg, content
<1> QED BY <1>2, <1>3, <1>5, <1>6, <1>7, <1>8, <1>9, CmsInsertInv

\* A read changes nothing but the request, which may rely on what it saw.
LEMMA CmsReadInv ==
    ASSUME CmsInv, NEW c \in CmsCallers, NEW op \in {"preview", "publish", "rollback"}, NEW pg \in CmsPageIds,
           NEW source \in Nat, NEW saw \in {<<>>} \cup CmsSeens, CmsRead(c, op, pg, source, saw),
           CmsRequestOk([op |-> op, page |-> pg, source |-> source, saw |-> saw])
    PROVE  CmsInv'
<1> DEFINE req == [op |-> op, page |-> pg, source |-> source, saw |-> saw]
<1>1. /\ cmsReq' = [cmsReq EXCEPT ![c] = req] /\ UNCHANGED <<cmsVersion, cmsPage, cmsRefs, cmsMedia>>
      /\ req \in CmsReads /\ CmsRequestOk(req)
  BY DEF CmsRead, CmsReads
<1> HIDE DEF req
<1>2. cmsReq \in [CmsCallers -> {CmsIdle} \cup CmsReads]
  BY DEF CmsInv, CmsTypes
<1>3. cmsReq' \in [CmsCallers -> {CmsIdle} \cup CmsReads] /\ \A d \in CmsCallers : cmsReq'[d] \in {req, cmsReq[d]}
  BY <1>1, <1>2
<1>4. CmsTypes' /\ CmsPointers' /\ CmsRefsFollow'
  BY <1>1, <1>3 DEF CmsInv, CmsTypes, CmsPointers, CmsRefsFollow, CmsIs
<1>5. \A q \in CmsPageIds : \A v \in 1..Len(cmsVersion'[q]) : CmsVersionOk(q, v)'
  <2>1. CmsTypes /\ CmsGrows
    BY <1>1, CmsRowOf DEF CmsInv, CmsGrows
  <2>2. ASSUME NEW q \in CmsPageIds, NEW v \in 1..Len(cmsVersion'[q]) PROVE CmsVersionOk(q, v)'
    <3>1. v \in 1..Len(cmsVersion[q]) /\ CmsVersionOk(q, v)
      BY <1>1 DEF CmsInv
    <3> QED BY <2>1, <3>1, CmsVersionStays
  <2> QED BY <2>2
<1>6. ASSUME NEW d \in CmsCallers, NEW r, r = cmsReq'[d] PROVE CmsRequestOk(r)'
  <2>1. CmsRequestOk(r)
    BY <1>1, <1>3, <1>6 DEF CmsInv
  <2> QED BY <1>1, <2>1 DEF CmsRequestOk, CmsIs, CmsCleared
<1>7. ASSUME NEW d \in CmsCallers PROVE CmsRequestOk(cmsReq[d])'
  BY <1>6 DEF CmsRequestOk, CmsIs, CmsCleared
<1> QED BY <1>4, <1>5, <1>7 DEF CmsInv

\* The check for a conflict clears what is valid; the pages that are online are seen.
LEMMA CmsChecked ==
    ASSUME CmsInv, NEW pg \in CmsPageIds, NEW content \in CmsContents,
           CmsValid(content, TRUE), ~CmsConflict(pg, content)
    PROVE  CmsSeen(pg) \in CmsSeens /\ CmsSeen(pg).draft = cmsPage[pg].draft /\ CmsCleared(pg, content, CmsSeen(pg))
<1>1. /\ CmsTypes /\ CmsPointers
      /\ cmsPage \in [CmsPageIds -> [draft : Nat, preview : Nat, published : Nat]]
  BY DEF CmsInv, CmsTypes
<1>2. content.ok = TRUE /\ \A m \in content.media : cmsMedia[m] = "row"
  BY CmsAssumption DEF CmsValid
<1>3. /\ CmsSeen(pg) \in CmsSeens /\ CmsSeen(pg).draft = cmsPage[pg].draft
      /\ \A q \in CmsPageIds : CmsSeen(pg).published[q] = cmsPage[q].published
  BY <1>1 DEF CmsSeen, CmsSeens
<1>4. ASSUME NEW q \in CmsPageIds \ {pg}, cmsPage[q].published # 0
      PROVE  /\ cmsPage[q].published \in 1..Len(cmsVersion[q])
             /\ cmsVersion[q][cmsPage[q].published].content.slug # content.slug
  BY <1>1, <1>4 DEF CmsConflict, CmsOnline, CmsContentOf, CmsPointers, CmsIs
<1> QED BY <1>2, <1>3, <1>4 DEF CmsCleared

\* A preview is made of the draft the page has.
LEMMA CmsReadPromoteInv == ASSUME CmsInv, NEW c \in CmsCallers, NEW pg \in CmsPageIds, CmsReadPromote(c, pg) PROVE CmsInv'
<1> DEFINE draft == cmsPage[pg].draft
<1>1. CmsIs(pg, draft, "DRAFT") /\ CmsRead(c, "preview", pg, draft, <<>>) /\ draft \in Nat
  BY DEF CmsReadPromote, CmsInv, CmsPointers, CmsTypes
<1>2. CmsRequestOk([op |-> "preview", page |-> pg, source |-> draft, saw |-> <<>>])
  BY <1>1 DEF CmsRequestOk
<1> HIDE DEF draft
<1> QED BY <1>1, <1>2, CmsReadInv

\* The publisher has read a preview of the present draft, which is cleared.
LEMMA CmsReadPublishInv == ASSUME CmsInv, NEW c \in CmsCallers, NEW pg \in CmsPageIds, CmsReadPublish(c, pg) PROVE CmsInv'
<1> DEFINE preview == cmsPage[pg].preview
<1> DEFINE content == CmsContentOf(pg, preview)
<1>1. /\ CmsIs(pg, preview, "PREVIEW") /\ CmsRead(c, "publish", pg, preview, CmsSeen(pg)) /\ preview \in Nat
      /\ CmsValid(content, TRUE) /\ ~CmsConflict(pg, content)
      /\ cmsVersion[pg][preview].source = cmsPage[pg].draft
  BY DEF CmsReadPublish, CmsInv, CmsPointers, CmsTypes
<1>2. content \in CmsContents
  BY <1>1, CmsRowOf DEF CmsContentOf, CmsIs, CmsInv
<1> HIDE DEF preview
<1>3. CmsSeen(pg) \in CmsSeens /\ CmsSeen(pg).draft = cmsPage[pg].draft /\ CmsCleared(pg, content, CmsSeen(pg))
  BY <1>1, <1>2, CmsChecked
<1>4. CmsRequestOk([op |-> "publish", page |-> pg, source |-> preview, saw |-> CmsSeen(pg)])
  BY <1>1, <1>3 DEF CmsRequestOk, CmsContentOf
<1> QED BY <1>1, <1>3, <1>4, CmsReadInv

\* So has the request that goes back to a published version.
LEMMA CmsReadRollbackInv ==
    ASSUME CmsInv, NEW c \in CmsCallers, NEW pg \in CmsPageIds, NEW v \in 1..Len(cmsVersion[pg]), CmsReadRollback(c, pg, v)
    PROVE  CmsInv'
<1> DEFINE content == CmsContentOf(pg, v)
<1>1. Len(cmsVersion[pg]) \in Nat /\ content \in CmsContents /\ v \in Nat
  BY CmsRowOf DEF CmsInv, CmsContentOf
<1>2. /\ CmsIs(pg, v, "PUBLISHED") /\ CmsRead(c, "rollback", pg, v, CmsSeen(pg))
      /\ CmsValid(content, TRUE) /\ ~CmsConflict(pg, content)
  BY DEF CmsReadRollback, CmsIs
<1>3. CmsSeen(pg) \in CmsSeens /\ CmsCleared(pg, content, CmsSeen(pg))
  BY <1>1, <1>2, CmsChecked
<1>4. CmsRequestOk([op |-> "rollback", page |-> pg, source |-> v, saw |-> CmsSeen(pg)])
  BY <1>2, <1>3 DEF CmsRequestOk, CmsContentOf
<1> QED BY <1>1, <1>2, <1>3, <1>4, CmsReadInv

\* A medium that is uploaded, or a request that dies, takes nothing away.
LEMMA CmsQuietInv ==
    ASSUME CmsInv, cmsMedia' \in [CmsMediaIds -> {"none", "stored", "row"}],
           \A m \in CmsMediaIds : cmsMedia[m] = "row" => cmsMedia'[m] = "row",
           UNCHANGED <<cmsVersion, cmsPage, cmsRefs>>, CmsNoneBegun
    PROVE  CmsInv'
<1>1. CmsTypes /\ CmsGrows
  BY CmsRowOf DEF CmsInv, CmsGrows
<1>2. cmsReq' \in [CmsCallers -> {CmsIdle} \cup CmsReads] /\ \A d \in CmsCallers : CmsRequestOk(cmsReq[d])'
  BY <1>1, CmsRequestsStay
<1>3. CmsTypes' /\ CmsPointers' /\ CmsRefsFollow'
  BY <1>2 DEF CmsInv, CmsTypes, CmsPointers, CmsRefsFollow, CmsIs
<1>4. ASSUME NEW q \in CmsPageIds, NEW v \in 1..Len(cmsVersion'[q]) PROVE CmsVersionOk(q, v)'
  <2>1. v \in 1..Len(cmsVersion[q]) /\ CmsVersionOk(q, v)
    BY DEF CmsInv
  <2> QED BY <1>1, <2>1, CmsVersionStays
<1> QED BY <1>2, <1>3, <1>4 DEF CmsInv

\* Media come on record and stay.
LEMMA CmsMediaInv ==
    ASSUME CmsInv, NEW m \in CmsMediaIds, CmsStoreObject(m) \/ CmsRecordMedia(m) PROVE CmsInv'
<1>1. cmsMedia \in [CmsMediaIds -> {"none", "stored", "row"}]
  BY DEF CmsInv, CmsTypes
<1>2. /\ cmsMedia' \in [CmsMediaIds -> {"none", "stored", "row"}] /\ UNCHANGED <<cmsVersion, cmsPage, cmsRefs, cmsReq>>
      /\ \A o \in CmsMediaIds : cmsMedia[o] = "row" => cmsMedia'[o] = "row"
  BY <1>1 DEF CmsStoreObject, CmsRecordMedia
<1>3. CmsNoneBegun
  BY <1>2, CmsAnswered DEF CmsInv
<1> QED BY <1>2, <1>3, CmsQuietInv

\* A request that dies leaves only itself.
LEMMA CmsAbandonInv == ASSUME CmsInv, NEW c \in CmsCallers, CmsAbandon(c) PROVE CmsInv'
<1>1. /\ cmsMedia' \in [CmsMediaIds -> {"none", "stored", "row"}] /\ UNCHANGED <<cmsVersion, cmsPage, cmsRefs>>
      /\ \A o \in CmsMediaIds : cmsMedia[o] = "row" => cmsMedia'[o] = "row"
      /\ cmsReq' = [cmsReq EXCEPT ![c] = CmsIdle] /\ CmsTypes
  BY DEF CmsAbandon, CmsInv, CmsTypes
<1>2. CmsNoneBegun
  BY <1>1, CmsAnswered
<1> QED BY <1>1, <1>2, CmsQuietInv

\* Nothing happens.
LEMMA CmsStutterInv == ASSUME CmsInv, UNCHANGED cmsVars PROVE CmsInv'
<1>1. UNCHANGED <<cmsVersion, cmsPage, cmsRefs, cmsMedia, cmsReq>> /\ CmsTypes
  BY DEF cmsVars, CmsInv
<1>2. CmsNoneBegun /\ cmsMedia' \in [CmsMediaIds -> {"none", "stored", "row"}]
  BY <1>1, CmsAnswered DEF CmsTypes
<1> QED BY <1>1, <1>2, CmsQuietInv

\* Every step of the page workflow keeps the invariant.
LEMMA CmsStepInv == ASSUME CmsInv, [CmsNext]_cmsVars PROVE CmsInv'
<1>1. ASSUME NEW pg \in CmsPageIds, NEW content \in CmsContents, CmsSaveDraft(pg, content) PROVE CmsInv'
  BY <1>1, CmsSaveDraftInv
<1>2. ASSUME NEW c \in CmsCallers, NEW pg \in CmsPageIds,
             \/ CmsReadPromote(c, pg) \/ CmsReadPublish(c, pg)
             \/ \E v \in 1..Len(cmsVersion[pg]) : CmsReadRollback(c, pg, v)
      PROVE  CmsInv'
  BY <1>2, CmsReadPromoteInv, CmsReadPublishInv, CmsReadRollbackInv
<1>3. ASSUME NEW c \in CmsCallers, CmsPublish(c) \/ CmsRollback(c) PROVE CmsInv'
  <2>1. CASE CmsPublish(c)
    BY <2>1, CmsGoLiveInv DEF CmsPublish
  <2>2. CASE CmsRollback(c)
    BY <2>2, CmsGoLiveInv DEF CmsRollback
  <2> QED BY <1>3, <2>1, <2>2
<1>4. ASSUME NEW c \in CmsCallers, CmsPromotePreview(c) \/ CmsAbandon(c) PROVE CmsInv'
  BY <1>4, CmsPromoteInv, CmsAbandonInv
<1>5. ASSUME NEW m \in CmsMediaIds, CmsStoreObject(m) \/ CmsRecordMedia(m) PROVE CmsInv'
  BY <1>5, CmsMediaInv
<1>6. CASE UNCHANGED cmsVars
  BY <1>6, CmsStutterInv
<1> QED BY <1>1, <1>2, <1>3, <1>4, <1>5, <1>6 DEF CmsNext

\* It holds of a site without pages.
LEMMA CmsInitInv == CmsInit => CmsInv
<1> SUFFICES ASSUME CmsInit PROVE CmsInv
  OBVIOUS
<1>1. \A pg \in CmsPageIds : cmsVersion[pg] = <<>> /\ Len(cmsVersion[pg]) = 0
  BY DEF CmsInit
<1>2. <<>> \in Seq(CmsRows)
  OBVIOUS
<1>3. CmsTypes
  BY <1>2 DEF CmsInit, CmsTypes
<1>4. CmsPointers /\ CmsRefsFollow
  BY DEF CmsInit, CmsPointers, CmsRefsFollow, CmsRefsOf
<1>5. \A pg \in CmsPageIds : \A v \in 1..Len(cmsVersion[pg]) : CmsVersionOk(pg, v)
  BY <1>1
<1>6. \A c \in CmsCallers : CmsRequestOk(cmsReq[c])
  BY DEF CmsInit, CmsRequestOk, CmsIdle
<1> QED BY <1>3, <1>4, <1>5, <1>6 DEF CmsInv

\* What a version of a page has been through.
LEMMA CmsPublishedSafe == ASSUME CmsInv PROVE CmsPublishedWasPreviewed /\ CmsPublishSeesDraft
<1>1. ASSUME NEW pg \in CmsPageIds, NEW v \in DOMAIN cmsVersion[pg], NEW row, row = cmsVersion[pg][v]
      PROVE  /\ row.state = "PREVIEW" => CmsRepeats(pg, v, "DRAFT")
             /\ row.state = "PUBLISHED" =>
                   row.content.ok = TRUE /\ CmsRepeats(pg, v, IF row.rollback = TRUE THEN "PUBLISHED" ELSE "PREVIEW")
             /\ row.state = "PUBLISHED" /\ row.rollback = FALSE => cmsVersion[pg][row.source].source = row.saw.draft
             /\ row.rollback \in BOOLEAN
  <2>1. cmsVersion[pg] \in Seq(CmsRows) /\ Len(cmsVersion[pg]) \in Nat
    BY CmsRowOf DEF CmsInv
  <2>2. v \in 1..Len(cmsVersion[pg])
    BY <2>1
  <2>3. CmsVersionOk(pg, v) /\ row.rollback \in BOOLEAN
    BY <1>1, <2>2, CmsRowOf DEF CmsInv
  <2> QED BY <1>1, <2>3 DEF CmsVersionOk, CmsCleared
<1>2. ASSUME NEW pg \in CmsPageIds, NEW v \in DOMAIN cmsVersion[pg], NEW row, row = cmsVersion[pg][v]
      PROVE  /\ row.state = "PUBLISHED" => row.content.ok
             /\ (IF row.rollback THEN "PUBLISHED" ELSE "PREVIEW") = (IF row.rollback = TRUE THEN "PUBLISHED" ELSE "PREVIEW")
             /\ ~row.rollback => row.rollback = FALSE
  BY <1>1, <1>2
<1>3. CmsPublishedWasPreviewed
  BY <1>1, <1>2 DEF CmsPublishedWasPreviewed, CmsRepeats, CmsContentOf
<1>4. CmsPublishSeesDraft
  BY <1>1, <1>2 DEF CmsPublishSeesDraft
<1> QED BY <1>3, <1>4

\* What visitors see.
LEMMA CmsOnlineSafe == ASSUME CmsInv PROVE CmsTypeOK /\ CmsSlugClashNeedsOverlap /\ CmsPublicMediaFollowPage
<1>1. CmsTypes /\ CmsPointers /\ CmsRefsFollow
  BY DEF CmsInv
<1>2. ASSUME NEW pg \in CmsPageIds PROVE DOMAIN cmsVersion[pg] = 1..Len(cmsVersion[pg])
  <2>1. cmsVersion[pg] \in Seq(CmsRows)
    BY <1>1, CmsRowOf
  <2> QED BY <2>1
<1>3. CmsTypeOK
  BY <1>1, <1>2 DEF CmsTypeOK, CmsTypes, CmsPointers, CmsIs
<1>4. ASSUME NEW pg \in CmsOnline, NEW row, row = cmsVersion[pg][cmsPage[pg].published]
      PROVE  CmsCleared(pg, row.content, row.saw) /\ pg \in CmsPageIds /\ cmsPage[pg].published # 0
  <2>1. pg \in CmsPageIds /\ cmsPage[pg].published # 0 /\ CmsIs(pg, cmsPage[pg].published, "PUBLISHED")
    BY <1>1 DEF CmsOnline, CmsPointers
  <2>2. CmsVersionOk(pg, cmsPage[pg].published)
    BY <2>1 DEF CmsInv, CmsIs
  <2> QED BY <1>4, <2>1, <2>2 DEF CmsVersionOk, CmsIs
<1>5. CmsSlugClashNeedsOverlap
  <2>1. ASSUME NEW slug, NEW pg \in CmsPublicPages(slug), NEW q \in CmsPublicPages(slug), pg # q,
               NEW row, row = cmsVersion[pg][cmsPage[pg].published], row.saw.published[q] = cmsPage[q].published
        PROVE  FALSE
    <3>1. /\ pg \in CmsOnline /\ q \in CmsOnline /\ row.content.slug = slug
          /\ cmsVersion[q][cmsPage[q].published].content.slug = slug
      BY <2>1 DEF CmsPublicPages, CmsContentOf
    <3>2. CmsCleared(pg, row.content, row.saw) /\ q \in CmsPageIds \ {pg} /\ cmsPage[q].published # 0
      BY <1>4, <2>1, <3>1
    <3> QED BY <2>1, <3>1, <3>2 DEF CmsCleared
  <2> QED BY <2>1 DEF CmsSlugClashNeedsOverlap
<1>6. CmsPublicMediaFollowPage
  <2>1. ASSUME NEW pg \in CmsPageIds
        PROVE  cmsRefs[pg] = IF pg \notin CmsOnline THEN {}
                             ELSE {[version |-> cmsPage[pg].published, media |-> m] :
                                      m \in CmsContentOf(pg, cmsPage[pg].published).media}
    BY <1>1 DEF CmsRefsFollow, CmsRefsOf, CmsOnline, CmsContentOf
  <2>2. ASSUME NEW m \in CmsPublicMedia PROVE cmsMedia[m] = "row"
    <3>1. PICK pg \in CmsPageIds : \E r \in cmsRefs[pg] : r.media = m
      BY DEF CmsPublicMedia
    <3>2. pg \in CmsOnline /\ m \in cmsVersion[pg][cmsPage[pg].published].content.media
      <4>1. PICK r \in cmsRefs[pg] : r.media = m
        BY <3>1
      <4>2. CASE pg \notin CmsOnline
        BY <2>1, <4>1, <4>2
      <4>3. CASE pg \in CmsOnline
        <5>1. cmsRefs[pg] = {[version |-> cmsPage[pg].published, media |-> o] :
                                o \in CmsContentOf(pg, cmsPage[pg].published).media}
          BY <2>1, <4>3
        <5>2. PICK o \in CmsContentOf(pg, cmsPage[pg].published).media :
                 r = [version |-> cmsPage[pg].published, media |-> o]
          BY <4>1, <5>1
        <5> QED BY <4>1, <4>3, <5>2 DEF CmsContentOf
      <4> QED BY <4>2, <4>3
    <3> QED BY <1>4, <3>2 DEF CmsCleared
  <2> QED BY <2>1, <2>2 DEF CmsPublicMediaFollowPage
<1> QED BY <1>3, <1>5, <1>6

(* What visitors of the site may rely on, for any pages, callers, contents, *)
(* partners and media: they see only what was previewed and cleared, a      *)
(* publication misses an edit, and two pages meet on a slug, only when      *)
(* requests overlap, no setting saved or published is lost to another       *)
(* request, and every medium that is public belongs to who shows it         *)
(* (promotePreview, publish, rollback, replacePublishedMedia, designAction, *)
(* seoAction, themes.go).                                                   *)
THEOREM VisitorsSeeWhatWasPublished == CmsSpec /\ SiteSpec /\ BrandSpec => []CmsSafe
<1>1. (CmsInit => CmsInv) /\ (SiteInit => SiteInv) /\ (BrandInit => BrandInv)
  BY CmsInitInv, SiteSafeFrom
<1>2. CmsInv /\ [CmsNext]_cmsVars => CmsInv'
  BY CmsStepInv
<1>3. SiteInv /\ [SiteNext]_siteVars => SiteInv'
  BY SiteStepInv
<1>4. BrandInv /\ [BrandNext]_brandVars => BrandInv'
  BY BrandStepInv
<1>5. CmsInv /\ SiteInv /\ BrandInv => CmsSafe
  BY CmsPublishedSafe, CmsOnlineSafe, SiteSafeFrom DEF CmsSafe, CmsPagesSafe
<1> QED BY <1>1, <1>2, <1>3, <1>4, <1>5, PTL DEF CmsSpec, SiteSpec, BrandSpec

-----------------------------------------------------------------------------
(***************************************************************************)
(* Recurring collection and dunning                                        *)
(***************************************************************************)

\* What a statement may be: its argument is a number of an attempt, a flag,
\* a name, an answer to a charge or an update of the subscription.
DnStatuses == {"ACTIVE", "PAST_DUE", "SUSPENDED", "CANCELLED"}
DnAnswers == {"PROCESSING", "SUCCEEDED"} \cup Failure

DnArgs ==
    (0..3) \cup BOOLEAN
    \cup {"LIVE", "SUSPENDED", "RECOVERED", "NONE", "send", "paid", "cancel"}
    \cup [n : Keys, status : DnAnswers]
    \cup [from : SUBSET DnStatuses, to : DnStatuses]

DnCronOps == {"retry", "plan", "dunning", "archive"}
DnCloserOps == {"purge", "purged"}

DnOps ==
    {"return", "collect", "charge", "pend", "mark", "pastdue", "subscription", "suspend",
     "previous", "lifecycle", "entitle", "suspended", "recover", "recovered", "workflow"}
    \cup DnCronOps \cup DnCloserOps

DnStmts == [op : DnOps, i : Invoices \cup {0}, x : DnArgs]

\* A statement that closes the partner for a purge.
DnCloser(s) ==
    \/ s.op \in DnCloserOps
    \/ s.op = "subscription" /\ s.x.to = "CANCELLED"

\* The purge of an invoice is decided: the day's cycle has selected it (C), it
\* is done, or the cycle is bound to select it today.
DnBound(i, C) ==
    \/ i \in C
    \/ invoice[i].dunning = "PURGED"
    \/ invoice[i].dunning = "SUSPENDED" /\ invoice[i].due <= day

\* What is true of a statement process p has still to execute, other than those
\* that close the partner.
DnFit(s, p, C) ==
    /\ s.op \in {"return", "entitle"} \cup DnCronOps \/ s.i \in Invoices
    /\ s.op \in DnCronOps => p = Cron
    /\ s.op = "charge" => s.x \in Keys /\ invoice[s.i].attempts >= s.x - 1
    /\ s.op = "mark" => /\ s.x \in [n : Keys, status : DnAnswers]
                        /\ charge[<<s.i, s.x.n>>] # "NONE"
    /\ s.op = "subscription" => s.x \in [from : SUBSET (DnStatuses \ {"CANCELLED"}), to : DnStatuses]
    /\ s.op = "previous" => s.x = "LIVE"
    /\ s.op = "lifecycle" => s.x \in {"LIVE", "SUSPENDED"}
    /\ s.op = "entitle" => s.x \in BOOLEAN
    /\ s.op = "recovered" => s.x \in {"RECOVERED", "NONE"}
    /\ s.op = "workflow" => s.x \in {"send", "paid", "cancel"}
    /\ s.op \in {"suspend", "suspended"} => charge[<<s.i, 3>>] # "NONE"
    /\ \/ s.op = "suspended"
       \/ s.op = "lifecycle" /\ s.x = "SUSPENDED"
       \/ s.op = "recovered" /\ s.x = "NONE"
       => ~ DnBound(s.i, C)
    /\ ~ DnCloser(s)

DnFits(p, C) == {s \in DnStmts : DnFit(s, p, C)}

DnCancel == [from |-> {"ACTIVE", "PAST_DUE", "SUSPENDED"}, to |-> "CANCELLED"]

\* What is true of one that does.
DnClose(s, p, C) ==
    /\ DnCloser(s) /\ p = Cron /\ s.i \in C
    /\ s.op = "subscription" => s.x = DnCancel

DnMay(p, C) == {s \in DnStmts : DnFit(s, p, C) \/ DnClose(s, p, C)}

\* A partner is closed, as far as a purge is final.
DnDone(r) == r.lifecycle = "ARCHIVED" /\ r.subscription = "CANCELLED"

\* With the partner in state r, statement s may be executed at once: the partner is
\* archived before its subscription is cancelled, and both before an invoice is
\* marked as purged.
DnNow(s, r) ==
    /\ s.op = "subscription" /\ s.x.to = "CANCELLED" => r.lifecycle = "ARCHIVED"
    /\ s.op = "purged" => DnDone(r)

\* After s, t may be.
DnLeads(s, t) ==
    \/ s.op = "purge" /\ t.op = "subscription"
    \/ s.op = "subscription" /\ s.x = DnCancel /\ t.op = "purged"

\* Each statement may be executed at once or after the one before it.
DnChained(q, r) ==
    \A k \in 1..Len(q) : DnNow(q[k], r) \/ (k > 1 /\ DnLeads(q[k - 1], q[k]))

DnPrograms(p, C) == {q \in Seq(DnMay(p, C)) : DnChained(q, partner)}

\* What is true of an invoice's row.
DnRow(i) ==
    /\ \A n \in Attempts : invoice[i].attempts = n => charge[<<i, n>>] # "NONE"
    /\ charge[<<i, 3>>] # "NONE" => invoice[i].attempts >= 2
    /\ invoice[i].dunning \in {"SUSPENDED", "PURGED"} => charge[<<i, 3>>] # "NONE"
    /\ invoice[i].dunning = "PURGED" => invoice[i].due <= day /\ DnDone(partner)

\* An invoice the cycle has selected today was suspended and its window over.
DnSelected(i) ==
    /\ invoice[i].dunning \in {"SUSPENDED", "RECOVERED", "PURGED"}
    /\ invoice[i].due <= day
    /\ charge[<<i, 3>>] # "NONE"

DnKept(C) ==
    /\ \A i \in Invoices : DnRow(i)
    /\ \A i \in C : DnSelected(i)
    /\ \A p \in Processes : program[p] \in DnPrograms(p, C)

-----------------------------------------------------------------------------
(* Sequences of statements *)

\* Every nonempty set of natural numbers has a least element.
LEMMA DnLeast ==
    ASSUME NEW T, T \subseteq Nat, T # {}
    PROVE  \E x \in T : \A y \in T : x <= y
<1>1. IsWellFoundedOn(OpToRel(<, Nat), Nat) BY NatLessThanWellFounded
<1>2. T \subseteq Nat /\ T # {} OBVIOUS
<1> DEFINE R == OpToRel(<, Nat)
<1>4. PICK x \in T : \A y \in T : ~ (<<y, x>> \in R) BY <1>1, <1>2, WFMin
<1>5. ASSUME NEW y \in T PROVE x <= y
  <2>1. ~ (<<y, x>> \in R) BY <1>4
  <2>2. x \in Nat /\ y \in Nat BY <1>2
  <2>3. ~ (y < x) BY <2>1, <2>2 DEF OpToRel
  <2> QED BY <2>2, <2>3
<1> QED BY <1>5

\* A statement selected in a sequence has a place in it.
LEMMA DnSelected1 ==
    ASSUME NEW q, Len(q) \in Nat
    PROVE  LET r == SelectInSeq(q, LAMBDA x : x.op = "return")
           IN  r \in 0..Len(q) /\ (r # 0 => q[r].op = "return")
<1> DEFINE I == {k \in 1..Len(q) : q[k].op = "return"}
<1>1. CASE I = {} BY <1>1 DEF SelectInSeq
<1>2. CASE I # {}
  <2>0. I \subseteq Nat OBVIOUS
  <2>1. \E x \in I : \A y \in I : x <= y
    <3> HIDE DEF I
    <3> QED BY <1>2, <2>0, DnLeast
  <2>2. Min(I) \in I BY <2>1 DEF Min
  <2>3. SelectInSeq(q, LAMBDA x : x.op = "return") = Min(I) BY <1>2 DEF SelectInSeq
  <2> QED BY <2>2, <2>3
<1> QED BY <1>1, <1>2

\* What is left after an error is a sequence of statements that were there, each
\* with its predecessor; the first comes after a "return".
LEMMA DnUnwinds ==
    ASSUME NEW S, NEW q \in Seq(S)
    PROVE  /\ Unwound(q) \in Seq(S)
           /\ \E r \in 0..Len(q) :
                 /\ Unwound(q) # <<>> => r > 0 /\ q[r].op = "return"
                 /\ Len(Unwound(q)) = (IF Unwound(q) = <<>> THEN 0 ELSE Len(q) - r)
                 /\ \A k \in 1..Len(Unwound(q)) : k + r \in 1..Len(q) /\ Unwound(q)[k] = q[k + r]
<1> DEFINE r == SelectInSeq(q, LAMBDA x : x.op = "return")
           u == SubSeq(q, r + 1, Len(q))
<1>1. Len(q) \in Nat /\ \A k \in 1..Len(q) : q[k] \in S BY LenProperties, ElementOfSeq
<1>2. r \in 0..Len(q) /\ (r # 0 => q[r].op = "return") BY <1>1, DnSelected1
<1>3. Unwound(q) = IF r = 0 THEN <<>> ELSE u BY DEF Unwound
<1> HIDE DEF r
<1>4. CASE r = 0
  <2>1. Unwound(q) = <<>> BY <1>3, <1>4
  <2>2. 0 \in 0..Len(q) BY <1>1
  <2> QED BY <2>1, <2>2, EmptySeq
<1>5. CASE r # 0
  <2>1. Unwound(q) = u BY <1>3, <1>5
  <2>2. /\ u \in Seq(S)
        /\ Len(u) = IF r + 1 <= Len(q) THEN Len(q) - (r + 1) + 1 ELSE 0
        /\ \A k \in 1..Len(q) - (r + 1) + 1 : u[k] = q[(r + 1) + k - 1]
    <3>1. r + 1 \in Int /\ Len(q) \in Int /\ \A k \in r + 1..Len(q) : q[k] \in S BY <1>1, <1>2
    <3> HIDE DEF u
    <3>2. u = SubSeq(q, r + 1, Len(q)) BY DEF u
    <3> QED BY <3>1, <3>2, SubSeqProperties
  <2> HIDE DEF u
  <2>3. Len(u) = Len(q) - r BY <1>1, <1>2, <2>2
  <2>4. u = <<>> => Len(u) = 0 BY EmptySeq
  <2>5. \A k \in 1..Len(u) : k + r \in 1..Len(q) /\ u[k] = q[k + r] BY <1>1, <1>2, <2>2, <2>3
  <2>6. /\ u # <<>> => r > 0 /\ q[r].op = "return"
        /\ Len(u) = IF u = <<>> THEN 0 ELSE Len(q) - r
    BY <1>2, <1>5, <2>3, <2>4
  <2> QED BY <1>2, <2>1, <2>2, <2>5, <2>6
<1> QED BY <1>4, <1>5

\* An operator of FlattenSeq's recursion: the concatenation of the first sequences.
DnFlattens(f, seqs, n) ==
    f = [k \in 1..n |-> IF k = 1 THEN seqs[k] ELSE f[k - 1] \o seqs[k]]

\* The recursion has a solution for every number of sequences.
LEMMA DnFlattenExists ==
    ASSUME NEW seqs, NEW n \in Nat
    PROVE  \E f : DnFlattens(f, seqs, n)
<1> DEFINE Bad == {k \in Nat : ~ \E f : DnFlattens(f, seqs, k)}
<1>1. SUFFICES ASSUME Bad # {} PROVE FALSE OBVIOUS
<1>2. PICK m \in Bad : \A y \in Bad : m <= y
  <2> HIDE DEF Bad
  <2>1. Bad \subseteq Nat BY DEF Bad
  <2> QED BY <1>1, <2>1, DnLeast
<1>3. m # 0
  <2>1. DnFlattens([k \in 1..0 |-> k], seqs, 0) BY DEF DnFlattens
  <2> QED BY <2>1
<1>4. m \in Nat /\ m - 1 \in Nat /\ m - 1 \notin Bad BY <1>2, <1>3
<1>5. PICK g : DnFlattens(g, seqs, m - 1) BY <1>4
<1> DEFINE h == [k \in 1..m |-> IF k = m THEN (IF m = 1 THEN seqs[m] ELSE g[m - 1] \o seqs[m]) ELSE g[k]]
<1>6. ASSUME NEW k \in 1..m
      PROVE  h[k] = IF k = 1 THEN seqs[k] ELSE h[k - 1] \o seqs[k]
  <2>1. CASE k = m
    <3>1. CASE m = 1 BY <2>1, <3>1
    <3>2. CASE m # 1
      <4>1. m - 1 \in 1..m /\ m - 1 # m BY <1>4, <1>3, <3>2
      <4>2. h[m - 1] = g[m - 1] BY <4>1
      <4> QED BY <2>1, <3>2, <4>2
    <3> QED BY <3>1, <3>2
  <2>2. CASE k # m
    <3>1. k \in 1..(m - 1) BY <1>4, <2>2
    <3>2. g[k] = IF k = 1 THEN seqs[k] ELSE g[k - 1] \o seqs[k] BY <1>5, <3>1 DEF DnFlattens
    <3>3. h[k] = g[k] BY <2>2
    <3>4. CASE k = 1 BY <3>2, <3>3, <3>4
    <3>5. CASE k # 1
      <4>1. k - 1 \in 1..m /\ k - 1 # m BY <1>4, <3>1, <3>5
      <4>2. h[k - 1] = g[k - 1] BY <4>1
      <4> QED BY <3>2, <3>3, <3>5, <4>2
    <3> QED BY <3>4, <3>5
  <2> QED BY <2>1, <2>2
<1>7. h = [k \in 1..m |-> IF k = 1 THEN seqs[k] ELSE h[k - 1] \o seqs[k]]
  <2>1. h = [k \in 1..m |-> h[k]] OBVIOUS
  <2> HIDE DEF h
  <2> QED BY <1>6, <2>1
<1>8. DnFlattens(h, seqs, m)
  <2> HIDE DEF h
  <2> QED BY <1>7 DEF DnFlattens
<1> QED BY <1>2, <1>8

\* The concatenation of sequences is one of a kind, when that of two is.
LEMMA DnFlatten ==
    ASSUME NEW T, NEW n \in Nat, NEW seqs, Len(seqs) = n, n = 0 => seqs = <<>>,
           <<>> \in T, \A a, b \in T : a \o b \in T, \A k \in 1..n : seqs[k] \in T
    PROVE  FlattenSeq(seqs) \in T
<1>1. CASE n = 0 BY <1>1 DEF FlattenSeq
<1>2. CASE n # 0
  <2> DEFINE f == CHOOSE f : DnFlattens(f, seqs, n)
  <2>1. DnFlattens(f, seqs, n)
    <3> DEFINE F(g) == DnFlattens(g, seqs, n)
    <3>1. \E g : F(g) BY DnFlattenExists
    <3> HIDE DEF F
    <3>2. F(CHOOSE g : F(g)) BY <3>1
    <3> QED BY <3>2 DEF F
  <2>2. FlattenSeq(seqs) = f[n] BY <1>2 DEF FlattenSeq, DnFlattens
  <2> HIDE DEF f
  <2> DEFINE Bad == {k \in Nat : k \in 1..n /\ f[k] \notin T}
  <2>3. CASE Bad = {}
    <3>1. n \in 1..n BY <1>2
    <3> QED BY <2>2, <2>3, <3>1
  <2>4. CASE Bad # {}
    <3>1. PICK m \in Bad : \A y \in Bad : m <= y
      <4>1. Bad \subseteq Nat OBVIOUS
      <4> HIDE DEF Bad
      <4> QED BY <2>4, <4>1, DnLeast
    <3>2. m \in 1..n /\ f[m] \notin T BY <3>1
    <3>3. f[m] = IF m = 1 THEN seqs[m] ELSE f[m - 1] \o seqs[m] BY <2>1, <3>2 DEF DnFlattens
    <3>4. seqs[m] \in T BY <3>2
    <3>5. m # 1 BY <3>2, <3>3, <3>4
    <3>6. m - 1 \in 1..n BY <3>2, <3>5
    <3>7. f[m - 1] \in T BY <3>1, <3>6
    <3>8. f[m - 1] \o seqs[m] \in T BY <3>4, <3>7
    <3> QED BY <3>2, <3>3, <3>5, <3>8
  <2> QED BY <2>3, <2>4
<1> QED BY <1>1, <1>2

\* What the day's cycle does for each invoice is a sequence of statements, when what
\* it does for each one is.
DnForEach(b) == LET s == SetToSeq(Invoices) IN FlattenSeq([k \in DOMAIN s |-> b[s[k]]])

\* The sequence SetToSeq makes of the invoices.
LEMMA DnInvoiceSeq ==
    /\ SetToSeq(Invoices) \in [1..Cardinality(Invoices) -> Invoices]
    /\ Cardinality(Invoices) \in Nat
<1>1. PICK n \in Nat : ExistsBijection(1..n, Invoices) BY DunningAssumption, FS_NatBijection
<1>2. Cardinality(Invoices) = n BY <1>1, FS_CountingElements
<1>3. PICK f \in Bijection(1..n, Invoices) : TRUE BY <1>1 DEF ExistsBijection
<1>4. f \in [1..n -> Invoices] /\ IsInjective(f)
  BY <1>3 DEF Bijection, Injection, IsInjective
<1> DEFINE P(g) == g \in [1..Cardinality(Invoices) -> Invoices] /\ IsInjective(g)
<1>5. \E g : P(g) BY <1>2, <1>4
<1>6. SetToSeq(Invoices) = CHOOSE g : P(g) BY DEF SetToSeq
<1> HIDE DEF P
<1>7. P(SetToSeq(Invoices)) BY <1>5, <1>6
<1> QED BY <1>2, <1>7 DEF P

\* The state, typed and kept, with the invoices C selected for a purge today.
DnState(C) == TypeOK /\ C \subseteq Invoices /\ DnKept(C)

\* An archived partner stays archived, and a cancelled subscription cancelled.
DnLasts(r, r1) ==
    /\ r.lifecycle = "ARCHIVED" => r1.lifecycle = "ARCHIVED"
    /\ r.subscription = "CANCELLED" => r1.subscription = "CANCELLED"

\* Attempts and charges are not taken back, and no invoice comes to be purged that
\* was not bound to be.
DnAdvances(C) ==
    /\ \A i \in Invoices : invoice'[i].attempts >= invoice[i].attempts
    /\ \A c \in Charges : charge[c] # "NONE" => charge'[c] # "NONE"
    /\ \A i \in Invoices : DnBound(i, C)' => DnBound(i, C)
    /\ DnLasts(partner, partner')

\* A step that keeps the state advances it.
DnStep(C) == DnState(C)' /\ DnAdvances(C)

\* The types of everything but the programs.
DnTyped ==
    /\ invoice \in [Invoices -> InvoiceRow]
    /\ partner \in PartnerState
    /\ charge \in [Charges -> {"NONE", "PROCESSING", "SUCCEEDED"} \cup Failure]
    /\ report \in [Charges -> {"NONE", "DUE", "SETTLED"}]
    /\ day \in 0..LastDay
    /\ cycled \in BOOLEAN
    /\ faults \in 0..MaxFaults

\* What an action leaves of the rows and the selection.
DnRowsKept(C) ==
    /\ \A i \in Invoices : DnRow(i)
    /\ \A i \in C : DnSelected(i)

\* The fields of a row.
LEMMA DnRowFields ==
    ASSUME NEW r \in InvoiceRow
    PROVE  /\ r.attempts \in 0..3
           /\ r.due \in {NoDay} \cup (0..(LastDay + CureDays))
           /\ r.due \in Int
           /\ r.dunning \in {"NONE", "COLLECTING", "PAST_DUE", "SUSPENDED", "RECOVERED", "PURGED"}
           /\ r.status \in {"DRAFT", "PAID", "CANCELLED"}
           /\ r.workflow \in {"APPROVED", "SENT", "PAID", "CANCELLED"}
           /\ r.paidAt \in {NoDay} \cup (0..LastDay)
           /\ r.previous \in {"", "LIVE"}
           /\ r.ledger \in SUBSET Actions
<1> USE DEF InvoiceRow
<1>1. r.attempts \in 0..3 OBVIOUS
<1>2. r.due \in {NoDay} \cup (0..(LastDay + CureDays)) OBVIOUS
<1>3. r.dunning \in {"NONE", "COLLECTING", "PAST_DUE", "SUSPENDED", "RECOVERED", "PURGED"} OBVIOUS
<1>4. r.status \in {"DRAFT", "PAID", "CANCELLED"} OBVIOUS
<1>5. r.workflow \in {"APPROVED", "SENT", "PAID", "CANCELLED"} OBVIOUS
<1>6. r.paidAt \in {NoDay} \cup (0..LastDay) OBVIOUS
<1>7. r.previous \in {"", "LIVE"} OBVIOUS
<1>9. r.ledger \in SUBSET Actions OBVIOUS
<1> HIDE DEF InvoiceRow
<1>8. r.due \in Int BY <1>2, DunningAssumption DEF NoDay
<1> QED BY <1>1, <1>2, <1>3, <1>4, <1>5, <1>6, <1>7, <1>8, <1>9

\* Attempts are numbers in every row.
LEMMA DnAttempts ==
    ASSUME NEW f \in [Invoices -> InvoiceRow], NEW i \in Invoices
    PROVE  f[i] \in InvoiceRow /\ f[i].attempts \in Int /\ f[i].due \in Int
<1>1. f[i] \in InvoiceRow OBVIOUS
<1>2. PICK r : r = f[i] OBVIOUS
<1>3. r.attempts \in 0..3 /\ r.due \in Int BY <1>1, <1>2, DnRowFields
<1> QED BY <1>1, <1>2, <1>3

\* A statement stays what it was when the state advances.
LEMMA DnFitsStay ==
    ASSUME NEW C, NEW p, C \subseteq Invoices, DnAdvances(C), TypeOK, DnTyped'
    PROVE  DnFits(p, C) \subseteq DnFits(p, C)' /\ DnMay(p, C) \subseteq DnMay(p, C)'
<1>1. SUFFICES ASSUME NEW s \in DnStmts, DnFit(s, p, C) PROVE DnFit(s, p, C)'
  BY DEF DnFits, DnMay, DnClose
<1>2. s.op \in {"return", "entitle"} \cup DnCronOps \/ s.i \in Invoices BY <1>1 DEF DnFit
<1>3. s.op = "charge" => s.x \in Keys /\ invoice'[s.i].attempts >= s.x - 1
  <2>1. SUFFICES ASSUME s.op = "charge" PROVE s.x \in Keys /\ invoice'[s.i].attempts >= s.x - 1
    OBVIOUS
  <2>2. s.i \in Invoices BY <1>2, <2>1 DEF DnCronOps
  <2>3. s.x \in Keys /\ invoice[s.i].attempts >= s.x - 1 BY <1>1, <2>1 DEF DnFit
  <2>4. invoice'[s.i].attempts >= invoice[s.i].attempts BY <2>2 DEF DnAdvances
  <2>5. invoice[s.i].attempts \in Int /\ invoice'[s.i].attempts \in Int
    BY <2>2, DnAttempts DEF TypeOK, DnTyped
  <2> QED BY <2>3, <2>4, <2>5 DEF Keys, Attempts
<1>4. s.op = "mark" => /\ s.x \in [n : Keys, status : DnAnswers]
                       /\ charge'[<<s.i, s.x.n>>] # "NONE"
  <2>1. SUFFICES ASSUME s.op = "mark"
                 PROVE  s.x \in [n : Keys, status : DnAnswers] /\ charge'[<<s.i, s.x.n>>] # "NONE"
    OBVIOUS
  <2>2. s.i \in Invoices BY <1>2, <2>1 DEF DnCronOps
  <2>3. s.x \in [n : Keys, status : DnAnswers] /\ charge[<<s.i, s.x.n>>] # "NONE"
    BY <1>1, <2>1 DEF DnFit
  <2>4. <<s.i, s.x.n>> \in Charges BY <2>2, <2>3 DEF Charges
  <2> QED BY <2>3, <2>4 DEF DnAdvances
<1>5. s.op \in {"suspend", "suspended"} => charge'[<<s.i, 3>>] # "NONE"
  <2>1. SUFFICES ASSUME s.op \in {"suspend", "suspended"} PROVE charge'[<<s.i, 3>>] # "NONE"
    OBVIOUS
  <2>2. s.i \in Invoices BY <1>2, <2>1 DEF DnCronOps
  <2>3. charge[<<s.i, 3>>] # "NONE" BY <1>1, <2>1 DEF DnFit
  <2>4. <<s.i, 3>> \in Charges BY <2>2 DEF Charges, Keys, Attempts
  <2> QED BY <2>3, <2>4 DEF DnAdvances
<1>6. \/ s.op = "suspended"
      \/ s.op = "lifecycle" /\ s.x = "SUSPENDED"
      \/ s.op = "recovered" /\ s.x = "NONE"
      => ~ DnBound(s.i, C)'
  <2>1. SUFFICES ASSUME \/ s.op = "suspended"
                        \/ s.op = "lifecycle" /\ s.x = "SUSPENDED"
                        \/ s.op = "recovered" /\ s.x = "NONE"
                 PROVE  ~ DnBound(s.i, C)'
    OBVIOUS
  <2>2. s.i \in Invoices BY <1>2, <2>1 DEF DnCronOps
  <2>3. ~ DnBound(s.i, C) BY <1>1, <2>1 DEF DnFit
  <2> QED BY <2>2, <2>3 DEF DnAdvances
<1> QED BY <1>1, <1>2, <1>3, <1>4, <1>5, <1>6 DEF DnFit

-----------------------------------------------------------------------------
(* Statements in a chain *)

\* Statements that close nothing are a chain.
LEMMA DnPlain ==
    ASSUME NEW S, NEW q \in Seq(S), NEW r, \A s \in S : ~ DnCloser(s)
    PROVE  DnChained(q, r)
<1>1. ASSUME NEW k \in 1..Len(q) PROVE DnNow(q[k], r)
  <2>1. q[k] \in S BY LenProperties, ElementOfSeq
  <2> QED BY <2>1 DEF DnNow, DnCloser, DnCloserOps
<1> QED BY <1>1 DEF DnChained

\* What may be executed at once still may, when the partner stays closed.
LEMMA DnNowLasts ==
    ASSUME NEW s, NEW r, NEW r1, DnLasts(r, r1), DnNow(s, r)
    PROVE  DnNow(s, r1)
BY DEF DnLasts, DnNow, DnDone

\* A chain stays one.
LEMMA DnChainLasts ==
    ASSUME NEW q, NEW r, NEW r1, DnLasts(r, r1), DnChained(q, r)
    PROVE  DnChained(q, r1)
BY DnNowLasts DEF DnChained

\* One chain after another is a chain.
LEMMA DnChainConcat ==
    ASSUME NEW S, NEW a \in Seq(S), NEW b \in Seq(S), NEW r, DnChained(a, r), DnChained(b, r)
    PROVE  a \o b \in Seq(S) /\ DnChained(a \o b, r)
<1> DEFINE q == a \o b
<1>1. /\ q \in Seq(S)
      /\ Len(q) = Len(a) + Len(b)
      /\ \A k \in 1..Len(a) + Len(b) : q[k] = IF k <= Len(a) THEN a[k] ELSE b[k - Len(a)]
  BY ConcatProperties
<1>2. Len(a) \in Nat /\ Len(b) \in Nat BY LenProperties
<1> HIDE DEF q
<1>3. ASSUME NEW k \in 1..Len(q) PROVE DnNow(q[k], r) \/ (k > 1 /\ DnLeads(q[k - 1], q[k]))
  <2>1. CASE k <= Len(a)
    <3>1. k \in 1..Len(a) /\ q[k] = a[k] BY <1>1, <1>2, <2>1
    <3>2. k > 1 => q[k - 1] = a[k - 1] BY <1>1, <1>2, <2>1
    <3>3. DnNow(a[k], r) \/ (k > 1 /\ DnLeads(a[k - 1], a[k])) BY <3>1 DEF DnChained
    <3> QED BY <3>1, <3>2, <3>3
  <2>2. CASE ~ (k <= Len(a))
    <3> DEFINE m == k - Len(a)
    <3>1. m \in 1..Len(b) /\ q[k] = b[m] BY <1>1, <1>2, <2>2
    <3>2. m > 1 => k > 1 /\ q[k - 1] = b[m - 1] BY <1>1, <1>2, <2>2
    <3> HIDE DEF m
    <3>3. DnNow(b[m], r) \/ (m > 1 /\ DnLeads(b[m - 1], b[m])) BY <3>1 DEF DnChained
    <3> QED BY <3>1, <3>2, <3>3
  <2> QED BY <2>1, <2>2
<1>4. DnChained(q, r) BY <1>3 DEF DnChained
<1> QED BY <1>1, <1>4 DEF q

\* The first statement of a chain may be executed at once; when it has made what it
\* leads to executable, the rest is a chain.
LEMMA DnChainHead ==
    ASSUME NEW S, NEW q \in Seq(S), q # <<>>, NEW r, NEW r1, DnChained(q, r)
    PROVE  /\ DnNow(Head(q), r)
           /\ DnLasts(r, r1) /\ (\A t : DnLeads(Head(q), t) => DnNow(t, r1)) => DnChained(Tail(q), r1)
<1>1. /\ Head(q) = q[1]
      /\ Len(q) \in Nat /\ Len(q) >= 1
      /\ Len(Tail(q)) = Len(q) - 1
      /\ \A k \in 1..Len(Tail(q)) : Tail(q)[k] = q[k + 1]
  <2>1. Len(q) \in Nat /\ Len(q) # 0 BY LenProperties, EmptySeq
  <2>2. Head(q) = q[1] /\ Len(Tail(q)) = Len(q) - 1 /\ \A k \in 1..Len(Tail(q)) : Tail(q)[k] = q[k + 1]
    BY HeadTailProperties
  <2> QED BY <2>1, <2>2
<1>2. \A k \in 1..Len(q) : DnNow(q[k], r) \/ (k > 1 /\ DnLeads(q[k - 1], q[k])) BY DEF DnChained
<1>3. DnNow(Head(q), r)
  <2>1. 1 \in 1..Len(q) /\ ~ (1 > 1) BY <1>1
  <2>2. DnNow(q[1], r) BY <1>2, <2>1
  <2> QED BY <1>1, <2>2
<1>4. ASSUME DnLasts(r, r1), \A t : DnLeads(Head(q), t) => DnNow(t, r1),
             NEW k \in 1..Len(Tail(q))
      PROVE  DnNow(Tail(q)[k], r1) \/ (k > 1 /\ DnLeads(Tail(q)[k - 1], Tail(q)[k]))
  <2>1. k + 1 \in 1..Len(q) /\ (k + 1) - 1 = k /\ k \in 1..Len(q) BY <1>1
  <2>2. Tail(q)[k] = q[k + 1] BY <1>1
  <2>3. DnNow(q[k + 1], r) \/ DnLeads(q[k], q[k + 1])
    <3>1. DnNow(q[k + 1], r) \/ DnLeads(q[(k + 1) - 1], q[k + 1]) BY <1>2, <2>1
    <3> QED BY <2>1, <3>1
  <2>4. CASE DnNow(q[k + 1], r) BY <1>4, <2>2, <2>4, DnNowLasts
  <2>5. CASE DnLeads(q[k], q[k + 1]) /\ k = 1 BY <1>1, <1>4, <2>2, <2>5
  <2>6. CASE DnLeads(q[k], q[k + 1]) /\ k # 1
    <3>1. k - 1 \in 1..Len(Tail(q)) /\ (k - 1) + 1 = k /\ k > 1 BY <1>1, <2>6
    <3>2. Tail(q)[k - 1] = q[k]
      <4>1. Tail(q)[k - 1] = q[(k - 1) + 1] BY <1>1, <3>1
      <4> QED BY <3>1, <4>1
    <3> QED BY <2>2, <2>6, <3>1, <3>2
  <2> QED BY <2>3, <2>4, <2>5, <2>6
<1>5. ASSUME DnLasts(r, r1), \A t : DnLeads(Head(q), t) => DnNow(t, r1)
      PROVE  DnChained(Tail(q), r1)
  BY <1>4, <1>5 DEF DnChained
<1> QED BY <1>3, <1>5

\* What is left after an error is a chain: a "return" leads to nothing.
LEMMA DnChainUnwinds ==
    ASSUME NEW S, NEW q \in Seq(S), NEW r, DnChained(q, r)
    PROVE  Unwound(q) \in Seq(S) /\ DnChained(Unwound(q), r)
<1> DEFINE u == Unwound(q)
<1>1. u \in Seq(S) BY DnUnwinds
<1>2. PICK m \in 0..Len(q) :
         /\ u # <<>> => m > 0 /\ q[m].op = "return"
         /\ \A k \in 1..Len(u) : k + m \in 1..Len(q) /\ u[k] = q[k + m]
  BY DnUnwinds
<1> HIDE DEF u
<1>3. ASSUME NEW k \in 1..Len(u) PROVE DnNow(u[k], r) \/ (k > 1 /\ DnLeads(u[k - 1], u[k]))
  <2>1. Len(u) \in Nat /\ Len(q) \in Nat BY <1>1, LenProperties
  <2>2. u # <<>> BY <2>1, EmptySeq
  <2>3. m > 0 /\ q[m].op = "return" BY <1>2, <2>2
  <2>4. k + m \in 1..Len(q) /\ u[k] = q[k + m] BY <1>2
  <2>5. DnNow(q[k + m], r) \/ DnLeads(q[(k + m) - 1], q[k + m]) BY <2>4 DEF DnChained
  <2>6. CASE k = 1
    <3>1. (k + m) - 1 = m BY <2>6
    <3>2. ~ DnLeads(q[m], q[k + m]) BY <2>3 DEF DnLeads
    <3> QED BY <2>4, <2>5, <3>1, <3>2
  <2>7. CASE k # 1
    <3>1. k - 1 \in 1..Len(u) /\ (k - 1) + m = (k + m) - 1 /\ k > 1 BY <2>1, <2>7
    <3>2. u[k - 1] = q[(k - 1) + m] BY <1>2, <3>1
    <3> QED BY <2>4, <2>5, <3>1, <3>2
  <2> QED BY <2>6, <2>7
<1>4. DnChained(u, r) BY <1>3 DEF DnChained
<1> QED BY <1>1, <1>4 DEF u

\* The programs of the processes.
LEMMA DnProgramIs ==
    ASSUME NEW C, NEW p, NEW q
    PROVE  q \in DnPrograms(p, C) <=> q \in Seq(DnMay(p, C)) /\ DnChained(q, partner)
BY DEF DnPrograms

\* Statements that fit are a program.
LEMMA DnFitsAreProgram ==
    ASSUME NEW C, NEW p, NEW q \in Seq(DnFits(p, C))
    PROVE  q \in Seq(DnMay(p, C)) /\ \A r : DnChained(q, r)
<1> DEFINE F == DnFits(p, C)
           M == DnMay(p, C)
<1>1. F \subseteq M BY DEF DnFits, DnMay
<1>2. \A s \in F : ~ DnCloser(s) BY DEF DnFits, DnFit
<1> HIDE DEF F, M
<1>3. q \in Seq(F) BY DEF F
<1>4. q \in Seq(M) BY <1>1, <1>3, SeqMonotonic
<1>5. \A r : DnChained(q, r) BY <1>2, <1>3, DnPlain
<1> QED BY <1>4, <1>5 DEF M

\* Statements that will fit will be a program.
LEMMA DnFitsWillBeProgram ==
    ASSUME NEW C, NEW p, NEW q \in Seq(DnFits(p, C)')
    PROVE  q \in DnPrograms(p, C)'
<1> DEFINE F == DnFits(p, C)'
           M == DnMay(p, C)'
<1>1. F \subseteq M BY DEF DnFits, DnMay
<1>2. \A s \in F : ~ DnCloser(s) BY DEF DnFits, DnFit
<1> HIDE DEF F, M
<1>3. q \in Seq(F) BY DEF F
<1>4. q \in Seq(M) BY <1>1, <1>3, SeqMonotonic
<1>5. PICK r1 : r1 = partner' OBVIOUS
<1>6. DnChained(q, r1) BY <1>2, <1>3, DnPlain
<1> QED BY <1>4, <1>5, <1>6 DEF DnPrograms, M

\* A program stays one when the state advances.
LEMMA DnProgramStays ==
    ASSUME NEW C, NEW p, C \subseteq Invoices, DnAdvances(C), TypeOK, DnTyped',
           NEW q \in DnPrograms(p, C)
    PROVE  q \in DnPrograms(p, C)'
<1> DEFINE M == DnMay(p, C)
           N == DnMay(p, C)'
<1>1. M \subseteq N BY DnFitsStay
<1>2. q \in Seq(M) /\ DnChained(q, partner) BY DEF DnPrograms
<1> HIDE DEF M, N
<1>3. q \in Seq(N) BY <1>1, <1>2, SeqMonotonic
<1>4. PICK r, r1 : r = partner /\ r1 = partner' OBVIOUS
<1>5. DnLasts(r, r1) BY <1>4 DEF DnAdvances
<1>6. DnChained(q, r) BY <1>2, <1>4
<1>7. DnChained(q, r1) BY <1>5, <1>6, DnChainLasts
<1> QED BY <1>3, <1>4, <1>7 DEF DnPrograms, N

\* What a process may go on with.
DnNew(p, C, new) ==
    new \in Seq(DnFits(p, C)) \/ new \in Seq(DnFits(p, C)') \/ new \in DnPrograms(p, C)'

\* It will be a program.
LEMMA DnNewIsProgram ==
    ASSUME NEW C, NEW p, NEW new, C \subseteq Invoices, DnAdvances(C), TypeOK, DnTyped',
           DnNew(p, C, new)
    PROVE  new \in DnPrograms(p, C)'
<1>1. CASE new \in Seq(DnFits(p, C))
  <2>1. new \in DnPrograms(p, C) BY <1>1, DnFitsAreProgram DEF DnPrograms
  <2> QED BY <2>1, DnProgramStays
<1>2. CASE new \in Seq(DnFits(p, C)') BY <1>2, DnFitsWillBeProgram
<1> QED BY <1>1, <1>2 DEF DnNew

\* A process that goes on with another program leaves the state kept, when the data
\* is kept.
LEMMA DnGoesOn ==
    ASSUME NEW C, NEW p \in Processes, NEW new, DnState(C), DnAdvances(C), DnTyped', DnRowsKept(C)',
           program' = [program EXCEPT ![p] = new], DnNew(p, C, new)
    PROVE  DnStep(C)
<1>1. TypeOK /\ C \subseteq Invoices /\ DnKept(C) BY DEF DnState
<1>2. DOMAIN program = Processes BY <1>1 DEF TypeOK
<1>3. DOMAIN program' = Processes BY <1>2
<1>4. TypeOK' BY <1>3 DEF TypeOK, DnTyped
<1>5. ASSUME NEW q \in Processes PROVE program'[q] \in DnPrograms(q, C)'
  <2>1. CASE q = p
    <3>1. program'[q] = new BY <1>2, <2>1
    <3>2. new \in DnPrograms(p, C)' BY <1>1, DnNewIsProgram
    <3> QED BY <2>1, <3>1, <3>2
  <2>2. CASE q # p
    <3>1. program'[q] = program[q] BY <1>2, <2>2
    <3>2. PICK o : o = program[q] OBVIOUS
    <3>3. o \in DnPrograms(q, C) BY <1>1, <3>2 DEF DnKept
    <3>4. o \in DnPrograms(q, C)' BY <1>1, <3>3, DnProgramStays
    <3> QED BY <3>1, <3>2, <3>4
  <2> QED BY <2>1, <2>2
<1>6. DnKept(C)'
  <2>1. (\A i \in Invoices : DnRow(i))' /\ (\A i \in C : DnSelected(i))' BY DEF DnRowsKept
  <2> QED BY <1>5, <2>1 DEF DnKept
<1> QED BY <1>1, <1>4, <1>6 DEF DnState, DnStep

\* An action that writes neither invoices nor charges keeps the data.
LEMMA DnReads ==
    ASSUME NEW C, DnState(C), UNCHANGED <<invoice, charge, day>>,
           partner' \in PartnerState, report' = report, cycled' \in BOOLEAN, faults' \in 0..MaxFaults,
           DnLasts(partner, partner')
    PROVE  DnAdvances(C) /\ DnTyped' /\ DnRowsKept(C)'
<1>1. TypeOK /\ C \subseteq Invoices /\ DnKept(C) BY DEF DnState
<1>2. DnTyped' BY <1>1 DEF TypeOK, DnTyped
<1>3. DnAdvances(C)
  <2>1. ASSUME NEW i \in Invoices PROVE invoice'[i].attempts >= invoice[i].attempts
    <3>1. invoice[i].attempts \in Int BY <1>1, DnAttempts DEF TypeOK
    <3> QED BY <3>1
  <2> QED BY <2>1 DEF DnAdvances, DnBound
<1>4. (\A i \in Invoices : DnRow(i)) /\ (\A i \in C : DnSelected(i)) BY <1>1 DEF DnKept
<1>5. ASSUME NEW i \in Invoices PROVE DnRow(i)'
  <2>1. DnRow(i) BY <1>4
  <2>2. DnDone(partner) => DnDone(partner') BY DEF DnLasts, DnDone
  <2> QED BY <2>1, <2>2 DEF DnRow
<1>6. DnRowsKept(C)' BY <1>4, <1>5 DEF DnRowsKept, DnSelected
<1> QED BY <1>2, <1>3, <1>6

\* What a row may become: its attempts are charged, its suspension earned, a purge
\* waits for the day due, and it is not bound to be purged unless it was.
DnRowMay(r, i, C) ==
    /\ r \in InvoiceRow
    /\ r.attempts >= invoice[i].attempts
    /\ \A n \in Attempts : r.attempts = n => charge[<<i, n>>] # "NONE"
    /\ r.dunning \in {"SUSPENDED", "PURGED"} => charge[<<i, 3>>] # "NONE"
    /\ r.dunning = "PURGED" => r.due <= day /\ DnDone(partner)
    /\ i \in C => r.dunning \in {"SUSPENDED", "RECOVERED", "PURGED"} /\ r.due <= day
    /\ r.dunning = "PURGED" \/ (r.dunning = "SUSPENDED" /\ r.due <= day) => DnBound(i, C)

\* An action that writes one row keeps the data when the row may become that.
LEMMA DnWritesRow ==
    ASSUME NEW C, NEW i \in Invoices, NEW r, DnState(C), DnRowMay(r, i, C),
           invoice' = [invoice EXCEPT ![i] = r],
           UNCHANGED <<partner, charge, day, cycled, faults>>,
           report' \in [Charges -> {"NONE", "DUE", "SETTLED"}]
    PROVE  DnAdvances(C) /\ DnTyped' /\ DnRowsKept(C)'
<1>1. TypeOK /\ C \subseteq Invoices /\ DnKept(C) BY DEF DnState
<1>2. invoice \in [Invoices -> InvoiceRow] BY <1>1 DEF TypeOK
<1>3. \A j \in Invoices : invoice'[j] = IF j = i THEN r ELSE invoice[j] BY <1>2
<1>4. invoice' \in [Invoices -> InvoiceRow] BY <1>2 DEF DnRowMay
<1>5. DnTyped' BY <1>1, <1>4 DEF TypeOK, DnTyped
<1>6. DnAdvances(C)
  <2>1. ASSUME NEW j \in Invoices PROVE invoice'[j].attempts >= invoice[j].attempts
    <3>1. invoice[j].attempts \in Int BY <1>2, DnAttempts
    <3> QED BY <1>3, <3>1 DEF DnRowMay
  <2>2. ASSUME NEW j \in Invoices, DnBound(j, C)' PROVE DnBound(j, C)
    BY <1>3, <2>2 DEF DnBound, DnRowMay
  <2>3. DnLasts(partner, partner') BY DEF DnLasts
  <2> QED BY <2>1, <2>2, <2>3 DEF DnAdvances
<1>7. (\A j \in Invoices : DnRow(j)) /\ (\A j \in C : DnSelected(j)) BY <1>1 DEF DnKept
<1>8. ASSUME NEW j \in Invoices PROVE DnRow(j)'
  <2>1. CASE j = i
    <3>1. invoice'[j] = r BY <1>3, <2>1
    <3>2. charge[<<i, 3>>] # "NONE" => invoice[i].attempts >= 2 BY <1>7 DEF DnRow
    <3>3. invoice[i].attempts \in Int /\ r.attempts \in Int
      <4>1. r \in InvoiceRow BY DEF DnRowMay
      <4>2. r.attempts \in 0..3 BY <4>1, DnRowFields
      <4> QED BY <1>2, <4>2, DnAttempts
    <3>4. charge[<<i, 3>>] # "NONE" => r.attempts >= 2 BY <3>2, <3>3 DEF DnRowMay
    <3> QED BY <2>1, <3>1, <3>4 DEF DnRow, DnRowMay
  <2>2. CASE j # i
    <3>1. invoice'[j] = invoice[j] BY <1>3, <2>2
    <3> QED BY <1>7, <3>1 DEF DnRow
  <2> QED BY <2>1, <2>2
<1>9. ASSUME NEW j \in C PROVE DnSelected(j)'
  <2>1. j \in Invoices /\ DnSelected(j) BY <1>1, <1>7
  <2>2. CASE j = i
    <3>1. invoice'[j] = r BY <1>3, <2>1, <2>2
    <3> QED BY <2>1, <2>2, <3>1 DEF DnSelected, DnRowMay
  <2>3. CASE j # i
    <3>1. invoice'[j] = invoice[j] BY <1>3, <2>1, <2>3
    <3> QED BY <2>1, <3>1 DEF DnSelected
  <2> QED BY <2>2, <2>3
<1>10. DnRowsKept(C)' BY <1>8, <1>9 DEF DnRowsKept
<1> QED BY <1>5, <1>6, <1>10

\* A statement is made of what it does, to which invoice, with which argument.
LEMMA DnMade ==
    ASSUME NEW op \in DnOps, NEW i \in Invoices \cup {0}, NEW x \in DnArgs
    PROVE  /\ Stmt(op, i, x) \in DnStmts
           /\ Stmt(op, i, x).op = op /\ Stmt(op, i, x).i = i /\ Stmt(op, i, x).x = x
BY DEF Stmt, DnStmts

\* The arguments statements are made with.
LEMMA DnArgNumbers == 0 \in DnArgs /\ Keys \subseteq DnArgs
BY DEF DnArgs, Keys, Attempts

\* Flags are arguments.
LEMMA DnArgFlags == BOOLEAN \subseteq DnArgs
BY Zenon DEF DnArgs

\* So are the names of states and actions.
LEMMA DnArgNames ==
    {"LIVE", "SUSPENDED", "RECOVERED", "NONE", "send", "paid", "cancel"} \subseteq DnArgs
BY Zenon DEF DnArgs

\* So are the answers to charges.
LEMMA DnArgAnswers == [n : Keys, status : DnAnswers] \subseteq DnArgs
BY Zenon DEF DnArgs

\* So are updates of the subscription.
LEMMA DnArgUpdates == [from : SUBSET DnStatuses, to : DnStatuses] \subseteq DnArgs
BY Zenon DEF DnArgs

\* Statements without an argument that any process may come to execute.
LEMMA DnFitsBare ==
    ASSUME NEW C, NEW p, NEW i \in Invoices,
           NEW op \in {"return", "collect", "pend", "pastdue", "recover"}
    PROVE  Stmt(op, i, 0) \in DnFits(p, C)
<1>1. PICK s : s = Stmt(op, i, 0) OBVIOUS
<1>0. op \in DnOps /\ i \in Invoices \cup {0} /\ 0 \in DnArgs BY DnArgNumbers DEF DnOps
<1>2. s \in DnStmts /\ s.op = op /\ s.i = i BY <1>0, <1>1, DnMade
<1>3. DnFit(s, p, C) BY <1>2 DEF DnFit, DnCloser, DnCronOps, DnCloserOps
<1> QED BY <1>1, <1>2, <1>3 DEF DnFits

\* The statements of the daily cycle.
LEMMA DnFitsCron ==
    ASSUME NEW C, NEW i \in Invoices \cup {0}, NEW op \in {"return"} \cup DnCronOps
    PROVE  Stmt(op, i, 0) \in DnFits(Cron, C)
<1>1. PICK s : s = Stmt(op, i, 0) OBVIOUS
<1>0. op \in DnOps /\ 0 \in DnArgs BY DnArgNumbers DEF DnOps, DnCronOps
<1>2. s \in DnStmts /\ s.op = op BY <1>0, <1>1, DnMade
<1>3. DnFit(s, Cron, C) BY <1>2 DEF DnFit, DnCloser, DnCronOps, DnCloserOps
<1> QED BY <1>1, <1>2, <1>3 DEF DnFits

\* An update of the subscription that does not cancel it.
LEMMA DnFitsSubscription ==
    ASSUME NEW C, NEW p, NEW i \in Invoices, NEW from \in SUBSET (DnStatuses \ {"CANCELLED"}),
           NEW to \in {"ACTIVE", "PAST_DUE", "SUSPENDED"}
    PROVE  Stmt("subscription", i, [from |-> from, to |-> to]) \in DnFits(p, C)
<1>1. PICK x : x = [from |-> from, to |-> to] OBVIOUS
<1>2. x \in [from : SUBSET (DnStatuses \ {"CANCELLED"}), to : DnStatuses] /\ x.to = to
  BY <1>1 DEF DnStatuses
<1>3. x \in [from : SUBSET DnStatuses, to : DnStatuses] BY <1>1 DEF DnStatuses
<1>4. PICK s : s = Stmt("subscription", i, x) OBVIOUS
<1>0. "subscription" \in DnOps /\ i \in Invoices \cup {0} /\ x \in DnArgs BY <1>3, DnArgUpdates DEF DnOps
<1>5. s \in DnStmts /\ s.op = "subscription" /\ s.i = i /\ s.x = x BY <1>0, <1>4, DnMade
<1>6. DnFit(s, p, C) BY <1>2, <1>5 DEF DnFit, DnCloser, DnCronOps, DnCloserOps
<1> QED BY <1>1, <1>4, <1>5, <1>6 DEF DnFits

\* A suspension is begun when the third attempt has been charged.
LEMMA DnFitsSuspend ==
    ASSUME NEW C, NEW p, NEW i \in Invoices, charge[<<i, 3>>] # "NONE"
    PROVE  Stmt("suspend", i, 0) \in DnFits(p, C)
<1>1. PICK s : s = Stmt("suspend", i, 0) OBVIOUS
<1>0. "suspend" \in DnOps /\ i \in Invoices \cup {0} /\ 0 \in DnArgs BY DnArgNumbers DEF DnOps
<1>2. s \in DnStmts /\ s.op = "suspend" /\ s.i = i BY <1>0, <1>1, DnMade
<1>3. DnFit(s, p, C) BY <1>2 DEF DnFit, DnCloser, DnCronOps, DnCloserOps
<1> QED BY <1>1, <1>2, <1>3 DEF DnFits

\* The statements of queueInvoiceCollection, and what follows a failure.
LEMMA DnFitsCollection ==
    ASSUME NEW C, NEW p, NEW i \in Invoices
    PROVE  Collection(i) \in Seq(DnFits(p, C))
<1>1. Stmt("collect", i, 0) \in DnFits(p, C) /\ Stmt("return", i, 0) \in DnFits(p, C)
  BY DnFitsBare
<1> DEFINE F == DnFits(p, C)
<1> HIDE DEF F
<1>2. Stmt("collect", i, 0) \in F /\ Stmt("return", i, 0) \in F BY <1>1 DEF F
<1>3. <<Stmt("collect", i, 0)>> \in Seq(F) BY <1>2
<1>4. Collection(i) \in Seq(F) BY <1>2, <1>3, AppendProperties DEF Collection, Ignoring
<1> QED BY <1>4 DEF F

\* What follows a failure fits: only a third attempt suspends.
LEMMA DnFitsAfterFailure ==
    ASSUME NEW C, NEW p, NEW i \in Invoices, NEW n \in 0..3, n = 3 => charge[<<i, 3>>] # "NONE"
    PROVE  AfterFailure(i, n) \in Seq(DnFits(p, C))
<1> DEFINE F == DnFits(p, C)
           sub == Stmt("subscription", i, [from |-> {"ACTIVE"}, to |-> "PAST_DUE"])
<1>1. CASE n >= 3
  <2>1. n = 3 BY <1>1
  <2>2. Stmt("suspend", i, 0) \in F BY <2>1, DnFitsSuspend
  <2>3. <<Stmt("suspend", i, 0)>> \in Seq(F)
    <3> HIDE DEF F
    <3> QED BY <2>2
  <2> QED BY <1>1, <2>3 DEF AfterFailure
<1>2. CASE ~ (n >= 3)
  <2>1. Stmt("pastdue", i, 0) \in F BY DnFitsBare
  <2>2. sub \in F BY DnFitsSubscription DEF DnStatuses
  <2>3. <<Stmt("pastdue", i, 0), sub>> \in Seq(F) /\ <<>> \in Seq(F)
    <3> HIDE DEF F, sub
    <3> QED BY <2>1, <2>2
  <2> QED BY <1>2, <2>3 DEF AfterFailure, PastDue
<1> QED BY <1>1, <1>2

-----------------------------------------------------------------------------
(* The step of a process *)

\* The statement a process is at may be executed, and one that closes nothing fits.
LEMMA DnHeadMay ==
    ASSUME NEW C, NEW p \in Processes, DnState(C), program[p] # <<>>
    PROVE  /\ Head(program[p]) \in DnMay(p, C)
           /\ Tail(program[p]) \in Seq(DnMay(p, C))
           /\ DnNow(Head(program[p]), partner)
<1>1. program[p] \in Seq(DnMay(p, C)) /\ DnChained(program[p], partner)
  BY DEF DnState, DnKept, DnPrograms
<1>2. DnNow(Head(program[p]), partner) BY <1>1, DnChainHead
<1> QED BY <1>1, <1>2, HeadTailProperties

\* A process moves on: what its statement leads to may be executed after it.
DnMovesOn(p) == \A t : DnLeads(Head(program[p]), t) => DnNow(t, partner')

\* A process that replaces its statement by others that fit leaves the state kept.
LEMMA DnContinues ==
    ASSUME NEW C, NEW p \in Processes, NEW new, DnState(C), DnAdvances(C), DnTyped', DnRowsKept(C)',
           program[p] # <<>>, Continue(p, new), DnMovesOn(p), DnNew(p, C, new)
    PROVE  DnStep(C)
<1> DEFINE M == DnMay(p, C)
           N == DnMay(p, C)'
<1>1. PICK o, r, r1 : o = program[p] /\ r = partner /\ r1 = partner' OBVIOUS
<1>2. o \in Seq(M) /\ DnChained(o, r) /\ o # <<>> BY <1>1 DEF DnState, DnKept, DnPrograms
<1>3. DnLasts(r, r1) /\ \A t : DnLeads(Head(o), t) => DnNow(t, r1) BY <1>1 DEF DnAdvances, DnMovesOn
<1>4. M \subseteq N BY DnFitsStay DEF DnState
<1>5. new \in Seq(N) /\ DnChained(new, r1)
  <2>1. new \in DnPrograms(p, C)' BY DnNewIsProgram DEF DnState
  <2> QED BY <1>1, <2>1 DEF DnPrograms
<1>6. program' = [program EXCEPT ![p] = new \o Tail(o)] BY <1>1 DEF Continue
<1> HIDE DEF M, N
<1>7. Tail(o) \in Seq(M) /\ DnChained(Tail(o), r1) BY <1>2, <1>3, DnChainHead, HeadTailProperties
<1>8. Tail(o) \in Seq(N) BY <1>4, <1>7, SeqMonotonic
<1>9. new \o Tail(o) \in Seq(N) /\ DnChained(new \o Tail(o), r1) BY <1>5, <1>7, <1>8, DnChainConcat
<1>10. PICK all : all = new \o Tail(o) OBVIOUS
<1>11. all \in DnPrograms(p, C)' BY <1>1, <1>9, <1>10 DEF DnPrograms, N
<1> QED BY <1>6, <1>10, <1>11, DnGoesOn DEF DnNew

\* Most statements lead to nothing.
LEMMA DnAtMoves ==
    ASSUME NEW p, NEW op, At(p, op), op \notin {"purge", "subscription"}
    PROVE  DnMovesOn(p)
BY DEF At, DnMovesOn, DnLeads

\* No statement is a sequence of statements that fit.
LEMMA DnNothing ==
    ASSUME NEW C, NEW p PROVE <<>> \in Seq(DnFits(p, C)) /\ DnNew(p, C, <<>>)
BY EmptySeq DEF DnNew

\* A process that unwinds leaves the state kept.
LEMMA DnUnwindsKept ==
    ASSUME NEW C, NEW p \in Processes, DnState(C), DnAdvances(C), DnTyped', DnRowsKept(C)',
           program' \in {[program EXCEPT ![p] = Unwound(@)], [program EXCEPT ![p] = <<>>]}
    PROVE  DnStep(C)
<1>1. program[p] \in Seq(DnMay(p, C)) /\ DnChained(program[p], partner)
  BY DEF DnState, DnKept, DnPrograms
<1>2. PICK u : u = Unwound(program[p]) OBVIOUS
<1>3. u \in DnPrograms(p, C) BY <1>1, <1>2, DnChainUnwinds DEF DnPrograms
<1>4. u \in DnPrograms(p, C)' BY <1>3, DnProgramStays DEF DnState
<1>5. CASE program' = [program EXCEPT ![p] = u] BY <1>4, <1>5, DnGoesOn DEF DnNew
<1>6. CASE program' = [program EXCEPT ![p] = <<>>] BY <1>6, DnNothing, DnGoesOn
<1> QED BY <1>2, <1>5, <1>6

\* A row whose attempts are charged keeps its day due and a state of suspension.
LEMMA DnTouched ==
    ASSUME NEW C, NEW i \in Invoices, NEW r, DnState(C), r \in InvoiceRow,
           r.attempts >= invoice[i].attempts,
           \A n \in Attempts : r.attempts = n => charge[<<i, n>>] # "NONE",
           r.due = invoice[i].due,
           \/ r.dunning = invoice[i].dunning
           \/ /\ invoice[i].dunning \notin {"SUSPENDED", "PURGED", "RECOVERED"}
              /\ r.dunning \notin {"SUSPENDED", "PURGED"}
    PROVE  DnRowMay(r, i, C)
<1>1. DnRow(i) BY DEF DnState, DnKept
<1>2. i \in C => DnSelected(i) BY DEF DnState, DnKept
<1> QED BY <1>1, <1>2 DEF DnRowMay, DnRow, DnSelected, DnBound

\* The same, for a row that keeps its attempts.
LEMMA DnSameAttempts ==
    ASSUME NEW C, NEW i \in Invoices, NEW r, DnState(C), r \in InvoiceRow,
           r.attempts = invoice[i].attempts, r.due = invoice[i].due,
           \/ r.dunning = invoice[i].dunning
           \/ /\ invoice[i].dunning \notin {"SUSPENDED", "PURGED", "RECOVERED"}
              /\ r.dunning \notin {"SUSPENDED", "PURGED"}
    PROVE  DnRowMay(r, i, C)
<1>1. DnRow(i) BY DEF DnState, DnKept
<1>2. \A n \in Attempts : r.attempts = n => charge[<<i, n>>] # "NONE" BY <1>1 DEF DnRow
<1>3. r.attempts >= invoice[i].attempts
  <2>1. invoice[i].attempts \in Int BY DnAttempts DEF DnState, TypeOK
  <2> QED BY <2>1
<1> QED BY <1>2, <1>3, DnTouched

\* A charge made or decided keeps the data; the third one comes after two attempts.
LEMMA DnChargesKept ==
    ASSUME NEW C, NEW i \in Invoices, NEW n \in Keys, NEW a, DnState(C),
           charge' = [charge EXCEPT ![<<i, n>>] = a],
           a \in {"PROCESSING", "SUCCEEDED"} \cup Failure,
           charge[<<i, n>>] # "NONE" \/ invoice[i].attempts >= n - 1,
           UNCHANGED <<invoice, partner, day, cycled, faults>>,
           report' \in [Charges -> {"NONE", "DUE", "SETTLED"}]
    PROVE  DnAdvances(C) /\ DnTyped' /\ DnRowsKept(C)'
<1>1. TypeOK /\ C \subseteq Invoices /\ DnKept(C) BY DEF DnState
<1>2. charge \in [Charges -> {"NONE", "PROCESSING", "SUCCEEDED"} \cup Failure] BY <1>1 DEF TypeOK
<1>3. charge' \in [Charges -> {"NONE", "PROCESSING", "SUCCEEDED"} \cup Failure] BY <1>2
<1>4. DnTyped' BY <1>1, <1>3 DEF TypeOK, DnTyped
<1>5. \A c \in Charges : charge[c] # "NONE" => charge'[c] # "NONE"
  <2>1. a # "NONE" BY DEF Failure
  <2> QED BY <1>2, <2>1
<1>6. ASSUME NEW j \in Invoices PROVE invoice'[j].attempts >= invoice[j].attempts
  <2>1. invoice[j].attempts \in Int BY <1>1, DnAttempts DEF TypeOK
  <2> QED BY <2>1
<1>7. DnAdvances(C)
  <2>1. DnLasts(partner, partner') BY DEF DnLasts
  <2> QED BY <1>5, <1>6, <2>1 DEF DnAdvances, DnBound
<1>8. (\A j \in Invoices : DnRow(j)) /\ (\A j \in C : DnSelected(j)) BY <1>1 DEF DnKept
<1>9. ASSUME NEW j \in Invoices PROVE DnRow(j)'
  <2>1. DnRow(j) BY <1>8
  <2>2. \A m \in Attempts : <<j, m>> \in Charges BY DEF Charges, Keys
  <2>3. \A m \in Attempts : invoice'[j].attempts = m => charge'[<<j, m>>] # "NONE"
    BY <1>5, <2>1, <2>2 DEF DnRow
  <2>4. charge'[<<j, 3>>] # "NONE" => invoice'[j].attempts >= 2
    <3>1. <<j, 3>> \in Charges BY <2>2 DEF Attempts
    <3>2. CASE j = i /\ n = 3
      <4>1. charge[<<i, 3>>] # "NONE" \/ invoice[i].attempts >= 2 BY <3>2
      <4> QED BY <2>1, <3>2, <4>1 DEF DnRow
    <3>3. CASE ~ (j = i /\ n = 3)
      <4>1. <<j, 3>> # <<i, n>> BY <3>3
      <4>2. charge'[<<j, 3>>] = charge[<<j, 3>>] BY <1>2, <3>1, <4>1
      <4> QED BY <2>1, <4>2 DEF DnRow
    <3> QED BY <3>2, <3>3
  <2>5. charge[<<j, 3>>] # "NONE" => charge'[<<j, 3>>] # "NONE" BY <1>5, <2>2 DEF Attempts
  <2> QED BY <2>1, <2>3, <2>4, <2>5 DEF DnRow
<1>10. ASSUME NEW j \in C PROVE DnSelected(j)'
  <2>1. DnSelected(j) /\ <<j, 3>> \in Charges BY <1>1, <1>8 DEF Charges, Keys, Attempts
  <2> QED BY <1>5, <2>1 DEF DnSelected
<1> QED BY <1>4, <1>7, <1>9, <1>10 DEF DnRowsKept

\* A process at a statement has it first; one that closes nothing fits.
LEMMA DnAtFits ==
    ASSUME NEW C, NEW p \in Processes, NEW op, DnState(C), At(p, op)
    PROVE  /\ program[p] # <<>>
           /\ Head(program[p]) \in DnStmts
           /\ DnFit(Head(program[p]), p, C) \/ DnClose(Head(program[p]), p, C)
           /\ op \notin DnCloserOps \cup {"subscription"} => DnFit(Head(program[p]), p, C)
           /\ Head(program[p]).op = op
           /\ op \in {"return", "entitle", "subscription"} \cup DnCronOps \cup DnCloserOps
              \/ Head(program[p]).i \in Invoices
           /\ DnNow(Head(program[p]), partner)
<1>1. program[p] # <<>> /\ Head(program[p]).op = op BY DEF At
<1>2. Head(program[p]) \in DnMay(p, C) /\ DnNow(Head(program[p]), partner) BY <1>1, DnHeadMay
<1>3. /\ DnFit(Head(program[p]), p, C) \/ DnClose(Head(program[p]), p, C)
      /\ Head(program[p]) \in DnStmts
  BY <1>2 DEF DnMay
<1>4. op \notin DnCloserOps \cup {"subscription"} => DnFit(Head(program[p]), p, C)
  BY <1>1, <1>3 DEF DnClose, DnCloser
<1> QED BY <1>1, <1>2, <1>3, <1>4 DEF DnFit

\* A statement that is only replaced by those of its body leaves the state kept.
LEMMA DnExpands ==
    ASSUME NEW C, NEW p \in Processes, NEW new, DnState(C), program[p] # <<>>, Continue(p, new),
           new \in Seq(DnFits(p, C)), partner' \in PartnerState, DnLasts(partner, partner'),
           DnMovesOn(p), UNCHANGED <<invoice, charge, report, day, cycled, faults>>
    PROVE  DnStep(C)
<1>1. cycled' \in BOOLEAN /\ faults' \in 0..MaxFaults BY DEF DnState, TypeOK
<1>2. DnAdvances(C) /\ DnTyped' /\ DnRowsKept(C)' BY <1>1, DnReads
<1> QED BY <1>2, DnContinues DEF DnNew

\* Return
LEMMA DnReturn ==
    ASSUME NEW C, NEW p \in Processes, DnState(C), Return(p)
    PROVE  DnStep(C)
<1>1. At(p, "return") BY DEF Return
<1>3. program[p] # <<>> /\ DnMovesOn(p) BY <1>1, DnAtFits, DnAtMoves
<1>2. partner' \in PartnerState /\ DnLasts(partner, partner') BY DEF Return, DnState, TypeOK, DnLasts
<1> QED BY <1>2, <1>3, DnNothing, DnExpands DEF Return

\* A charge of the next attempt fits, and one that names none.
LEMMA DnFitsCharge ==
    ASSUME NEW C, NEW p, NEW i \in Invoices, NEW x \in Keys, invoice[i].attempts >= x - 1
    PROVE  Stmt("charge", i, x) \in DnFits(p, C)
<1>1. PICK s : s = Stmt("charge", i, x) OBVIOUS
<1>2. "charge" \in DnOps /\ i \in Invoices \cup {0} /\ x \in DnArgs BY DnArgNumbers DEF DnOps
<1>3. s \in DnStmts /\ s.op = "charge" /\ s.i = i /\ s.x = x BY <1>1, <1>2, DnMade
<1>4. DnFit(s, p, C) BY <1>3 DEF DnFit, DnCloser, DnCronOps, DnCloserOps
<1> QED BY <1>1, <1>3, <1>4 DEF DnFits

\* Collect
LEMMA DnCollect ==
    ASSUME NEW C, NEW p \in Processes, DnState(C), Collect(p)
    PROVE  DnStep(C)
<1>1. PICK s : s = Head(program[p]) OBVIOUS
<1>2. At(p, "collect") /\ DnMovesOn(p) BY DnAtMoves DEF Collect
<1>3. program[p] # <<>> /\ s.i \in Invoices BY <1>1, <1>2, DnAtFits DEF DnCronOps, DnCloserOps
<1> DEFINE n == invoice[s.i].attempts
           new == IF invoice[s.i].workflow = "SENT" /\ n < 3 THEN <<Stmt("charge", s.i, n + 1)>> ELSE <<>>
<1>4. Continue(p, new) BY <1>1 DEF Collect
<1>5. new \in Seq(DnFits(p, C))
  <2>1. CASE invoice[s.i].workflow = "SENT" /\ n < 3
    <3>1. n \in 0..3
      <4>1. invoice[s.i] \in InvoiceRow BY <1>3, DnAttempts DEF DnState, TypeOK
      <4> QED BY <4>1, DnRowFields
    <3>2. n + 1 \in Keys /\ n >= (n + 1) - 1 BY <2>1, <3>1 DEF Keys, Attempts
    <3> HIDE DEF n
    <3>3. Stmt("charge", s.i, n + 1) \in DnFits(p, C) BY <1>3, <3>2, DnFitsCharge DEF n
    <3>4. <<Stmt("charge", s.i, n + 1)>> \in Seq(DnFits(p, C))
      <4> DEFINE F == DnFits(p, C)
      <4> HIDE DEF F
      <4>1. Stmt("charge", s.i, n + 1) \in F BY <3>3 DEF F
      <4>2. <<Stmt("charge", s.i, n + 1)>> \in Seq(F) BY <4>1
      <4> QED BY <4>2 DEF F
    <3> QED BY <2>1, <3>4 DEF n
  <2>2. CASE ~ (invoice[s.i].workflow = "SENT" /\ n < 3) BY <2>2, DnNothing
  <2> QED BY <2>1, <2>2
<1>6. partner' \in PartnerState /\ DnLasts(partner, partner') BY DEF Collect, DnState, TypeOK, DnLasts
<1> HIDE DEF new
<1> QED BY <1>2, <1>3, <1>4, <1>5, <1>6, DnExpands DEF Collect

\* CollectUnread
LEMMA DnCollectUnread ==
    ASSUME NEW C, NEW p \in Processes, DnState(C), CollectUnread(p)
    PROVE  DnStep(C)
<1>1. PICK s : s = Head(program[p]) OBVIOUS
<1>2. At(p, "collect") /\ DnMovesOn(p) BY DnAtMoves DEF CollectUnread
<1>3. program[p] # <<>> /\ s.i \in Invoices BY <1>1, <1>2, DnAtFits DEF DnCronOps, DnCloserOps
<1>4. faults' \in 0..MaxFaults
  <2>1. faults \in 0..MaxFaults /\ faults < MaxFaults /\ faults' = faults + 1
    BY DEF CollectUnread, DnState, TypeOK
  <2> QED BY <2>1, DunningAssumption
<1>5. UNCHANGED <<invoice, partner, charge, report, day, cycled>> BY DEF CollectUnread
<1>6. partner' \in PartnerState /\ cycled' \in BOOLEAN /\ DnLasts(partner, partner')
  BY <1>5 DEF DnState, TypeOK, DnLasts
<1>7. DnAdvances(C) /\ DnTyped' /\ DnRowsKept(C)' BY <1>4, <1>5, <1>6, DnReads
<1> DEFINE m == Stmt("charge", s.i, 0)
<1>8. Continue(p, <<m>>) BY <1>1 DEF CollectUnread
<1>9. <<m>> \in Seq(DnFits(p, C))
  <2> DEFINE F == DnFits(p, C)
  <2>1. invoice[s.i].attempts >= 0 - 1
    <3>1. invoice[s.i] \in InvoiceRow BY <1>3, DnAttempts DEF DnState, TypeOK
    <3>2. invoice[s.i].attempts \in 0..3 BY <3>1, DnRowFields
    <3> QED BY <3>2
  <2>2. 0 \in Keys BY DEF Keys
  <2>3. m \in F BY <1>3, <2>1, <2>2, DnFitsCharge
  <2> HIDE DEF m, F
  <2>4. <<m>> \in Seq(F) BY <2>3
  <2> QED BY <2>4 DEF F
<1> HIDE DEF m
<1> QED BY <1>2, <1>3, <1>7, <1>8, <1>9, DnContinues DEF DnNew

\* The statements of a suspension fit, when the invoice is not yet settled one way
\* or the other.
LEMMA DnFitsSuspension ==
    ASSUME NEW C, NEW p, NEW i \in Invoices, charge[<<i, 3>>] # "NONE", ~ DnBound(i, C)
    PROVE  /\ Stmt("previous", i, "LIVE") \in DnFits(p, C)
           /\ Stmt("lifecycle", i, "SUSPENDED") \in DnFits(p, C)
           /\ Stmt("suspended", i, 0) \in DnFits(p, C)
<1>1. i \in Invoices \cup {0} /\ 0 \in DnArgs /\ "LIVE" \in DnArgs /\ "SUSPENDED" \in DnArgs
  BY DnArgNumbers, DnArgNames
<1>2. Stmt("previous", i, "LIVE") \in DnFits(p, C)
  <2>1. PICK s : s = Stmt("previous", i, "LIVE") OBVIOUS
  <2>2. "previous" \in DnOps BY DEF DnOps
  <2>3. s \in DnStmts /\ s.op = "previous" /\ s.i = i /\ s.x = "LIVE" BY <1>1, <2>1, <2>2, DnMade
  <2>4. DnFit(s, p, C) BY <2>3 DEF DnFit, DnCloser, DnCronOps, DnCloserOps
  <2> QED BY <2>1, <2>3, <2>4 DEF DnFits
<1>3. Stmt("lifecycle", i, "SUSPENDED") \in DnFits(p, C)
  <2>1. PICK s : s = Stmt("lifecycle", i, "SUSPENDED") OBVIOUS
  <2>2. "lifecycle" \in DnOps BY DEF DnOps
  <2>3. s \in DnStmts /\ s.op = "lifecycle" /\ s.i = i /\ s.x = "SUSPENDED"
    BY <1>1, <2>1, <2>2, DnMade
  <2>4. DnFit(s, p, C) BY <2>3 DEF DnFit, DnCloser, DnCronOps, DnCloserOps
  <2> QED BY <2>1, <2>3, <2>4 DEF DnFits
<1>4. Stmt("suspended", i, 0) \in DnFits(p, C)
  <2>1. PICK s : s = Stmt("suspended", i, 0) OBVIOUS
  <2>2. "suspended" \in DnOps BY DEF DnOps
  <2>3. s \in DnStmts /\ s.op = "suspended" /\ s.i = i BY <1>1, <2>1, <2>2, DnMade
  <2>4. DnFit(s, p, C) BY <2>3 DEF DnFit, DnCloser, DnCronOps, DnCloserOps
  <2> QED BY <2>1, <2>3, <2>4 DEF DnFits
<1> QED BY <1>2, <1>3, <1>4

\* Entitlements may be given or taken by any process.
LEMMA DnFitsEntitle ==
    ASSUME NEW C, NEW p, NEW i \in Invoices \cup {0}, NEW b \in BOOLEAN
    PROVE  Stmt("entitle", i, b) \in DnFits(p, C)
<1>1. PICK x : x = b OBVIOUS
<1>2. x \in BOOLEAN BY <1>1, Zenon
<1>3. x \in DnArgs BY <1>2, DnArgFlags, Zenon
<1>4. PICK s : s = Stmt("entitle", i, x) OBVIOUS
<1>5. "entitle" \in DnOps BY DEF DnOps
<1>6. s \in DnStmts /\ s.op = "entitle" /\ s.i = i /\ s.x = x BY <1>3, <1>4, <1>5, DnMade
<1>7. DnFit(s, p, C)
  <2>1. s.x \in BOOLEAN BY <1>2, <1>6, Zenon
  <2>2. \A t : s.op = "entitle" => s.op \in {"return", "entitle"} OBVIOUS
  <2>3. s.op \notin DnCronOps /\ ~ DnCloser(s) BY <1>6 DEF DnCronOps, DnCloser, DnCloserOps
  <2>4. /\ s.op # "charge" /\ s.op # "mark" /\ s.op # "subscription" /\ s.op # "previous"
        /\ s.op # "lifecycle" /\ s.op # "recovered" /\ s.op # "workflow" /\ s.op # "suspend"
        /\ s.op # "suspended"
    BY <1>6
  <2>5. s.op \notin {"suspend", "suspended"} /\ s.op \in {"return", "entitle"} \cup DnCronOps BY <1>6
  <2> QED BY <2>1, <2>3, <2>4, <2>5, Zenon DEF DnFit
<1> QED BY <1>1, <1>4, <1>6, <1>7, Zenon DEF DnFits

\* An invoice whose suspension is not settled is not bound to be purged.
LEMMA DnUnbound ==
    ASSUME NEW C, NEW i \in Invoices, DnState(C),
           invoice[i].dunning \notin {"PURGED", "SUSPENDED"},
           i \notin C
    PROVE  ~ DnBound(i, C)
BY DEF DnBound

\* Suspend
LEMMA DnSuspend ==
    ASSUME NEW C, NEW p \in Processes, DnState(C), Suspend(p)
    PROVE  DnStep(C)
<1>1. PICK s : s = Head(program[p]) OBVIOUS
<1>2. At(p, "suspend") /\ DnMovesOn(p) BY DnAtMoves DEF Suspend
<1>3. program[p] # <<>> /\ s.i \in Invoices /\ DnFit(s, p, C) /\ s.op = "suspend"
  BY <1>1, <1>2, DnAtFits DEF DnCronOps, DnCloserOps
<1>4. charge[<<s.i, 3>>] # "NONE" BY <1>3 DEF DnFit
<1> DEFINE open == partner.lifecycle \notin {"SUSPENDED", "ARCHIVED"}
           first == IF open THEN <<Stmt("previous", s.i, partner.lifecycle),
                                   Stmt("lifecycle", s.i, "SUSPENDED")>> ELSE <<>>
           sub == Stmt("subscription", s.i, [from |-> {"ACTIVE", "PAST_DUE", "SUSPENDED"},
                                             to |-> "SUSPENDED"])
           rest == <<Stmt("entitle", s.i, FALSE), Stmt("suspended", s.i, 0), sub>>
           new == IF invoice[s.i].dunning \in {"PURGED", "RECOVERED", "SUSPENDED"} THEN <<>>
                  ELSE first \o rest
<1>5. Continue(p, new) BY <1>1 DEF Suspend
<1>6. new \in Seq(DnFits(p, C))
  <2>1. CASE invoice[s.i].dunning \in {"PURGED", "RECOVERED", "SUSPENDED"} BY <2>1, DnNothing
  <2>2. CASE invoice[s.i].dunning \notin {"PURGED", "RECOVERED", "SUSPENDED"}
    <3>1. s.i \notin C BY <2>2 DEF DnState, DnKept, DnSelected
    <3>2. ~ DnBound(s.i, C) BY <1>3, <2>2, <3>1, DnUnbound
    <3>3. /\ Stmt("previous", s.i, "LIVE") \in DnFits(p, C)
          /\ Stmt("lifecycle", s.i, "SUSPENDED") \in DnFits(p, C)
          /\ Stmt("suspended", s.i, 0) \in DnFits(p, C)
      BY <1>3, <1>4, <3>2, DnFitsSuspension
    <3>4. Stmt("entitle", s.i, FALSE) \in DnFits(p, C) BY <1>3, DnFitsEntitle, Zenon
    <3>5. sub \in DnFits(p, C) BY <1>3, DnFitsSubscription DEF DnStatuses
    <3>6. open => partner.lifecycle = "LIVE" BY DEF DnState, TypeOK, PartnerState
    <3> DEFINE F == DnFits(p, C)
               a == Stmt("previous", s.i, "LIVE")
               b == Stmt("lifecycle", s.i, "SUSPENDED")
               c == Stmt("entitle", s.i, FALSE)
               d == Stmt("suspended", s.i, 0)
    <3>7. open => first = <<a, b>> BY <3>6
    <3>8. ~ open => first = <<>> OBVIOUS
    <3>9. rest = <<c, d, sub>> OBVIOUS
    <3> HIDE DEF F, a, b, c, d, sub, open, first, rest
    <3>10. a \in F /\ b \in F /\ c \in F /\ d \in F /\ sub \in F
      BY <3>3, <3>4, <3>5 DEF F, a, b, c, d
    <3>11. <<a, b>> \in Seq(F) /\ <<>> \in Seq(F) /\ <<c, d, sub>> \in Seq(F) BY <3>10
    <3>12. first \in Seq(F) /\ rest \in Seq(F) BY <3>7, <3>8, <3>9, <3>11
    <3>13. first \o rest \in Seq(F) BY <3>12, ConcatProperties
    <3> QED BY <2>2, <3>13 DEF F
  <2> QED BY <2>1, <2>2
<1>7. partner' \in PartnerState /\ DnLasts(partner, partner') BY DEF Suspend, DnState, TypeOK, DnLasts
<1> HIDE DEF new
<1> QED BY <1>2, <1>3, <1>5, <1>6, <1>7, DnExpands DEF Suspend

\* The statements of a recovery fit.
LEMMA DnFitsRecovery ==
    ASSUME NEW C, NEW p, NEW i \in Invoices
    PROVE  /\ Stmt("lifecycle", i, "LIVE") \in DnFits(p, C)
           /\ Stmt("recovered", i, "RECOVERED") \in DnFits(p, C)
<1>1. i \in Invoices \cup {0} /\ "LIVE" \in DnArgs /\ "RECOVERED" \in DnArgs BY DnArgNames
<1>2. Stmt("lifecycle", i, "LIVE") \in DnFits(p, C)
  <2>1. PICK s : s = Stmt("lifecycle", i, "LIVE") OBVIOUS
  <2>2. "lifecycle" \in DnOps BY DEF DnOps
  <2>3. s \in DnStmts /\ s.op = "lifecycle" /\ s.i = i /\ s.x = "LIVE" BY <1>1, <2>1, <2>2, DnMade
  <2>4. DnFit(s, p, C) BY <2>3 DEF DnFit, DnCloser, DnCronOps, DnCloserOps
  <2> QED BY <2>1, <2>3, <2>4 DEF DnFits
<1>3. Stmt("recovered", i, "RECOVERED") \in DnFits(p, C)
  <2>1. PICK s : s = Stmt("recovered", i, "RECOVERED") OBVIOUS
  <2>2. "recovered" \in DnOps BY DEF DnOps
  <2>3. s \in DnStmts /\ s.op = "recovered" /\ s.i = i /\ s.x = "RECOVERED"
    BY <1>1, <2>1, <2>2, DnMade
  <2>4. DnFit(s, p, C) BY <2>3 DEF DnFit, DnCloser, DnCronOps, DnCloserOps
  <2> QED BY <2>1, <2>3, <2>4 DEF DnFits
<1> QED BY <1>2, <1>3

\* Recover
LEMMA DnRecover ==
    ASSUME NEW C, NEW p \in Processes, DnState(C), Recover(p)
    PROVE  DnStep(C)
<1>1. PICK s : s = Head(program[p]) OBVIOUS
<1>2. At(p, "recover") /\ DnMovesOn(p) BY DnAtMoves DEF Recover
<1>3. program[p] # <<>> /\ s.i \in Invoices BY <1>1, <1>2, DnAtFits DEF DnCronOps, DnCloserOps
<1> DEFINE row == invoice[s.i]
           first == IF row.previous = "" THEN <<>> ELSE <<Stmt("lifecycle", s.i, row.previous)>>
           mid == IF row.dunning # "SUSPENDED" THEN <<>> ELSE first \o <<Stmt("entitle", s.i, TRUE)>>
           sub == Stmt("subscription", s.i, [from |-> {"PAST_DUE", "SUSPENDED"}, to |-> "ACTIVE"])
           rest == <<sub, Stmt("recovered", s.i, "RECOVERED")>>
           new == IF row.dunning = "PURGED" \/ (row.due # NoDay /\ day > row.due) THEN <<>>
                  ELSE mid \o rest
<1>4. Continue(p, new) BY <1>1 DEF Recover
<1>5. new \in Seq(DnFits(p, C))
  <2>1. Stmt("lifecycle", s.i, "LIVE") \in DnFits(p, C)
        /\ Stmt("recovered", s.i, "RECOVERED") \in DnFits(p, C)
    BY <1>3, DnFitsRecovery
  <2>2. Stmt("entitle", s.i, TRUE) \in DnFits(p, C) BY <1>3, DnFitsEntitle, Zenon
  <2>3. sub \in DnFits(p, C) BY <1>3, DnFitsSubscription DEF DnStatuses
  <2>4. row.previous # "" => row.previous = "LIVE"
    <3>1. row \in InvoiceRow BY <1>3, DnAttempts DEF DnState, TypeOK
    <3> HIDE DEF row
    <3> QED BY <3>1, DnRowFields
  <2> DEFINE F == DnFits(p, C)
             a == Stmt("lifecycle", s.i, "LIVE")
             b == Stmt("entitle", s.i, TRUE)
             d == Stmt("recovered", s.i, "RECOVERED")
  <2>5. first = <<>> \/ first = <<a>> BY <2>4
  <2>6. mid = <<>> \/ mid = first \o <<b>> OBVIOUS
  <2>7. rest = <<sub, d>> OBVIOUS
  <2>8. new = <<>> \/ new = mid \o rest OBVIOUS
  <2> HIDE DEF F, a, b, d, sub, first, mid, rest, new, row
  <2>9. a \in F /\ b \in F /\ d \in F /\ sub \in F BY <2>1, <2>2, <2>3 DEF F, a, b, d
  <2>10. <<>> \in Seq(F) /\ <<a>> \in Seq(F) /\ <<b>> \in Seq(F) /\ <<sub, d>> \in Seq(F) BY <2>9
  <2>11. first \in Seq(F) BY <2>5, <2>10
  <2>12. first \o <<b>> \in Seq(F) BY <2>10, <2>11, ConcatProperties
  <2>13. mid \in Seq(F) /\ rest \in Seq(F) BY <2>6, <2>7, <2>10, <2>12
  <2>14. mid \o rest \in Seq(F) BY <2>13, ConcatProperties
  <2> QED BY <2>8, <2>10, <2>14 DEF F
<1>6. partner' \in PartnerState /\ DnLasts(partner, partner') BY DEF Recover, DnState, TypeOK, DnLasts
<1> HIDE DEF new
<1> QED BY <1>2, <1>3, <1>4, <1>5, <1>6, DnExpands DEF Recover

-----------------------------------------------------------------------------
(* The statements that write *)

\* What a row becomes when one of its columns is written.
LEMMA DnProviderColumn ==
    ASSUME NEW w \in InvoiceRow, NEW r,
           NEW v \in {"COLLECTION_PENDING", "PROCESSING", "SUCCEEDED", "FAILED", "REQUIRES_ACTION"},
           r = [w EXCEPT !.provider = v]
    PROVE  r \in InvoiceRow /\ r.attempts = w.attempts /\ r.due = w.due /\ r.dunning = w.dunning
BY DEF InvoiceRow, Failure

\* The same for the dunning state.
LEMMA DnDunningColumn ==
    ASSUME NEW w \in InvoiceRow, NEW r,
           NEW v \in {"NONE", "COLLECTING", "PAST_DUE", "SUSPENDED", "RECOVERED", "PURGED"},
           r = [w EXCEPT !.dunning = v]
    PROVE  r \in InvoiceRow /\ r.attempts = w.attempts /\ r.due = w.due /\ r.dunning = v
BY DEF InvoiceRow

\* The same for the lifecycle to restore.
LEMMA DnPreviousColumn ==
    ASSUME NEW w \in InvoiceRow, NEW r, NEW v \in {"", "LIVE"}, r = [w EXCEPT !.previous = v]
    PROVE  r \in InvoiceRow /\ r.attempts = w.attempts /\ r.due = w.due /\ r.dunning = w.dunning
BY DEF InvoiceRow

\* A suspension, a counted attempt and a payment write several columns.
LEMMA DnSuspendedRow ==
    ASSUME NEW w \in InvoiceRow, day \in 0..LastDay
    PROVE  LET r == [w EXCEPT !.dunning = "SUSPENDED", !.due = day + CureDays]
           IN  r \in InvoiceRow /\ r.attempts = w.attempts /\ r.due = day + CureDays /\ r.dunning = "SUSPENDED"
<1>1. day + CureDays \in 0..(LastDay + CureDays) BY DunningAssumption
<1>2. PICK d : d = day + CureDays OBVIOUS
<1>3. d \in {NoDay} \cup (0..(LastDay + CureDays)) BY <1>1, <1>2
<1> DEFINE r == [w EXCEPT !.dunning = "SUSPENDED", !.due = d]
<1>4. r \in InvoiceRow /\ r.attempts = w.attempts /\ r.due = d /\ r.dunning = "SUSPENDED"
  BY <1>3 DEF InvoiceRow
<1> QED BY <1>2, <1>4

\* The row markCollectionAttempt leaves: the attempts never fall.
LEMMA DnMarkedRow ==
    ASSUME NEW w \in InvoiceRow, NEW n \in Keys, NEW v \in DnAnswers
    PROVE  LET r == Marked(w, n, v)
           IN  /\ r \in InvoiceRow
               /\ r.attempts = (IF n > w.attempts THEN n ELSE w.attempts)
               /\ r.due = w.due
               /\ \/ r.dunning = w.dunning
                  \/ /\ w.dunning \notin {"SUSPENDED", "PURGED", "RECOVERED"}
                     /\ r.dunning \notin {"SUSPENDED", "PURGED"}
<1>1. PICK k : k = IF n > w.attempts THEN n ELSE w.attempts OBVIOUS
<1>2. w.attempts \in 0..3 /\ n \in 0..3
  <2>1. n \in 0..3 BY DEF Keys, Attempts
  <2> QED BY <2>1, DnRowFields
<1>3. k \in 0..3 BY <1>1, <1>2
<1>4. PICK d : d = IF n = 0 \/ w.dunning \in {"SUSPENDED", "PURGED", "RECOVERED"} THEN w.dunning
                   ELSE IF v \in Failure THEN "PAST_DUE" ELSE "COLLECTING"
  OBVIOUS
<1>5. w.dunning \in {"NONE", "COLLECTING", "PAST_DUE", "SUSPENDED", "RECOVERED", "PURGED"} BY DnRowFields
<1>6. d \in {"NONE", "COLLECTING", "PAST_DUE", "SUSPENDED", "RECOVERED", "PURGED"} BY <1>4, <1>5
<1>7. \/ d = w.dunning
      \/ w.dunning \notin {"SUSPENDED", "PURGED", "RECOVERED"} /\ d \notin {"SUSPENDED", "PURGED"}
  BY <1>4
<1> DEFINE r == [w EXCEPT !.provider = v, !.attempts = k, !.dunning = d]
<1>8. r \in InvoiceRow /\ r.attempts = k /\ r.due = w.due /\ r.dunning = d
  BY <1>3, <1>6 DEF InvoiceRow, DnAnswers
<1>9. Marked(w, n, v) = r BY <1>1, <1>4 DEF Marked
<1> HIDE DEF r
<1> QED BY <1>1, <1>7, <1>8, <1>9

\* A payment leaves the attempts, the cure window and the dunning state.
LEMMA DnPaidRow ==
    ASSUME NEW w \in InvoiceRow, day \in 0..LastDay
    PROVE  LET r == Paid(w)
           IN  r \in InvoiceRow /\ r.attempts = w.attempts /\ r.due = w.due /\ r.dunning = w.dunning
<1>1. PICK d : d = IF w.paidAt = NoDay THEN day ELSE w.paidAt OBVIOUS
<1>2. w.paidAt \in {NoDay} \cup (0..LastDay) BY DnRowFields
<1>3. d \in {NoDay} \cup (0..LastDay) BY <1>1, <1>2
<1> DEFINE r == [w EXCEPT !.workflow = "PAID", !.status = "PAID", !.provider = "SUCCEEDED", !.paidAt = d]
<1>4. r \in InvoiceRow /\ r.attempts = w.attempts /\ r.due = w.due /\ r.dunning = w.dunning
  BY <1>3 DEF InvoiceRow
<1>5. Paid(w) = r BY <1>1 DEF Paid
<1> HIDE DEF r
<1> QED BY <1>4, <1>5

\* So does what an operator does to an invoice.
LEMMA DnActedRow ==
    ASSUME NEW w \in InvoiceRow, NEW x \in Actions, day \in 0..LastDay
    PROVE  LET r == Acted(w, x)
           IN  r \in InvoiceRow /\ r.attempts = w.attempts /\ r.due = w.due /\ r.dunning = w.dunning
<1>1. PICK l : l = w.ledger \cup {x} OBVIOUS
<1>2. l \in SUBSET Actions BY <1>1, DnRowFields
<1>3. PICK e : e = [w EXCEPT !.ledger = l] OBVIOUS
<1>4. e \in InvoiceRow /\ e.attempts = w.attempts /\ e.due = w.due /\ e.dunning = w.dunning
  BY <1>2, <1>3 DEF InvoiceRow
<1>5. PICK r : r = Acted(w, x) OBVIOUS
<1>6. CASE x = "send"
  <2>1. r = [e EXCEPT !.workflow = "SENT"] BY <1>1, <1>3, <1>5, <1>6 DEF Acted
  <2>2. r \in InvoiceRow /\ r.attempts = e.attempts /\ r.due = e.due /\ r.dunning = e.dunning
    BY <1>4, <2>1 DEF InvoiceRow
  <2> QED BY <1>4, <1>5, <2>2
<1>7. CASE x = "paid"
  <2>1. r = Paid(e) BY <1>1, <1>3, <1>5, <1>7 DEF Acted
  <2>2. r \in InvoiceRow /\ r.attempts = e.attempts /\ r.due = e.due /\ r.dunning = e.dunning
    BY <1>4, <2>1, DnPaidRow
  <2> QED BY <1>4, <1>5, <2>2
<1>8. CASE x = "cancel"
  <2>1. r = [e EXCEPT !.workflow = "CANCELLED", !.status = "CANCELLED", !.provider = "CANCELLED"]
    BY <1>1, <1>3, <1>5, <1>8 DEF Acted
  <2>2. r \in InvoiceRow /\ r.attempts = e.attempts /\ r.due = e.due /\ r.dunning = e.dunning
    BY <1>4, <2>1 DEF InvoiceRow
  <2> QED BY <1>4, <1>5, <2>2
<1> QED BY <1>6, <1>7, <1>8 DEF Actions

\* A process that writes a row and goes on with statements that fit leaves the
\* state kept, when the row may become that.
LEMMA DnWrites ==
    ASSUME NEW C, NEW p \in Processes, NEW i \in Invoices, NEW r, NEW new, DnState(C), program[p] # <<>>,
           DnRowMay(r, i, C), invoice' = [invoice EXCEPT ![i] = r],
           UNCHANGED <<partner, charge, report, day, cycled, faults>>,
           Continue(p, new), new \in Seq(DnFits(p, C)), DnMovesOn(p)
    PROVE  DnStep(C)
<1>1. report' \in [Charges -> {"NONE", "DUE", "SETTLED"}] BY DEF DnState, TypeOK
<1>2. DnAdvances(C) /\ DnTyped' /\ DnRowsKept(C)' BY <1>1, DnWritesRow
<1> QED BY <1>2, DnContinues DEF DnNew

\* PendCollection
LEMMA DnPendCollection ==
    ASSUME NEW C, NEW p \in Processes, DnState(C), PendCollection(p)
    PROVE  DnStep(C)
<1>1. PICK s : s = Head(program[p]) OBVIOUS
<1>2. At(p, "pend") /\ DnMovesOn(p) BY DnAtMoves DEF PendCollection
<1>3. program[p] # <<>> /\ s.i \in Invoices BY <1>1, <1>2, DnAtFits DEF DnCronOps, DnCloserOps
<1>4. PICK w : w = invoice[s.i] OBVIOUS
<1>5. w \in InvoiceRow BY <1>3, <1>4, DnAttempts DEF DnState, TypeOK
<1>6. PICK r : r = [w EXCEPT !.provider = IF w.status # "PAID" THEN "COLLECTION_PENDING" ELSE @] OBVIOUS
<1>7. r = w \/ r = [w EXCEPT !.provider = "COLLECTION_PENDING"]
  <2>1. CASE w.status # "PAID" BY <1>6, <2>1
  <2>2. CASE w.status = "PAID" BY <1>5, <1>6, <2>2 DEF InvoiceRow
  <2> QED BY <2>1, <2>2
<1>8. r \in InvoiceRow /\ r.attempts = w.attempts /\ r.due = w.due /\ r.dunning = w.dunning
  BY <1>5, <1>7, DnProviderColumn
<1>9. invoice' = [invoice EXCEPT ![s.i] = r] BY <1>1, <1>4, <1>6 DEF PendCollection
<1>10. DnRowMay(r, s.i, C) BY <1>3, <1>4, <1>8, DnSameAttempts
<1>11. Continue(p, <<>>) BY DEF PendCollection
<1>12. UNCHANGED <<partner, charge, report, day, cycled, faults>> BY DEF PendCollection
<1> QED BY <1>2, <1>3, <1>9, <1>10, <1>11, <1>12, DnNothing, DnWrites

\* MarkAttempt
LEMMA DnMarkAttempt ==
    ASSUME NEW C, NEW p \in Processes, DnState(C), MarkAttempt(p)
    PROVE  DnStep(C)
<1>1. PICK s : s = Head(program[p]) OBVIOUS
<1>2. At(p, "mark") /\ DnMovesOn(p) BY DnAtMoves DEF MarkAttempt
<1>3. program[p] # <<>> /\ s.i \in Invoices /\ DnFit(s, p, C) /\ s.op = "mark"
  BY <1>1, <1>2, DnAtFits DEF DnCronOps, DnCloserOps
<1>4. PICK w, n, v : w = invoice[s.i] /\ n = s.x.n /\ v = s.x.status OBVIOUS
<1>5. n \in Keys /\ v \in DnAnswers /\ charge[<<s.i, n>>] # "NONE" BY <1>3, <1>4 DEF DnFit
<1>6. w \in InvoiceRow BY <1>3, <1>4, DnAttempts DEF DnState, TypeOK
<1>7. PICK r : r = IF w.status = "PAID" THEN w ELSE Marked(w, n, v) OBVIOUS
<1>8. invoice' = [invoice EXCEPT ![s.i] = r] BY <1>1, <1>4, <1>7 DEF MarkAttempt
<1>9. DnRowMay(r, s.i, C)
  <2>1. CASE w.status = "PAID" BY <1>3, <1>4, <1>6, <1>7, <2>1, DnSameAttempts
  <2>2. CASE w.status # "PAID"
    <3>1. r = Marked(w, n, v) BY <1>7, <2>2
    <3>2. /\ r \in InvoiceRow
          /\ r.attempts = (IF n > w.attempts THEN n ELSE w.attempts)
          /\ r.due = w.due
          /\ \/ r.dunning = w.dunning
             \/ /\ w.dunning \notin {"SUSPENDED", "PURGED", "RECOVERED"}
                /\ r.dunning \notin {"SUSPENDED", "PURGED"}
      BY <1>5, <1>6, <3>1, DnMarkedRow
    <3>3. w.attempts \in 0..3 /\ n \in 0..3
      <4>1. n \in 0..3 BY <1>5 DEF Keys, Attempts
      <4> QED BY <1>6, <4>1, DnRowFields
    <3>4. r.attempts >= w.attempts BY <3>2, <3>3
    <3>5. \A m \in Attempts : w.attempts = m => charge[<<s.i, m>>] # "NONE"
      BY <1>3, <1>4 DEF DnState, DnKept, DnRow
    <3>6. \A m \in Attempts : r.attempts = m => charge[<<s.i, m>>] # "NONE" BY <1>5, <3>2, <3>5
    <3> QED BY <1>3, <1>4, <3>2, <3>4, <3>6, DnTouched
  <2> QED BY <2>1, <2>2
<1> DEFINE new == IF v \in Failure THEN AfterFailure(s.i, n) ELSE <<>>
<1>10. Continue(p, new) BY <1>1, <1>4 DEF MarkAttempt
<1>11. new \in Seq(DnFits(p, C))
  <2>1. n \in 0..3 BY <1>5 DEF Keys, Attempts
  <2>2. AfterFailure(s.i, n) \in Seq(DnFits(p, C)) BY <1>3, <1>5, <2>1, DnFitsAfterFailure
  <2> QED BY <2>2, DnNothing
<1>12. UNCHANGED <<partner, charge, report, day, cycled, faults>> BY DEF MarkAttempt
<1> HIDE DEF new
<1> QED BY <1>2, <1>3, <1>8, <1>9, <1>10, <1>11, <1>12, DnWrites

\* MarkPastDue
LEMMA DnMarkPastDue ==
    ASSUME NEW C, NEW p \in Processes, DnState(C), MarkPastDue(p)
    PROVE  DnStep(C)
<1>1. PICK s : s = Head(program[p]) OBVIOUS
<1>2. At(p, "pastdue") /\ DnMovesOn(p) BY DnAtMoves DEF MarkPastDue
<1>3. program[p] # <<>> /\ s.i \in Invoices BY <1>1, <1>2, DnAtFits DEF DnCronOps, DnCloserOps
<1>4. PICK w : w = invoice[s.i] OBVIOUS
<1>5. w \in InvoiceRow BY <1>3, <1>4, DnAttempts DEF DnState, TypeOK
<1>6. PICK d : d = IF w.status # "PAID" /\ w.dunning \notin {"SUSPENDED", "PURGED", "RECOVERED"}
                   THEN "PAST_DUE" ELSE w.dunning
  OBVIOUS
<1>7. d \in {"NONE", "COLLECTING", "PAST_DUE", "SUSPENDED", "RECOVERED", "PURGED"}
  BY <1>5, <1>6, DnRowFields
<1>8. PICK r : r = [w EXCEPT !.dunning = d] OBVIOUS
<1>9. r \in InvoiceRow /\ r.attempts = w.attempts /\ r.due = w.due /\ r.dunning = d
  BY <1>5, <1>7, <1>8, DnDunningColumn
<1>10. \/ r.dunning = w.dunning
       \/ w.dunning \notin {"SUSPENDED", "PURGED", "RECOVERED"} /\ r.dunning \notin {"SUSPENDED", "PURGED"}
  BY <1>6, <1>9
<1>11. invoice' = [invoice EXCEPT ![s.i] = r] BY <1>1, <1>4, <1>6, <1>8 DEF MarkPastDue
<1>12. DnRowMay(r, s.i, C) BY <1>3, <1>4, <1>9, <1>10, DnSameAttempts
<1>13. Continue(p, <<>>) BY DEF MarkPastDue
<1>14. UNCHANGED <<partner, charge, report, day, cycled, faults>> BY DEF MarkPastDue
<1> QED BY <1>2, <1>3, <1>11, <1>12, <1>13, <1>14, DnNothing, DnWrites

\* SavePrevious
LEMMA DnSavePrevious ==
    ASSUME NEW C, NEW p \in Processes, DnState(C), SavePrevious(p)
    PROVE  DnStep(C)
<1>1. PICK s : s = Head(program[p]) OBVIOUS
<1>2. At(p, "previous") /\ DnMovesOn(p) BY DnAtMoves DEF SavePrevious
<1>3. program[p] # <<>> /\ s.i \in Invoices /\ DnFit(s, p, C) /\ s.op = "previous"
  BY <1>1, <1>2, DnAtFits DEF DnCronOps, DnCloserOps
<1>4. s.x = "LIVE" BY <1>3 DEF DnFit
<1>5. PICK w : w = invoice[s.i] OBVIOUS
<1>6. w \in InvoiceRow BY <1>3, <1>5, DnAttempts DEF DnState, TypeOK
<1>7. PICK d : d = IF w.previous = "" THEN s.x ELSE w.previous OBVIOUS
<1>8. d \in {"", "LIVE"} BY <1>4, <1>6, <1>7, DnRowFields
<1>9. PICK r : r = [w EXCEPT !.previous = d] OBVIOUS
<1>10. r \in InvoiceRow /\ r.attempts = w.attempts /\ r.due = w.due /\ r.dunning = w.dunning
  BY <1>6, <1>8, <1>9, DnPreviousColumn
<1>11. invoice' = [invoice EXCEPT ![s.i] = r] BY <1>1, <1>5, <1>7, <1>9 DEF SavePrevious
<1>12. DnRowMay(r, s.i, C) BY <1>3, <1>5, <1>10, DnSameAttempts
<1>13. Continue(p, <<>>) BY DEF SavePrevious
<1>14. UNCHANGED <<partner, charge, report, day, cycled, faults>> BY DEF SavePrevious
<1> QED BY <1>2, <1>3, <1>11, <1>12, <1>13, <1>14, DnNothing, DnWrites

\* MarkSuspended
LEMMA DnMarkSuspended ==
    ASSUME NEW C, NEW p \in Processes, DnState(C), MarkSuspended(p)
    PROVE  DnStep(C)
<1>1. PICK s : s = Head(program[p]) OBVIOUS
<1>2. At(p, "suspended") /\ DnMovesOn(p) BY DnAtMoves DEF MarkSuspended
<1>3. program[p] # <<>> /\ s.i \in Invoices /\ DnFit(s, p, C) /\ s.op = "suspended"
  BY <1>1, <1>2, DnAtFits DEF DnCronOps, DnCloserOps
<1>4. charge[<<s.i, 3>>] # "NONE" /\ ~ DnBound(s.i, C) BY <1>3 DEF DnFit
<1>5. PICK w : w = invoice[s.i] OBVIOUS
<1>6. w \in InvoiceRow /\ day \in 0..LastDay BY <1>3, <1>5, DnAttempts DEF DnState, TypeOK
<1>7. PICK r : r = [w EXCEPT !.dunning = "SUSPENDED", !.due = day + CureDays] OBVIOUS
<1>8. r \in InvoiceRow /\ r.attempts = w.attempts /\ r.due = day + CureDays /\ r.dunning = "SUSPENDED"
  BY <1>6, <1>7, DnSuspendedRow
<1>9. invoice' = [invoice EXCEPT ![s.i] = r] BY <1>1, <1>5, <1>7 DEF MarkSuspended
<1>10. DnRowMay(r, s.i, C)
  <2>1. \A m \in Attempts : w.attempts = m => charge[<<s.i, m>>] # "NONE"
    BY <1>3, <1>5 DEF DnState, DnKept, DnRow
  <2>2. s.i \notin C BY <1>4 DEF DnBound
  <2>3. ~ (r.due <= day) BY <1>6, <1>8, DunningAssumption
  <2>4. r.attempts >= w.attempts
    <3>1. w.attempts \in 0..3 BY <1>6, DnRowFields
    <3> QED BY <1>8, <3>1
  <2> QED BY <1>4, <1>5, <1>8, <2>1, <2>2, <2>3, <2>4 DEF DnRowMay
<1>11. Continue(p, <<>>) BY DEF MarkSuspended
<1>12. UNCHANGED <<partner, charge, report, day, cycled, faults>> BY DEF MarkSuspended
<1> QED BY <1>2, <1>3, <1>9, <1>10, <1>11, <1>12, DnNothing, DnWrites

\* MarkRecovered
LEMMA DnMarkRecovered ==
    ASSUME NEW C, NEW p \in Processes, DnState(C), MarkRecovered(p)
    PROVE  DnStep(C)
<1>1. PICK s : s = Head(program[p]) OBVIOUS
<1>2. At(p, "recovered") /\ DnMovesOn(p) BY DnAtMoves DEF MarkRecovered
<1>3. program[p] # <<>> /\ s.i \in Invoices /\ DnFit(s, p, C) /\ s.op = "recovered"
  BY <1>1, <1>2, DnAtFits DEF DnCronOps, DnCloserOps
<1>4. s.x \in {"RECOVERED", "NONE"} /\ (s.x = "NONE" => ~ DnBound(s.i, C)) BY <1>3 DEF DnFit
<1>5. PICK w : w = invoice[s.i] OBVIOUS
<1>6. w \in InvoiceRow BY <1>3, <1>5, DnAttempts DEF DnState, TypeOK
<1>7. PICK d : d = IF w.dunning = "PURGED" THEN w.dunning ELSE s.x OBVIOUS
<1>8. d \in {"NONE", "COLLECTING", "PAST_DUE", "SUSPENDED", "RECOVERED", "PURGED"} BY <1>4, <1>7
<1>9. PICK r : r = [w EXCEPT !.dunning = d] OBVIOUS
<1>10. r \in InvoiceRow /\ r.attempts = w.attempts /\ r.due = w.due /\ r.dunning = d
  BY <1>6, <1>8, <1>9, DnDunningColumn
<1>11. invoice' = [invoice EXCEPT ![s.i] = r] BY <1>1, <1>5, <1>7, <1>9 DEF MarkRecovered
<1>12. DnRowMay(r, s.i, C)
  <2>1. DnRow(s.i) /\ (s.i \in C => DnSelected(s.i)) BY <1>3 DEF DnState, DnKept
  <2>2. \A m \in Attempts : r.attempts = m => charge[<<s.i, m>>] # "NONE" BY <1>5, <1>10, <2>1 DEF DnRow
  <2>3. r.attempts >= w.attempts
    <3>1. w.attempts \in 0..3 BY <1>6, DnRowFields
    <3> QED BY <1>10, <3>1
  <2>4. CASE w.dunning = "PURGED"
    <3>1. /\ r.dunning = "PURGED" /\ charge[<<s.i, 3>>] # "NONE" /\ r.due <= day /\ DnBound(s.i, C)
          /\ DnDone(partner)
      BY <1>5, <1>7, <1>10, <2>1, <2>4 DEF DnRow, DnBound
    <3> QED BY <1>5, <1>10, <2>2, <2>3, <3>1 DEF DnRowMay
  <2>5. CASE w.dunning # "PURGED"
    <3>1. r.dunning = s.x BY <1>7, <1>10, <2>5
    <3>2. s.i \in C => r.dunning = "RECOVERED" /\ r.due <= day
      BY <1>4, <1>5, <1>10, <2>1, <3>1 DEF DnSelected, DnBound
    <3> QED BY <1>4, <1>5, <1>10, <2>2, <2>3, <3>1, <3>2 DEF DnRowMay
  <2> QED BY <2>4, <2>5
<1>13. Continue(p, <<>>) BY DEF MarkRecovered
<1>14. UNCHANGED <<partner, charge, report, day, cycled, faults>> BY DEF MarkRecovered
<1> QED BY <1>2, <1>3, <1>11, <1>12, <1>13, <1>14, DnNothing, DnWrites

\* MarkPurged
LEMMA DnMarkPurged ==
    ASSUME NEW C, NEW p \in Processes, DnState(C), MarkPurged(p)
    PROVE  DnStep(C)
<1>1. PICK s : s = Head(program[p]) OBVIOUS
<1>2. At(p, "purged") /\ DnMovesOn(p) BY DnAtMoves DEF MarkPurged
<1>0. DnFit(s, p, C) \/ DnClose(s, p, C) BY <1>1, <1>2, DnAtFits
<1>13. program[p] # <<>> /\ s.op = "purged" /\ DnNow(s, partner) BY <1>1, <1>2, DnAtFits
<1>4. s.i \in C /\ DnDone(partner) BY <1>0, <1>13 DEF DnFit, DnClose, DnCloser, DnCloserOps, DnNow
<1>3. program[p] # <<>> /\ s.i \in Invoices BY <1>4, <1>13 DEF DnState
<1>5. PICK w : w = invoice[s.i] OBVIOUS
<1>6. w \in InvoiceRow BY <1>3, <1>5, DnAttempts DEF DnState, TypeOK
<1>7. PICK r : r = [w EXCEPT !.dunning = "PURGED"] OBVIOUS
<1>8. r \in InvoiceRow /\ r.attempts = w.attempts /\ r.due = w.due /\ r.dunning = "PURGED"
  BY <1>6, <1>7, DnDunningColumn
<1>9. invoice' = [invoice EXCEPT ![s.i] = r] BY <1>1, <1>5, <1>7 DEF MarkPurged
<1>10. DnRowMay(r, s.i, C)
  <2>1. DnRow(s.i) /\ DnSelected(s.i) BY <1>3, <1>4 DEF DnState, DnKept
  <2>2. r.attempts >= w.attempts
    <3>1. w.attempts \in 0..3 BY <1>6, DnRowFields
    <3> QED BY <1>8, <3>1
  <2> QED BY <1>4, <1>5, <1>8, <2>1, <2>2 DEF DnRowMay, DnRow, DnSelected, DnBound
<1>11. Continue(p, <<>>) BY DEF MarkPurged
<1>12. UNCHANGED <<partner, charge, report, day, cycled, faults>> BY DEF MarkPurged
<1> QED BY <1>2, <1>3, <1>9, <1>10, <1>11, <1>12, DnNothing, DnWrites

\* A charge or an action that leaves everything as it was.
LEMMA DnNoChange ==
    ASSUME NEW C, NEW p \in Processes, NEW new, DnState(C), program[p] # <<>>, Continue(p, new),
           DnNew(p, C, new), DnMovesOn(p),
           UNCHANGED <<invoice, partner, charge, report, day, cycled, faults>>
    PROVE  DnStep(C)
<1>1. /\ partner' \in PartnerState /\ cycled' \in BOOLEAN /\ faults' \in 0..MaxFaults
      /\ DnLasts(partner, partner')
  BY DEF DnState, TypeOK, DnLasts
<1>2. DnAdvances(C) /\ DnTyped' /\ DnRowsKept(C)' BY <1>1, DnReads
<1> QED BY <1>2, DnContinues

\* WriteWorkflow
LEMMA DnWriteWorkflow ==
    ASSUME NEW C, NEW p \in Processes, DnState(C), WriteWorkflow(p)
    PROVE  DnStep(C)
<1>1. PICK s : s = Head(program[p]) OBVIOUS
<1>2. At(p, "workflow") /\ DnMovesOn(p) BY DnAtMoves DEF WriteWorkflow
<1>3. program[p] # <<>> /\ s.i \in Invoices /\ DnFit(s, p, C) /\ s.op = "workflow"
  BY <1>1, <1>2, DnAtFits DEF DnCronOps, DnCloserOps
<1>4. s.x \in Actions BY <1>3 DEF DnFit, Actions
<1>5. PICK w : w = invoice[s.i] OBVIOUS
<1>6. w \in InvoiceRow /\ day \in 0..LastDay BY <1>3, <1>5, DnAttempts DEF DnState, TypeOK
<1>7. UNCHANGED <<partner, charge, report, day, cycled, faults>> BY DEF WriteWorkflow
<1>8. CASE s.x \in w.ledger
  <2>1. Continue(p, <<>>) /\ UNCHANGED invoice BY <1>1, <1>5, <1>8 DEF WriteWorkflow
  <2> QED BY <1>2, <1>3, <1>7, <2>1, DnNothing, DnNoChange
<1>9. CASE s.x \notin w.ledger
  <2>1. PICK r : r = Acted(w, s.x) OBVIOUS
  <2>2. r \in InvoiceRow /\ r.attempts = w.attempts /\ r.due = w.due /\ r.dunning = w.dunning
    BY <1>4, <1>6, <2>1, DnActedRow
  <2>3. DnRowMay(r, s.i, C) BY <1>3, <1>5, <2>2, DnSameAttempts
  <2> DEFINE new == IF s.x = "send" THEN Collection(s.i) ELSE <<>>
  <2>4. invoice' = [invoice EXCEPT ![s.i] = r] /\ Continue(p, new)
    BY <1>1, <1>5, <1>9, <2>1 DEF WriteWorkflow
  <2>5. new \in Seq(DnFits(p, C)) BY <1>3, DnFitsCollection, DnNothing
  <2> HIDE DEF new
  <2> QED BY <1>2, <1>3, <1>7, <2>3, <2>4, <2>5, DnWrites
<1> QED BY <1>8, <1>9

\* Fault
LEMMA DnFault ==
    ASSUME NEW C, NEW p \in Processes, DnState(C), Fault(p)
    PROVE  DnStep(C)
<1>1. faults' \in 0..MaxFaults
  <2>1. faults \in 0..MaxFaults /\ faults < MaxFaults /\ faults' = faults + 1
    BY DEF Fault, DnState, TypeOK
  <2> QED BY <2>1, DunningAssumption
<1>2. UNCHANGED <<invoice, partner, charge, report, day, cycled>> BY DEF Fault
<1>3. partner' \in PartnerState /\ cycled' \in BOOLEAN /\ DnLasts(partner, partner')
  BY <1>2 DEF DnState, TypeOK, DnLasts
<1>4. DnAdvances(C) /\ DnTyped' /\ DnRowsKept(C)' BY <1>1, <1>2, <1>3, DnReads
<1>5. program' \in {[program EXCEPT ![p] = Unwound(@)], [program EXCEPT ![p] = <<>>]} BY DEF Fault
<1> QED BY <1>4, <1>5, DnUnwindsKept

\* The partner's states: what a statement may set.
LEMMA DnPartnerMay ==
    /\ \A r \in PartnerState, v \in {"LIVE", "SUSPENDED", "ARCHIVED"} :
          [r EXCEPT !.lifecycle = v] \in PartnerState
    /\ \A r \in PartnerState, v \in DnStatuses : [r EXCEPT !.subscription = v] \in PartnerState
BY DEF PartnerState, DnStatuses

\* Whether it is entitled may be set.
LEMMA DnEntitledMay ==
    ASSUME NEW r \in PartnerState, NEW b \in BOOLEAN
    PROVE  [r EXCEPT !.entitled = b] \in PartnerState
BY DEF PartnerState

\* A subscription update is one of dunning's or the purge's cancellation.
LEMMA DnUpdates ==
    ASSUME NEW C, NEW p, NEW s, s.op = "subscription", DnFit(s, p, C) \/ DnClose(s, p, C)
    PROVE  s.x \in [from : SUBSET (DnStatuses \ {"CANCELLED"}), to : DnStatuses]
<1>1. CASE DnFit(s, p, C) BY <1>1 DEF DnFit
<1>2. CASE DnClose(s, p, C)
  <2>1. s.x = DnCancel BY <1>2 DEF DnClose
  <2> QED BY <2>1 DEF DnCancel, DnStatuses
<1> QED BY <1>1, <1>2

\* UpdateSubscription: the cancellation reaches every subscription that is not.
LEMMA DnUpdateSubscription ==
    ASSUME NEW C, NEW p \in Processes, DnState(C), UpdateSubscription(p)
    PROVE  DnStep(C)
<1>1. PICK s : s = Head(program[p]) OBVIOUS
<1>2. At(p, "subscription") BY DEF UpdateSubscription
<1>0. DnFit(s, p, C) \/ DnClose(s, p, C) BY <1>1, <1>2, DnAtFits
<1>3. program[p] # <<>> /\ s.op = "subscription" /\ DnNow(s, partner) BY <1>1, <1>2, DnAtFits
<1>4. s.x \in [from : SUBSET (DnStatuses \ {"CANCELLED"}), to : DnStatuses] BY <1>0, <1>3, DnUpdates
<1>5. PICK d : d = IF partner.subscription \in s.x.from THEN s.x.to ELSE partner.subscription OBVIOUS
<1>6. partner \in PartnerState BY DEF DnState, TypeOK
<1>7. d \in DnStatuses /\ (partner.subscription = "CANCELLED" => d = "CANCELLED")
  BY <1>4, <1>5, <1>6 DEF PartnerState, DnStatuses
<1>8. partner' = [partner EXCEPT !.subscription = d] BY <1>1, <1>5 DEF UpdateSubscription
<1>9. partner' \in PartnerState BY <1>6, <1>7, <1>8, DnPartnerMay
<1>10. partner'.subscription = d /\ partner'.lifecycle = partner.lifecycle
  BY <1>6, <1>8 DEF PartnerState
<1>11. DnLasts(partner, partner') BY <1>7, <1>10 DEF DnLasts
<1>12. DnMovesOn(p)
  <2>1. ASSUME NEW t, DnLeads(s, t) PROVE DnNow(t, partner')
    <3>1. s.x = DnCancel /\ t.op = "purged" BY <1>3, <2>1 DEF DnLeads
    <3>2. s.x.to = "CANCELLED" /\ s.x.from = {"ACTIVE", "PAST_DUE", "SUSPENDED"} BY <3>1 DEF DnCancel
    <3>3. partner.lifecycle = "ARCHIVED" BY <1>3, <3>2 DEF DnNow
    <3>4. d = "CANCELLED" BY <1>5, <1>6, <3>2 DEF PartnerState
    <3> QED BY <1>10, <3>1, <3>3, <3>4 DEF DnNow, DnDone
  <2> QED BY <1>1, <2>1 DEF DnMovesOn
<1>13. Continue(p, <<>>) /\ UNCHANGED <<invoice, charge, report, day, cycled, faults>>
  BY DEF UpdateSubscription
<1> QED BY <1>3, <1>9, <1>11, <1>12, <1>13, DnNothing, DnExpands

\* A refused call unwinds its caller.
LEMMA DnRefused ==
    ASSUME NEW C, NEW p \in Processes, DnState(C),
           program' = [program EXCEPT ![p] = Unwound(@)],
           UNCHANGED <<invoice, partner, charge, report, day, cycled, faults>>
    PROVE  DnStep(C)
<1>1. /\ partner' \in PartnerState /\ cycled' \in BOOLEAN /\ faults' \in 0..MaxFaults
      /\ DnLasts(partner, partner')
  BY DEF DnState, TypeOK, DnLasts
<1>2. DnAdvances(C) /\ DnTyped' /\ DnRowsKept(C)' BY <1>1, DnReads
<1> QED BY <1>2, DnUnwindsKept

\* SetLifecycle
LEMMA DnSetLifecycle ==
    ASSUME NEW C, NEW p \in Processes, DnState(C), SetLifecycle(p)
    PROVE  DnStep(C)
<1>1. PICK s : s = Head(program[p]) OBVIOUS
<1>2. At(p, "lifecycle") /\ DnMovesOn(p) BY DnAtMoves DEF SetLifecycle
<1>3. program[p] # <<>> /\ DnFit(s, p, C) /\ s.op = "lifecycle"
  BY <1>1, <1>2, DnAtFits DEF DnCloserOps
<1>4. s.x \in {"LIVE", "SUSPENDED"} BY <1>3 DEF DnFit
<1>5. partner \in PartnerState BY DEF DnState, TypeOK
<1>6. UNCHANGED <<invoice, charge, report, day, cycled, faults>> BY DEF SetLifecycle
<1>7. CASE canTransition(partner.lifecycle, s.x)
  <2>1. partner' = [partner EXCEPT !.lifecycle = s.x] /\ Continue(p, <<>>) BY <1>1, <1>7 DEF SetLifecycle
  <2>2. partner' \in PartnerState BY <1>4, <1>5, <2>1, DnPartnerMay
  <2>3. partner.lifecycle # "ARCHIVED" BY <1>4, <1>7 DEF canTransition
  <2>4. partner'.subscription = partner.subscription BY <1>5, <2>1 DEF PartnerState
  <2>5. DnLasts(partner, partner') BY <2>3, <2>4 DEF DnLasts
  <2> QED BY <1>2, <1>3, <1>6, <2>1, <2>2, <2>5, DnNothing, DnExpands
<1>8. CASE ~ canTransition(partner.lifecycle, s.x)
  <2>1. program' = [program EXCEPT ![p] = Unwound(@)] /\ UNCHANGED partner
    BY <1>1, <1>8 DEF SetLifecycle
  <2> QED BY <1>6, <2>1, DnRefused
<1> QED BY <1>7, <1>8

\* SetEntitlements
LEMMA DnSetEntitlements ==
    ASSUME NEW C, NEW p \in Processes, DnState(C), SetEntitlements(p)
    PROVE  DnStep(C)
<1>1. PICK s : s = Head(program[p]) OBVIOUS
<1>2. At(p, "entitle") /\ DnMovesOn(p) BY DnAtMoves DEF SetEntitlements
<1>3. program[p] # <<>> /\ DnFit(s, p, C) /\ s.op = "entitle"
  BY <1>1, <1>2, DnAtFits DEF DnCloserOps
<1>4. s.x \in BOOLEAN BY <1>3, Zenon DEF DnFit
<1>5. PICK b : b = s.x OBVIOUS
<1>6. b \in BOOLEAN BY <1>4, <1>5, Zenon
<1>7. partner \in PartnerState BY DEF DnState, TypeOK
<1>8. partner' = [partner EXCEPT !.entitled = b] BY <1>1, <1>5, Zenon DEF SetEntitlements
<1>9. partner' \in PartnerState BY <1>6, <1>7, <1>8, DnEntitledMay, Zenon
<1>10. Continue(p, <<>>) /\ UNCHANGED <<invoice, charge, report, day, cycled, faults>>
  BY DEF SetEntitlements
<1>11. partner'.lifecycle = partner.lifecycle /\ partner'.subscription = partner.subscription
  BY <1>7, <1>8 DEF PartnerState
<1>12. DnLasts(partner, partner') BY <1>11 DEF DnLasts
<1> QED BY <1>2, <1>3, <1>9, <1>10, <1>12, DnNothing, DnExpands

\* PurgePartner
LEMMA DnPurgePartner ==
    ASSUME NEW C, NEW p \in Processes, DnState(C), PurgePartner(p)
    PROVE  DnStep(C)
<1>1. At(p, "purge") BY DEF PurgePartner
<1>2. program[p] # <<>> /\ Head(program[p]).op = "purge" BY <1>1, DnAtFits
<1>3. partner \in PartnerState BY DEF DnState, TypeOK
<1>4. UNCHANGED <<invoice, charge, report, day, cycled, faults>> BY DEF PurgePartner
<1>5. CASE partner.lifecycle \in {"SUSPENDED", "ARCHIVED"}
  <2>1. partner' = [partner EXCEPT !.lifecycle = "ARCHIVED"] /\ Continue(p, <<>>)
    BY <1>5 DEF PurgePartner
  <2>2. partner' \in PartnerState BY <1>3, <2>1, DnPartnerMay
  <2>3. partner'.lifecycle = "ARCHIVED" /\ partner'.subscription = partner.subscription
    BY <1>3, <2>1 DEF PartnerState
  <2>4. DnLasts(partner, partner') BY <2>3 DEF DnLasts
  <2>5. DnMovesOn(p) BY <1>2, <2>3 DEF DnMovesOn, DnLeads, DnNow
  <2> QED BY <1>2, <1>4, <2>1, <2>2, <2>4, <2>5, DnNothing, DnExpands
<1>6. CASE partner.lifecycle \notin {"SUSPENDED", "ARCHIVED"}
  <2>1. program' = [program EXCEPT ![p] = Unwound(@)] /\ UNCHANGED partner BY <1>6 DEF PurgePartner
  <2> QED BY <1>4, <2>1, DnRefused
<1> QED BY <1>5, <1>6

-----------------------------------------------------------------------------
(* Charges and their decisions *)

\* The answer to a charge fits when it was made.
LEMMA DnFitsMark ==
    ASSUME NEW C, NEW p, NEW i \in Invoices, NEW n \in Keys, NEW a \in DnAnswers,
           charge'[<<i, n>>] # "NONE"
    PROVE  Stmt("mark", i, [n |-> n, status |-> a]) \in DnFits(p, C)'
<1>1. PICK x : x = [n |-> n, status |-> a] OBVIOUS
<1>2. x \in [n : Keys, status : DnAnswers] /\ x.n = n BY <1>1
<1>3. "mark" \in DnOps /\ i \in Invoices \cup {0} /\ x \in DnArgs BY <1>2, DnArgAnswers DEF DnOps
<1>4. PICK s : s = Stmt("mark", i, x) OBVIOUS
<1>5. s \in DnStmts /\ s.op = "mark" /\ s.i = i /\ s.x = x BY <1>3, <1>4, DnMade
<1>6. DnFit(s, p, C)' BY <1>2, <1>5 DEF DnFit, DnCloser, DnCronOps, DnCloserOps
<1> QED BY <1>1, <1>4, <1>5, <1>6 DEF DnFits

\* RequestCharge
LEMMA DnRequestCharge ==
    ASSUME NEW C, NEW p \in Processes, DnState(C), RequestCharge(p)
    PROVE  DnStep(C)
<1>1. PICK s : s = Head(program[p]) OBVIOUS
<1>2. At(p, "charge") /\ DnMovesOn(p) BY DnAtMoves DEF RequestCharge
<1>3. program[p] # <<>> /\ s.i \in Invoices /\ DnFit(s, p, C) /\ s.op = "charge"
  BY <1>1, <1>2, DnAtFits DEF DnCronOps, DnCloserOps
<1>4. PICK i, n : i = s.i /\ n = s.x OBVIOUS
<1>5. i \in Invoices /\ n \in Keys /\ invoice[i].attempts >= n - 1 BY <1>3, <1>4 DEF DnFit
<1>6. PICK a \in IF charge[<<i, n>>] = "NONE" THEN FirstAnswers ELSE {charge[<<i, n>>]} :
         /\ charge' = [charge EXCEPT ![<<i, n>>] = a]
         /\ Continue(p, <<Stmt("mark", i, [n |-> n, status |-> a])>>)
  BY <1>1, <1>4 DEF RequestCharge
<1>7. charge \in [Charges -> {"NONE", "PROCESSING", "SUCCEEDED"} \cup Failure] BY DEF DnState, TypeOK
<1>8. <<i, n>> \in Charges BY <1>5 DEF Charges
<1>9. a \in DnAnswers
  <2>1. CASE charge[<<i, n>>] = "NONE" BY <1>6, <2>1, DunningAssumption DEF DnAnswers, Failure
  <2>2. CASE charge[<<i, n>>] # "NONE" BY <1>6, <1>7, <1>8, <2>2 DEF DnAnswers, Failure
  <2> QED BY <2>1, <2>2
<1>10. charge'[<<i, n>>] # "NONE" BY <1>6, <1>7, <1>8, <1>9 DEF DnAnswers, Failure
<1>11. Stmt("mark", i, [n |-> n, status |-> a]) \in DnFits(p, C)' BY <1>5, <1>9, <1>10, DnFitsMark
<1> DEFINE m == Stmt("mark", i, [n |-> n, status |-> a])
           G == DnFits(p, C)'
<1>12. <<m>> \in Seq(G)
  <2>1. m \in G BY <1>11
  <2> HIDE DEF m, G
  <2> QED BY <2>1
<1>13. UNCHANGED <<invoice, partner, report, day, cycled, faults>> BY DEF RequestCharge
<1>14. report' \in [Charges -> {"NONE", "DUE", "SETTLED"}] BY <1>13 DEF DnState, TypeOK
<1>15. a \in {"PROCESSING", "SUCCEEDED"} \cup Failure BY <1>9 DEF DnAnswers
<1>16. DnAdvances(C) /\ DnTyped' /\ DnRowsKept(C)' BY <1>5, <1>6, <1>13, <1>14, <1>15, DnChargesKept
<1>17. Continue(p, <<m>>) BY <1>6
<1> HIDE DEF m
<1> QED BY <1>2, <1>3, <1>12, <1>16, <1>17, DnContinues DEF DnNew

\* ChargeRefused
LEMMA DnChargeRefused ==
    ASSUME NEW C, NEW p \in Processes, DnState(C), ChargeRefused(p)
    PROVE  DnStep(C)
<1>1. PICK s : s = Head(program[p]) OBVIOUS
<1>2. At(p, "charge") /\ DnMovesOn(p) BY DnAtMoves DEF ChargeRefused
<1>3. program[p] # <<>> /\ s.i \in Invoices /\ DnFit(s, p, C) /\ s.op = "charge"
  BY <1>1, <1>2, DnAtFits DEF DnCronOps, DnCloserOps
<1>4. PICK i, n : i = s.i /\ n = s.x OBVIOUS
<1>5. i \in Invoices /\ n \in Keys /\ invoice[i].attempts >= n - 1 BY <1>3, <1>4 DEF DnFit
<1> DEFINE m == Stmt("pend", i, 0)
<1>6. /\ charge' \in {charge} \cup IF charge[<<i, n>>] = "NONE"
                                   THEN {[charge EXCEPT ![<<i, n>>] = "PROCESSING"]} ELSE {}
      /\ Continue(p, <<m>>)
  BY <1>1, <1>4 DEF ChargeRefused
<1>7. <<m>> \in Seq(DnFits(p, C))
  <2> DEFINE F == DnFits(p, C)
  <2>1. m \in F BY <1>5, DnFitsBare
  <2> HIDE DEF m, F
  <2>2. <<m>> \in Seq(F) BY <2>1
  <2> QED BY <2>2 DEF F
<1>8. UNCHANGED <<invoice, partner, report, day, cycled, faults>> BY DEF ChargeRefused
<1> HIDE DEF m
<1>9. CASE charge' = charge BY <1>2, <1>3, <1>6, <1>7, <1>8, <1>9, DnNoChange DEF DnNew
<1>10. CASE charge' = [charge EXCEPT ![<<i, n>>] = "PROCESSING"]
  <2>1. report' \in [Charges -> {"NONE", "DUE", "SETTLED"}] BY <1>8 DEF DnState, TypeOK
  <2>2. DnAdvances(C) /\ DnTyped' /\ DnRowsKept(C)' BY <1>5, <1>8, <1>10, <2>1, DnChargesKept
  <2> QED BY <1>2, <1>3, <1>6, <1>7, <2>2, DnContinues DEF DnNew
<1> QED BY <1>6, <1>9, <1>10

\* An action that leaves the programs and keeps the data leaves the state kept.
LEMMA DnIdles ==
    ASSUME NEW C, DnState(C), DnAdvances(C), DnTyped', DnRowsKept(C)', program' = program
    PROVE  DnStep(C)
<1>1. TypeOK /\ C \subseteq Invoices /\ DnKept(C) BY DEF DnState
<1>2. DOMAIN program = Processes BY <1>1 DEF TypeOK
<1>3. TypeOK' BY <1>2 DEF TypeOK, DnTyped
<1>4. ASSUME NEW q \in Processes PROVE program'[q] \in DnPrograms(q, C)'
  <2>1. PICK o : o = program[q] OBVIOUS
  <2>2. o \in DnPrograms(q, C) BY <1>1, <2>1 DEF DnKept
  <2>3. o \in DnPrograms(q, C)' BY <1>1, <2>2, DnProgramStays
  <2> QED BY <2>1, <2>3
<1>5. (\A i \in Invoices : DnRow(i))' /\ (\A i \in C : DnSelected(i))' BY DEF DnRowsKept
<1>6. DnKept(C)' BY <1>4, <1>5 DEF DnKept
<1> QED BY <1>1, <1>3, <1>6 DEF DnState, DnStep

\* Decide
LEMMA DnDecide ==
    ASSUME NEW C, NEW c \in Charges, NEW outcome \in {"SUCCEEDED", "FAILED"}, DnState(C),
           Decide(c, outcome)
    PROVE  DnStep(C)
<1>1. PICK i \in Invoices, n \in Keys : c = <<i, n>> BY DEF Charges
<1>2. charge' = [charge EXCEPT ![<<i, n>>] = outcome] /\ charge[<<i, n>>] # "NONE" BY <1>1 DEF Decide
<1>3. outcome \in {"PROCESSING", "SUCCEEDED"} \cup Failure BY DEF Failure
<1>4. report' \in [Charges -> {"NONE", "DUE", "SETTLED"}] BY DEF Decide, DnState, TypeOK
<1>5. UNCHANGED <<invoice, partner, day, cycled, faults>> /\ program' = program BY DEF Decide
<1>6. DnAdvances(C) /\ DnTyped' /\ DnRowsKept(C)' BY <1>2, <1>3, <1>4, <1>5, DnChargesKept
<1> QED BY <1>5, <1>6, DnIdles

-----------------------------------------------------------------------------
(* The settlement, the operator and the daily cycle *)

\* What a settlement goes on with when the invoice is not behind: nothing was ever
\* suspended.
LEMMA DnFitsFirstPayment ==
    ASSUME NEW C, NEW p, NEW i \in Invoices, DnState(C),
           ~ (invoice[i].attempts > 1 \/ invoice[i].dunning \in {"PAST_DUE", "SUSPENDED"})
    PROVE  Stmt("recovered", i, "NONE") \in DnFits(p, C)
<1>1. DnRow(i) /\ (i \in C => DnSelected(i)) BY DEF DnState, DnKept
<1>2. charge[<<i, 3>>] = "NONE"
  <2>1. invoice[i] \in InvoiceRow BY DnAttempts DEF DnState, TypeOK
  <2>2. invoice[i].attempts \in Int BY DnAttempts DEF DnState, TypeOK
  <2>3. ~ (invoice[i].attempts >= 2) BY <2>2
  <2> QED BY <1>1, <2>3 DEF DnRow
<1>3. ~ DnBound(i, C) BY <1>1, <1>2 DEF DnBound, DnRow, DnSelected
<1>4. PICK s : s = Stmt("recovered", i, "NONE") OBVIOUS
<1>5. "recovered" \in DnOps /\ i \in Invoices \cup {0} /\ "NONE" \in DnArgs BY DnArgNames DEF DnOps
<1>6. s \in DnStmts /\ s.op = "recovered" /\ s.i = i /\ s.x = "NONE" BY <1>4, <1>5, DnMade
<1>7. DnFit(s, p, C) BY <1>3, <1>6 DEF DnFit, DnCloser, DnCronOps, DnCloserOps
<1> QED BY <1>4, <1>6, <1>7 DEF DnFits

\* After three attempts the third was charged.
LEMMA DnThird ==
    ASSUME NEW C, NEW i \in Invoices, DnState(C), invoice[i].attempts = 3
    PROVE  charge[<<i, 3>>] # "NONE"
<1>1. \A n \in Attempts : invoice[i].attempts = n => charge[<<i, n>>] # "NONE"
  BY DEF DnState, DnKept, DnRow
<1>2. 3 \in Attempts BY DEF Attempts
<1> QED BY <1>1, <1>2

\* Settle
LEMMA DnSettle ==
    ASSUME NEW C, NEW p \in Processes, NEW i \in Invoices, NEW n \in Keys, DnState(C),
           Settle(p, i, n)
    PROVE  DnStep(C)
<1>1. PICK w : w = invoice[i] OBVIOUS
<1>2. w \in InvoiceRow /\ day \in 0..LastDay BY <1>1, DnAttempts DEF DnState, TypeOK
<1>3. report' \in [Charges -> {"NONE", "DUE", "SETTLED"}] BY DEF Settle, DnState, TypeOK
<1>4. UNCHANGED <<partner, charge, day, cycled, faults>> BY DEF Settle
<1>5. w.attempts \in 0..3 BY <1>2, DnRowFields
<1>6. CASE charge[<<i, n>>] = "SUCCEEDED"
  <2>1. PICK r : r = Paid(w) OBVIOUS
  <2>2. r \in InvoiceRow /\ r.attempts = w.attempts /\ r.due = w.due /\ r.dunning = w.dunning
    BY <1>2, <2>1, DnPaidRow
  <2>3. DnRowMay(r, i, C) BY <1>1, <2>2, DnSameAttempts
  <2> DEFINE behind == w.attempts > 1 \/ w.dunning \in {"PAST_DUE", "SUSPENDED"}
             a == Stmt("recover", i, 0)
             b == Stmt("recovered", i, "NONE")
             sub == Stmt("subscription", i, [from |-> {"PAST_DUE"}, to |-> "ACTIVE"])
             new == IF behind THEN <<a>> ELSE <<b, sub>>
             F == DnFits(p, C)
  <2>4. invoice' = [invoice EXCEPT ![i] = r] /\ program' = [program EXCEPT ![p] = new]
    BY <1>1, <1>6, <2>1 DEF Settle
  <2>5. new \in Seq(F)
    <3>1. a \in F BY DnFitsBare
    <3>2. sub \in F BY DnFitsSubscription DEF DnStatuses
    <3>3. ~ behind => b \in F BY <1>1, DnFitsFirstPayment
    <3>4. new = <<a>> \/ (b \in F /\ new = <<b, sub>>) BY <3>3
    <3> HIDE DEF a, b, sub, F, new, behind
    <3>5. <<a>> \in Seq(F) BY <3>1
    <3>6. b \in F => <<b, sub>> \in Seq(F) BY <3>2
    <3> QED BY <3>4, <3>5, <3>6
  <2>6. DnAdvances(C) /\ DnTyped' /\ DnRowsKept(C)'
    <3>1. invoice' = [invoice EXCEPT ![i] = r] BY <2>4
    <3> QED BY <1>3, <1>4, <2>3, <3>1, DnWritesRow
  <2>7. program' = [program EXCEPT ![p] = new] BY <2>4
  <2> HIDE DEF new
  <2> QED BY <2>5, <2>6, <2>7, DnGoesOn DEF DnNew
<1>7. CASE charge[<<i, n>>] # "SUCCEEDED"
  <2>1. PICK r : r = [w EXCEPT !.provider = "FAILED"] OBVIOUS
  <2>2. r \in InvoiceRow /\ r.attempts = w.attempts /\ r.due = w.due /\ r.dunning = w.dunning
    BY <1>2, <2>1, DnProviderColumn
  <2>3. DnRowMay(r, i, C) BY <1>1, <2>2, DnSameAttempts
  <2>4. invoice' = [invoice EXCEPT ![i] = r] /\ program' = [program EXCEPT ![p] = AfterFailure(i, w.attempts)]
    BY <1>1, <1>7, <2>1 DEF Settle
  <2>5. AfterFailure(i, w.attempts) \in Seq(DnFits(p, C))
    <3>1. w.attempts = 3 => charge[<<i, 3>>] # "NONE" BY <1>1, DnThird
    <3> QED BY <1>5, <3>1, DnFitsAfterFailure
  <2>6. DnAdvances(C) /\ DnTyped' /\ DnRowsKept(C)' BY <1>3, <1>4, <2>3, <2>4, DnWritesRow
  <2> QED BY <2>4, <2>5, <2>6, DnGoesOn DEF DnNew
<1> QED BY <1>6, <1>7

\* Operate
LEMMA DnOperate ==
    ASSUME NEW C, NEW p \in Processes, NEW i \in Invoices, NEW action \in Actions,
           DnState(C), Operate(p, i, action)
    PROVE  DnStep(C)
<1>1. PICK s : s = Stmt("workflow", i, action) OBVIOUS
<1>2. "workflow" \in DnOps /\ i \in Invoices \cup {0} /\ action \in DnArgs BY DnArgNames DEF DnOps, Actions
<1>3. s \in DnStmts /\ s.op = "workflow" /\ s.i = i /\ s.x = action BY <1>1, <1>2, DnMade
<1>4. DnFit(s, p, C) BY <1>3 DEF DnFit, Actions, DnCloser, DnCronOps, DnCloserOps
<1> DEFINE F == DnFits(p, C)
<1>5. s \in F BY <1>3, <1>4 DEF DnFits
<1>6. <<s>> \in Seq(F)
  <2> HIDE DEF F
  <2> QED BY <1>5
<1>7. program' = [program EXCEPT ![p] = <<s>>] BY <1>1 DEF Operate
<1>8. UNCHANGED <<invoice, partner, charge, report, day, cycled, faults>> BY DEF Operate
<1>9. /\ partner' \in PartnerState /\ cycled' \in BOOLEAN /\ faults' \in 0..MaxFaults
      /\ DnLasts(partner, partner')
  BY <1>8 DEF DnState, TypeOK, DnLasts
<1>10. DnAdvances(C) /\ DnTyped' /\ DnRowsKept(C)' BY <1>8, <1>9, DnReads
<1> QED BY <1>6, <1>7, <1>10, DnGoesOn DEF DnNew

\* StartCron
LEMMA DnStartCron ==
    ASSUME NEW C, DnState(C), StartCron
    PROVE  DnStep(C)
<1> DEFINE F == DnFits(Cron, C)
           a == Stmt("retry", 0, 0)
           b == Stmt("plan", 0, 0)
           c == Stmt("dunning", 0, 0)
           d == Stmt("archive", 0, 0)
<1>1. a \in F /\ b \in F /\ c \in F /\ d \in F BY DnFitsCron DEF DnCronOps
<1>2. program' = [program EXCEPT ![Cron] = <<a, b, c, d>>] BY DEF StartCron
<1>3. <<a, b, c, d>> \in Seq(F)
  <2> HIDE DEF F, a, b, c, d
  <2> QED BY <1>1
<1>4. UNCHANGED <<invoice, partner, charge, report, day, faults>> /\ cycled' \in BOOLEAN BY DEF StartCron
<1>5. partner' \in PartnerState /\ faults' \in 0..MaxFaults /\ DnLasts(partner, partner')
  BY <1>4 DEF DnState, TypeOK, DnLasts
<1>6. DnAdvances(C) /\ DnTyped' /\ DnRowsKept(C)' BY <1>4, <1>5, DnReads
<1>7. Cron \in Processes BY DEF Processes
<1> HIDE DEF F, a, b, c, d
<1>8. <<a, b, c, d>> \in Seq(DnFits(Cron, C)) BY <1>3 DEF F
<1> QED BY <1>2, <1>6, <1>7, <1>8, DnGoesOn DEF DnNew

\* What the cycle does for each invoice is a sequence of statements that fit, when
\* what it does for each one is.
LEMMA DnForEachFits ==
    ASSUME NEW T, NEW b, <<>> \in T, \A x, y \in T : x \o y \in T, \A i \in Invoices : b[i] \in T
    PROVE  DnForEach(b) \in T
<1> DEFINE s == SetToSeq(Invoices)
           n == Cardinality(Invoices)
           seqs == [k \in DOMAIN s |-> b[s[k]]]
<1>1. s \in [1..n -> Invoices] /\ n \in Nat BY DnInvoiceSeq
<1>2. DnForEach(b) = FlattenSeq(seqs) BY DEF DnForEach
<1> HIDE DEF s, n
<1>3. seqs \in [1..n -> T] BY <1>1
<1>4. seqs \in Seq(T) /\ Len(seqs) = n
  <2> HIDE DEF seqs
  <2> QED BY <1>1, <1>3
<1>5. n = 0 => seqs = <<>>
  <2> HIDE DEF seqs
  <2> QED BY <1>4, EmptySeq
<1>6. \A k \in 1..n : seqs[k] \in T BY <1>3
<1> HIDE DEF seqs
<1> QED BY <1>1, <1>2, <1>4, <1>5, <1>6, DnFlatten

\* The same for statements that fit.
LEMMA DnForEachFitting ==
    ASSUME NEW S, NEW b, \A i \in Invoices : b[i] \in Seq(S)
    PROVE  DnForEach(b) \in Seq(S)
<1>1. <<>> \in Seq(S) BY EmptySeq
<1>2. \A x, y \in Seq(S) : x \o y \in Seq(S) BY ConcatProperties
<1> QED BY <1>1, <1>2, DnForEachFits

\* RetryPending
LEMMA DnRetryPending ==
    ASSUME NEW C, DnState(C), RetryPending
    PROVE  DnStep(C)
<1> DEFINE b == [i \in Invoices |->
                   IF invoice[i].status # "PAID" /\ invoice[i].provider = "COLLECTION_PENDING"
                   THEN Collection(i) ELSE <<>>]
<1>1. Cron \in Processes BY DEF Processes
<1>0. At(Cron, "retry") BY DEF RetryPending
<1>2. program[Cron] # <<>> /\ DnMovesOn(Cron) BY <1>0, DnAtMoves DEF At
<1>3. Continue(Cron, DnForEach(b))
  <2>1. SetToSeq(Invoices) \in [1..Cardinality(Invoices) -> Invoices] BY DnInvoiceSeq
  <2> QED BY <2>1 DEF RetryPending, ForEachInvoice, DnForEach
<1>4. \A i \in Invoices : b[i] \in Seq(DnFits(Cron, C)) BY DnFitsCollection, DnNothing
<1> HIDE DEF b
<1>5. DnForEach(b) \in Seq(DnFits(Cron, C)) BY <1>4, DnForEachFitting
<1>6. UNCHANGED <<invoice, partner, charge, report, day, cycled, faults>> BY DEF RetryPending
<1> QED BY <1>1, <1>2, <1>3, <1>5, <1>6, DnNoChange DEF DnNew

\* What the cycle does with an invoice it has read.
LEMMA DnFitsWork ==
    ASSUME NEW C, NEW i \in Invoices, DnState(C)
    PROVE  DunningWork(i) \in Seq(DnFits(Cron, C))
<1> DEFINE w == invoice[i]
           F == DnFits(Cron, C)
           a == AfterFailure(i, w.attempts)
           c == IF collectionRetryDue(w.attempts) THEN Collection(i) ELSE <<>>
           r == <<Stmt("recover", i, 0)>>
<1>1. w \in InvoiceRow BY DnAttempts DEF DnState, TypeOK
<1>2. w.attempts \in 0..3
  <2> HIDE DEF w
  <2> QED BY <1>1, DnRowFields
<1>3. w.attempts = 3 => charge[<<i, 3>>] # "NONE" BY DnThird
<1>4. a \in Seq(F) BY <1>2, <1>3, DnFitsAfterFailure
<1>5. c \in Seq(F) BY DnFitsCollection, DnNothing
<1>6. r \in Seq(F)
  <2>1. Stmt("recover", i, 0) \in F BY DnFitsBare
  <2> HIDE DEF F
  <2> QED BY <2>1
<1>7. <<>> \in Seq(F) BY DnNothing
<1>8. DunningWork(i) \in {<<>>, r, a \o c}
  <2>1. CASE w.dunning = "PURGED" \/ w.workflow \notin {"SENT", "PAID"} BY <2>1 DEF DunningWork
  <2>2. CASE ~ (w.dunning = "PURGED" \/ w.workflow \notin {"SENT", "PAID"}) /\ w.status = "PAID"
    <3> HIDE DEF a, c
    <3> QED BY <2>2 DEF DunningWork
  <2>3. CASE ~ (w.dunning = "PURGED" \/ w.workflow \notin {"SENT", "PAID"}) /\ w.status # "PAID"
             /\ w.provider \in Failure
    BY <2>3 DEF DunningWork
  <2>4. CASE ~ (w.dunning = "PURGED" \/ w.workflow \notin {"SENT", "PAID"}) /\ w.status # "PAID"
             /\ w.provider \notin Failure
    BY <2>4 DEF DunningWork
  <2> QED BY <2>1, <2>2, <2>3, <2>4
<1> HIDE DEF a, c, r, F
<1>9. a \o c \in Seq(F) BY <1>4, <1>5, ConcatProperties
<1> QED BY <1>6, <1>7, <1>8, <1>9 DEF F

\* RunDunning
LEMMA DnRunDunning ==
    ASSUME NEW C, DnState(C), RunDunning
    PROVE  DnStep(C)
<1> DEFINE b == [i \in Invoices |-> DunningWork(i)]
<1>1. Cron \in Processes BY DEF Processes
<1>0. At(Cron, "dunning") BY DEF RunDunning
<1>2. program[Cron] # <<>> /\ DnMovesOn(Cron) BY <1>0, DnAtMoves DEF At
<1>3. Continue(Cron, DnForEach(b))
  <2>1. SetToSeq(Invoices) \in [1..Cardinality(Invoices) -> Invoices] BY DnInvoiceSeq
  <2> QED BY <2>1 DEF RunDunning, ForEachInvoice, DnForEach
<1>4. \A i \in Invoices : b[i] \in Seq(DnFits(Cron, C)) BY DnFitsWork
<1> HIDE DEF b
<1>5. DnForEach(b) \in Seq(DnFits(Cron, C)) BY <1>4, DnForEachFitting
<1>6. UNCHANGED <<invoice, partner, charge, report, day, cycled, faults>> BY DEF RunDunning
<1> QED BY <1>1, <1>2, <1>3, <1>5, <1>6, DnNoChange DEF DnNew

\* SyncPlan
LEMMA DnSyncPlan ==
    ASSUME NEW C, DnState(C), SyncPlan
    PROVE  DnStep(C)
<1> DEFINE F == DnFits(Cron, C)
           e == Stmt("entitle", 0, TRUE)
           r == Stmt("return", 0, 0)
           new == IF partner.subscription = "ACTIVE" THEN Append(<<e>>, r) ELSE <<>>
<1>1. Cron \in Processes BY DEF Processes
<1>0. At(Cron, "plan") BY DEF SyncPlan
<1>2. program[Cron] # <<>> /\ DnMovesOn(Cron) BY <1>0, DnAtMoves DEF At
<1>3. Continue(Cron, new) BY DEF SyncPlan, Ignoring
<1>4. e \in F
  <2>1. 0 \in Invoices \cup {0} OBVIOUS
  <2> QED BY <2>1, DnFitsEntitle, Zenon
<1>5. r \in F BY DnFitsCron
<1>6. <<>> \in Seq(F) BY DnNothing
<1> HIDE DEF F, e, r
<1>7. <<e>> \in Seq(F) BY <1>4
<1>8. Append(<<e>>, r) \in Seq(F) BY <1>5, <1>7, AppendProperties
<1>9. new \in Seq(DnFits(Cron, C)) BY <1>6, <1>8 DEF F
<1>10. UNCHANGED <<invoice, partner, charge, report, day, cycled, faults>> BY DEF SyncPlan
<1> HIDE DEF new
<1> QED BY <1>1, <1>2, <1>3, <1>9, <1>10, DnNoChange DEF DnNew

\* To select the invoices whose purge is due binds no other.
LEMMA DnWidens ==
    ASSUME NEW C, NEW D, DnState(C), D = C \cup {i \in Invoices : purgeDue(i)}
    PROVE  DnState(D)
<1>1. TypeOK /\ C \subseteq Invoices /\ DnKept(C) BY DEF DnState
<1>2. D \subseteq Invoices BY <1>1
<1>3. ASSUME NEW i \in Invoices PROVE DnBound(i, D) => DnBound(i, C) BY DEF DnBound, purgeDue
<1>4. ASSUME NEW i \in D PROVE DnSelected(i)
  <2>1. CASE i \in C BY <1>1, <2>1 DEF DnKept
  <2>2. CASE i \notin C
    <3>1. i \in Invoices /\ purgeDue(i) BY <2>2
    <3>2. DnRow(i) BY <1>1, <3>1 DEF DnKept
    <3> QED BY <3>1, <3>2 DEF purgeDue, DnRow, DnSelected
  <2> QED BY <2>1, <2>2
<1>5. ASSUME NEW q \in Processes PROVE program[q] \in DnPrograms(q, D)
  <2> DEFINE M == DnMay(q, C)
             N == DnMay(q, D)
  <2>1. ASSUME NEW s \in M PROVE s \in N
    <3>1. s \in DnStmts /\ (DnFit(s, q, C) \/ DnClose(s, q, C)) BY DEF DnMay
    <3>2. CASE DnClose(s, q, C)
      <4>1. DnClose(s, q, D) BY <3>2 DEF DnClose
      <4> QED BY <3>1, <4>1 DEF DnMay
    <3>3. CASE DnFit(s, q, C)
      <4>1. \/ s.op = "suspended"
            \/ s.op = "lifecycle" /\ s.x = "SUSPENDED"
            \/ s.op = "recovered" /\ s.x = "NONE"
            => ~ DnBound(s.i, D)
        <5>1. SUFFICES ASSUME \/ s.op = "suspended"
                              \/ s.op = "lifecycle" /\ s.x = "SUSPENDED"
                              \/ s.op = "recovered" /\ s.x = "NONE"
                       PROVE  ~ DnBound(s.i, D)
          OBVIOUS
        <5>2. s.i \in Invoices BY <3>3, <5>1 DEF DnFit, DnCronOps
        <5>3. ~ DnBound(s.i, C) BY <3>3, <5>1 DEF DnFit
        <5> QED BY <1>3, <5>2, <5>3
      <4>2. DnFit(s, q, D) BY <3>3, <4>1 DEF DnFit
      <4> QED BY <3>1, <4>2 DEF DnMay
    <3> QED BY <3>1, <3>2, <3>3
  <2>2. program[q] \in Seq(M) /\ DnChained(program[q], partner) BY <1>1 DEF DnKept, DnPrograms
  <2> HIDE DEF M, N
  <2>3. M \subseteq N BY <2>1
  <2>4. program[q] \in Seq(N) BY <2>2, <2>3, SeqMonotonic
  <2> QED BY <2>2, <2>4 DEF N, DnPrograms
<1>6. \A i \in Invoices : DnRow(i) BY <1>1 DEF DnKept
<1>7. DnKept(D) BY <1>4, <1>5, <1>6 DEF DnKept
<1> QED BY <1>1, <1>2, <1>7 DEF DnState

\* The statements of a purge, for an invoice the cycle has selected, are a program.
LEMMA DnClosing ==
    ASSUME NEW C, NEW i \in C, C \subseteq Invoices
    PROVE  <<Stmt("entitle", i, FALSE), Stmt("purge", i, 0), Stmt("subscription", i, DnCancel),
             Stmt("purged", i, 0)>> \in DnPrograms(Cron, C)
<1> DEFINE M == DnMay(Cron, C)
<1>1. PICK e, u, v, w : /\ e = Stmt("entitle", i, FALSE)
                        /\ u = Stmt("purge", i, 0)
                        /\ v = Stmt("subscription", i, DnCancel)
                        /\ w = Stmt("purged", i, 0)
  OBVIOUS
<1>2. i \in Invoices \cup {0} /\ 0 \in DnArgs BY DnArgNumbers
<1>3. e \in M /\ ~ DnCloser(e)
  <2>1. e \in DnFits(Cron, C) BY <1>1, <1>2, DnFitsEntitle, Zenon
  <2> QED BY <2>1 DEF DnFits, DnMay, DnFit
<1>4. u \in DnStmts /\ u.op = "purge" /\ u.i = i
  <2>1. "purge" \in DnOps BY DEF DnOps, DnCloserOps
  <2> QED BY <1>1, <1>2, <2>1, DnMade
<1>5. w \in DnStmts /\ w.op = "purged" /\ w.i = i
  <2>1. "purged" \in DnOps BY DEF DnOps, DnCloserOps
  <2> QED BY <1>1, <1>2, <2>1, DnMade
<1>6. v \in DnStmts /\ v.op = "subscription" /\ v.i = i /\ v.x = DnCancel
  <2>1. "subscription" \in DnOps BY DEF DnOps
  <2>2. DnCancel \in DnArgs
    <3>1. DnCancel \in [from : SUBSET DnStatuses, to : DnStatuses] BY DEF DnCancel, DnStatuses
    <3> QED BY <3>1, DnArgUpdates
  <2> QED BY <1>1, <1>2, <2>1, <2>2, DnMade
<1>7. DnCancel.to = "CANCELLED" BY DEF DnCancel
<1>8. u \in M /\ v \in M /\ w \in M
  BY <1>4, <1>5, <1>6, <1>7 DEF DnMay, DnClose, DnCloser, DnCloserOps
<1> HIDE DEF M
<1>9. PICK q : q = <<e, u, v, w>> OBVIOUS
<1>10. q \in Seq(M) BY <1>3, <1>8, <1>9
<1>11. Len(q) = 4 /\ q[1] = e /\ q[2] = u /\ q[3] = v /\ q[4] = w BY <1>9
<1>12. PICK r : r = partner OBVIOUS
<1>13. DnNow(e, r) BY <1>3 DEF DnNow, DnCloser, DnCloserOps
<1>14. DnNow(u, r) /\ DnLeads(u, v) /\ DnLeads(v, w) BY <1>4, <1>5, <1>6 DEF DnNow, DnLeads
<1>15. ASSUME NEW k \in 1..4 PROVE DnNow(q[k], r) \/ (k > 1 /\ DnLeads(q[k - 1], q[k]))
  <2>1. CASE k = 1 BY <1>11, <1>13, <2>1
  <2>2. CASE k = 2 BY <1>11, <1>14, <2>2
  <2>3. CASE k = 3 BY <1>11, <1>14, <2>3
  <2>4. CASE k = 4 BY <1>11, <1>14, <2>4
  <2> QED BY <2>1, <2>2, <2>3, <2>4
<1>16. DnChained(q, partner) BY <1>11, <1>12, <1>15 DEF DnChained
<1> QED BY <1>1, <1>9, <1>10, <1>16 DEF DnPrograms, M

\* One program after another is a program.
LEMMA DnProgramsConcat ==
    ASSUME NEW C, NEW p, NEW x \in DnPrograms(p, C), NEW y \in DnPrograms(p, C)
    PROVE  x \o y \in DnPrograms(p, C)
<1> DEFINE M == DnMay(p, C)
<1>1. PICK r : r = partner OBVIOUS
<1>2. x \in Seq(M) /\ y \in Seq(M) /\ DnChained(x, r) /\ DnChained(y, r) BY <1>1 DEF DnPrograms
<1> HIDE DEF M
<1>3. x \o y \in Seq(M) /\ DnChained(x \o y, r) BY <1>2, DnChainConcat
<1>4. PICK z : z = x \o y OBVIOUS
<1> QED BY <1>1, <1>3, <1>4 DEF DnPrograms, M

\* ArchiveExpired selects the invoices whose purge is due.
LEMMA DnArchiveExpired ==
    ASSUME NEW C, NEW D, DnState(C), D = C \cup {i \in Invoices : purgeDue(i)},
           ArchiveExpired
    PROVE  DnStep(D)
<1> DEFINE four(i) == <<Stmt("entitle", i, FALSE), Stmt("purge", i, 0),
                        Stmt("subscription", i, DnCancel), Stmt("purged", i, 0)>>
           b == [i \in Invoices |-> IF purgeDue(i) THEN four(i) ELSE <<>>]
<1>1. DnState(D) BY DnWidens
<1>2. Cron \in Processes BY DEF Processes
<1>0. At(Cron, "archive") BY DEF ArchiveExpired
<1>3. program[Cron] # <<>> /\ DnMovesOn(Cron) BY <1>0, DnAtMoves DEF At
<1>4. Continue(Cron, DnForEach(b))
  <2>1. SetToSeq(Invoices) \in [1..Cardinality(Invoices) -> Invoices] BY DnInvoiceSeq
  <2> QED BY <2>1 DEF ArchiveExpired, ForEachInvoice, DnForEach, DnCancel
<1> DEFINE T == DnPrograms(Cron, D)
<1>5. <<>> \in T
  <2>1. <<>> \in Seq(DnFits(Cron, D)) BY DnNothing
  <2> QED BY <2>1, DnFitsAreProgram DEF DnPrograms
<1>6. ASSUME NEW i \in Invoices PROVE b[i] \in T
  <2>1. CASE purgeDue(i)
    <3>1. i \in D /\ D \subseteq Invoices BY <1>1, <2>1 DEF DnState
    <3>2. four(i) \in T BY <3>1, DnClosing
    <3> QED BY <2>1, <3>2
  <2>2. CASE ~ purgeDue(i) BY <1>5, <2>2
  <2> QED BY <2>1, <2>2
<1>7. \A x, y \in T : x \o y \in T BY DnProgramsConcat
<1>8. UNCHANGED <<invoice, partner, charge, report, day, cycled, faults>> BY DEF ArchiveExpired
<1>9. PICK new : new = DnForEach(b) OBVIOUS
<1> HIDE DEF b, T
<1>10. new \in T BY <1>5, <1>6, <1>7, <1>9, DnForEachFits
<1>11. /\ partner' \in PartnerState /\ cycled' \in BOOLEAN /\ faults' \in 0..MaxFaults
       /\ DnLasts(partner, partner')
  BY <1>1, <1>8 DEF DnState, TypeOK, DnLasts
<1>12. DnAdvances(D) BY <1>1, <1>8, <1>11, DnReads
<1>13. DnTyped' BY <1>1, <1>8, <1>11, DnReads
<1>14. new \in DnPrograms(Cron, D)' BY <1>1, <1>10, <1>12, <1>13, DnProgramStays DEF T, DnState
<1>15. Continue(Cron, new) BY <1>4, <1>9
<1> QED BY <1>1, <1>2, <1>3, <1>8, <1>14, <1>15, DnNoChange DEF DnNew

\* Execute
LEMMA DnExecute ==
    ASSUME NEW C, NEW p \in Processes, DnState(C), Execute(p)
    PROVE  DnStep(C)
BY DnReturn, DnCollect, DnCollectUnread, DnRequestCharge, DnChargeRefused, DnPendCollection, DnMarkAttempt,
   DnMarkPastDue, DnUpdateSubscription, DnSuspend, DnSavePrevious, DnSetLifecycle,
   DnSetEntitlements, DnMarkSuspended, DnRecover, DnMarkRecovered, DnWriteWorkflow, DnFault
   DEF Execute

\* NextDay: nothing is running, and nothing is selected any more.
LEMMA DnNextDay ==
    ASSUME NEW C, DnState(C), NextDay
    PROVE  DnState({})'
<1>1. TypeOK /\ DnKept(C) BY DEF DnState
<1>2. /\ \A p \in Processes : program[p] = <<>>
      /\ day' = day + 1 /\ day < LastDay /\ cycled' = FALSE
      /\ UNCHANGED <<invoice, partner, charge, report, program, faults>>
  BY DEF NextDay, Idle
<1>3. day \in 0..LastDay /\ day' \in 0..LastDay BY <1>1, <1>2, DunningAssumption DEF TypeOK
<1>4. TypeOK' BY <1>1, <1>2, <1>3 DEF TypeOK
<1>5. ASSUME NEW i \in Invoices PROVE DnRow(i)'
  <2>1. DnRow(i) BY <1>1 DEF DnKept
  <2>2. invoice[i].due \in Int BY <1>1, DnAttempts DEF TypeOK
  <2>3. invoice[i].due <= day => invoice[i].due <= day' BY <1>2, <1>3, <2>2
  <2> QED BY <1>2, <2>1, <2>3 DEF DnRow
<1>6. ASSUME NEW p \in Processes PROVE program'[p] \in DnPrograms(p, {})'
  <2>1. program'[p] = <<>> BY <1>2
  <2>2. <<>> \in Seq(DnFits(p, {})') BY EmptySeq
  <2> QED BY <2>1, <2>2, DnFitsWillBeProgram
<1>7. DnKept({})' BY <1>5, <1>6 DEF DnKept
<1> QED BY <1>4, <1>7 DEF DnState

\* The invariant: the state is kept with the invoices the cycle selected today.
DnInv == \E C \in SUBSET Invoices : DnState(C)

\* Every step keeps the state, with the same selection, the widened or none.
LEMMA DnNextKeeps ==
    ASSUME NEW C, DnState(C), [Next]_vars
    PROVE  \/ DnStep(C)
           \/ /\ ArchiveExpired
              /\ \E D \in SUBSET Invoices :
                    D = C \cup {i \in Invoices : purgeDue(i)} /\ DnStep(D)
           \/ NextDay /\ DnState({})'
<1>1. CASE \E p \in Processes : Execute(p) BY <1>1, DnExecute
<1>2. CASE CronStep
  <2>1. Cron \in Processes BY DEF Processes
  <2>2. CASE ArchiveExpired
    <3>1. PICK D : D = C \cup {i \in Invoices : purgeDue(i)} OBVIOUS
    <3>2. DnStep(D) BY <2>2, <3>1, DnArchiveExpired
    <3>3. D \in SUBSET Invoices BY <3>1 DEF DnState
    <3> QED BY <2>2, <3>1, <3>2, <3>3
  <2> QED BY <1>2, <2>1, <2>2, DnStartCron, DnRetryPending, DnSyncPlan, DnRunDunning, DnPurgePartner,
             DnMarkPurged DEF CronStep
<1>3. ASSUME NEW p \in Workers, NEW i \in Invoices, NEW action \in Actions,
             Operate(p, i, action)
      PROVE  DnStep(C)
  <2>1. p \in Processes BY DEF Processes
  <2> QED BY <1>3, <2>1, DnOperate
<1>4. ASSUME NEW p \in Workers, NEW i \in Invoices, NEW n \in Keys, Settle(p, i, n)
      PROVE  DnStep(C)
  <2>1. p \in Processes BY DEF Processes
  <2> QED BY <1>4, <2>1, DnSettle
<1>5. CASE \E c \in Charges, outcome \in {"SUCCEEDED", "FAILED"} : Decide(c, outcome) BY <1>5, DnDecide
<1>6. CASE NextDay BY <1>6, DnNextDay
<1>7. CASE UNCHANGED vars
  <2>1. UNCHANGED <<invoice, partner, charge, report, day, cycled, faults>> /\ program' = program
    BY <1>7 DEF vars
  <2>2. /\ partner' \in PartnerState /\ cycled' \in BOOLEAN /\ faults' \in 0..MaxFaults
        /\ DnLasts(partner, partner')
    BY <2>1 DEF DnState, TypeOK, DnLasts
  <2>3. DnAdvances(C) /\ DnTyped' /\ DnRowsKept(C)' BY <2>1, <2>2, DnReads
  <2> QED BY <2>1, <2>3, DnIdles
<1> QED BY <1>1, <1>2, <1>3, <1>4, <1>5, <1>6, <1>7 DEF Next

\* It holds at first.
LEMMA DnInitKept == Init => DnState({})
<1> SUFFICES ASSUME Init PROVE DnState({}) OBVIOUS
<1>1. invoice \in [Invoices -> InvoiceRow]
  <2>1. PICK r : r = [workflow |-> "APPROVED", status |-> "DRAFT", provider |-> "NOT_CONFIGURED",
                      attempts |-> 0, dunning |-> "NONE", due |-> NoDay, previous |-> "",
                      paidAt |-> NoDay, ledger |-> {}]
    OBVIOUS
  <2>2. 0 \in 0..3 OBVIOUS
  <2>3. PICK k, d : k = 0 /\ d = NoDay OBVIOUS
  <2>4. k \in 0..3 /\ d \in {NoDay} \cup (0..(LastDay + CureDays)) /\ d \in {NoDay} \cup (0..LastDay)
    BY <2>2, <2>3
  <2>5. r = [workflow |-> "APPROVED", status |-> "DRAFT", provider |-> "NOT_CONFIGURED", attempts |-> k,
             dunning |-> "NONE", due |-> d, previous |-> "", paidAt |-> d, ledger |-> {}]
    BY <2>1, <2>3
  <2>6. r \in InvoiceRow BY <2>4, <2>5 DEF InvoiceRow
  <2>7. invoice = [i \in Invoices |-> r] BY <2>1 DEF Init
  <2> QED BY <2>6, <2>7
<1>2. TypeOK
  <2>1. partner \in PartnerState BY DEF Init, PartnerState
  <2>2. day \in 0..LastDay /\ faults \in 0..MaxFaults
    <3>1. day = 0 /\ faults = 0 BY DEF Init
    <3> QED BY <3>1, DunningAssumption
  <2>3. DOMAIN program = Processes /\ cycled \in BOOLEAN BY DEF Init
  <2> QED BY <1>1, <2>1, <2>2, <2>3 DEF Init, TypeOK
<1>3. ASSUME NEW i \in Invoices PROVE DnRow(i)
  <2>1. invoice[i].attempts = 0 /\ invoice[i].dunning = "NONE" BY DEF Init
  <2>2. <<i, 3>> \in Charges BY DEF Charges, Keys, Attempts
  <2>3. charge[<<i, 3>>] = "NONE" BY <2>2 DEF Init
  <2> QED BY <2>1, <2>3 DEF DnRow, Attempts
<1>4. ASSUME NEW p \in Processes PROVE program[p] \in DnPrograms(p, {})
  <2>1. program[p] = <<>> BY DEF Init
  <2>2. <<>> \in Seq(DnFits(p, {})) BY DnNothing
  <2> QED BY <2>1, <2>2, DnFitsAreProgram DEF DnPrograms
<1>5. DnKept({}) BY <1>3, <1>4 DEF DnKept
<1> QED BY <1>2, <1>5 DEF DnState

\* Every step keeps the invariant.
LEMMA DnInvKept ==
    ASSUME DnInv, [Next]_vars
    PROVE  DnInv'
<1>1. PICK C \in SUBSET Invoices : DnState(C) BY DEF DnInv
<1>2. DnState(C)' \/ (\E D \in SUBSET Invoices : DnState(D)') \/ DnState({})'
  BY <1>1, DnNextKeeps DEF DnStep
<1> QED BY <1>1, <1>2 DEF DnInv

\* Whatever the number of its invoices, and whatever the processes, the days and the
\* faults: no account is suspended or purged before a third attempt has been charged,
\* none is purged before the last day of its cure window, and a partner with a purged
\* invoice stays archived with its subscription cancelled, whatever becomes of its
\* other invoices.
THEOREM SuspensionsAreEarned == Spec => []DunningSafe
<1>1. Init => DnInv BY DnInitKept DEF DnInv
<1>2. DnInv /\ [Next]_vars => DnInv' BY DnInvKept
<1>3. DnInv => DunningSafe
  <2>1. SUFFICES ASSUME DnInv PROVE DunningSafe OBVIOUS
  <2>2. PICK C \in SUBSET Invoices : DnState(C) BY <2>1 DEF DnInv
  <2>3. TypeOK /\ \A i \in Invoices : DnRow(i) BY <2>2 DEF DnState, DnKept
  <2>4. SuspensionIsEarned BY <2>3 DEF DnRow, SuspensionIsEarned
  <2>5. PurgeAwaitsCure
    <3>1. ASSUME NEW i \in Invoices, invoice[i].dunning = "PURGED" PROVE day >= invoice[i].due
      <4>1. invoice[i].due <= day BY <2>3, <3>1 DEF DnRow
      <4>2. invoice[i].due \in Int /\ day \in Int BY <2>3, DnAttempts DEF TypeOK
      <4> QED BY <4>1, <4>2
    <3> QED BY <3>1 DEF PurgeAwaitsCure
  <2>6. PurgedIsFinal BY <2>3 DEF DnRow, DnDone, PurgedIsFinal
  <2> QED BY <2>3, <2>4, <2>5, <2>6 DEF DunningSafe
<1> QED BY <1>1, <1>2, <1>3, PTL DEF Spec
===============================================================================
