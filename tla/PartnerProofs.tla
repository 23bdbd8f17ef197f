---------------------------- MODULE PartnerProofs ----------------------------
(***************************************************************************)
(* Proofs about the lifecycle of a partner (PartnerLifecycle), for any     *)
(* number of overlapping requests and whatever lifecycles they ask for;    *)
(* about its restore points and restores (Backups), for any number of      *)
(* workers, points, restores and restarts; about the data it sends         *)
(* (Ingest), for any batches, records and overlapping requests; and about  *)
(* its files (MediaStore) and reports (Reports), which MCPlatform runs     *)
(* together, for any requests, makers, archives and deaths.                *)
(***************************************************************************)
EXTENDS MCPlatform, Ingest, FiniteSetTheorems, TLAPS

Patches == [op : {"patch"}, old : Lifecycles, new : Rows]
Purges == [op : {"purge"}, old : {"SUSPENDED", "ARCHIVED"}]

\* A request that has read an archived partner, and so writes no history row and asks
\* for no snapshot when it archives, finds the snapshot of the archival it has read.
HandlerIsSecured ==
    \A h \in Handlers : handler[h].op # "idle" /\ handler[h].old = "ARCHIVED" => archive # 0

LifecycleInv == LifecycleSafe /\ HandlerIsSecured
-----------------------------------------------------------------------------
\* The history grows at its end, by the row of a change.
LEMMA Historized ==
    ASSUME TypeOK, NEW from \in Lifecycles, NEW to \in Lifecycles, Historize(from, to)
    PROVE  /\ history' \in Seq([from : Lifecycles, to : Lifecycles])
           /\ Len(history) \in Nat /\ Len(history') \in {Len(history), Len(history) + 1}
           /\ \A n \in 1..Len(history) : history'[n] = history[n]
           /\ from # to => Len(history') = Len(history) + 1 /\ history'[Len(history')].to = to
<1> DEFINE change == [from |-> from, to |-> to]
<1>1. history \in Seq([from : Lifecycles, to : Lifecycles]) /\ change \in [from : Lifecycles, to : Lifecycles]
  BY DEF TypeOK
<1>2. history' = history \/ history' = Append(history, change)
  BY DEF Historize
<1>3. from # to => history' = Append(history, change)
  BY DEF Historize
<1>4. change.to = to
  OBVIOUS
<1>5. CASE history' = history /\ from = to
  BY <1>1, <1>5
<1>6. CASE history' = Append(history, change)
  <2> HIDE DEF change
  <2>1. /\ history' \in Seq([from : Lifecycles, to : Lifecycles])
        /\ Len(history) \in Nat /\ Len(history') = Len(history) + 1
        /\ \A n \in 1..Len(history) : history'[n] = history[n]
    BY <1>1, <1>6
  <2>2. history'[Len(history')] = change
    BY <1>1, <1>6
  <2> QED BY <2>1, <2>2, <1>4
<1> QED BY <1>2, <1>3, <1>5, <1>6

\* A new partner is not archived.
LEMMA LifecycleInitInv == Init => LifecycleInv
BY LifecycleAssumption DEF Init, LifecycleInv, LifecycleSafe, TypeOK, ArchivedIsSecured,
   SnapshotShowsArchival, HandlerIsSecured, Rows, Lifecycles, Idle

\* A request that begins remembers the lifecycle it has read.
LEMMA BeginInv ==
    ASSUME LifecycleInv, NEW h \in Handlers, NEW r \in Patches \cup Purges,
           r.old = row.lifecycle, Begin(h, r)
    PROVE  LifecycleInv'
<1> USE DEF LifecycleInv, LifecycleSafe
<1>1. UNCHANGED <<row, history, archive, users>>
  BY DEF Begin
<1>2. TypeOK'
  BY <1>1 DEF Begin, TypeOK, Patches, Purges
<1>3. ArchivedIsSecured' /\ SnapshotShowsArchival'
  BY <1>1 DEF ArchivedIsSecured, SnapshotShowsArchival
<1>4. HandlerIsSecured'
  <2> SUFFICES ASSUME NEW g \in Handlers, handler'[g].op # "idle", handler'[g].old = "ARCHIVED"
               PROVE  archive # 0
    BY <1>1 DEF HandlerIsSecured
  <2>1. CASE g = h
    BY <2>1 DEF Begin, TypeOK, ArchivedIsSecured
  <2>2. CASE g # h
    BY <2>2 DEF Begin, TypeOK, HandlerIsSecured
  <2> QED BY <2>1, <2>2
<1> QED BY <1>2, <1>3, <1>4

\* The snapshot, once taken, stays; what is written archived is secured, also by a
\* request whose own view changes nothing.
LEMMA WriteInv ==
    ASSUME LifecycleInv, NEW h \in Handlers, WritePatch(h) \/ WritePurge(h)
    PROVE  LifecycleInv'
<1> USE DEF LifecycleInv, LifecycleSafe
<1> DEFINE from == handler[h].old
           to == IF handler[h].op = "purge" THEN "ARCHIVED" ELSE handler[h].new.lifecycle
<1>1. /\ handler[h] \in Patches \/ handler[h] \in Purges
      /\ handler[h].op # "idle" /\ from \in Lifecycles /\ to \in Lifecycles
  BY DEF WritePatch, WritePurge, TypeOK, Patches, Purges, Rows, Lifecycles, Idle
<1>2. Historize(from, to) /\ Len(history) < MaxHistory
  BY DEF WritePatch, WritePurge
<1>3. /\ handler' = [handler EXCEPT ![h] = Idle]
      /\ from = "ARCHIVED" => archive # 0
  BY <1>1 DEF WritePatch, WritePurge, HandlerIsSecured
<1>4. /\ row' \in Rows /\ row'.lifecycle \in {row.lifecycle, to}
      /\ users' \in BOOLEAN /\ (users' = users \/ to = "ARCHIVED")
      /\ row'.lifecycle = "ARCHIVED" => row.lifecycle = "ARCHIVED" \/ to = "ARCHIVED"
  BY <1>1 DEF WritePatch, WritePurge, TypeOK, Patches, Purges, Rows, Lifecycles
<1>5. archive' = archive \/ (archive = 0 /\ to = "ARCHIVED" /\ archive' = Len(history'))
  BY <1>1 DEF WritePatch, WritePurge, archiveCompliance, Patches, Purges
<1>6. to = "ARCHIVED" /\ archive = 0 => from # to /\ archive' = Len(history')
  BY <1>1, <1>3 DEF WritePatch, WritePurge, archiveCompliance, Patches, Purges
<1>7. archive \in 0..Len(history)
  BY DEF TypeOK
<1> HIDE DEF from, to
<1>8. /\ history' \in Seq([from : Lifecycles, to : Lifecycles])
      /\ Len(history) \in Nat /\ Len(history') \in {Len(history), Len(history) + 1}
      /\ \A n \in 1..Len(history) : history'[n] = history[n]
      /\ from # to => Len(history') = Len(history) + 1 /\ history'[Len(history')].to = to
  BY <1>1, <1>2, Historized
<1>9. archive # 0 => archive' = archive
  BY <1>5
<1>10. to = "ARCHIVED" => archive' # 0
  BY <1>6, <1>7, <1>8, <1>9
<1>11. TypeOK'
  BY <1>2, <1>3, <1>4, <1>5, <1>7, <1>8, LifecycleAssumption DEF TypeOK
<1>12. ArchivedIsSecured'
  BY <1>4, <1>9, <1>10 DEF ArchivedIsSecured
<1>13. SnapshotShowsArchival'
  <2>1. CASE archive' = archive
    BY <2>1, <1>7, <1>8 DEF SnapshotShowsArchival
  <2>2. CASE archive = 0 /\ to = "ARCHIVED"
    BY <2>2, <1>6, <1>8 DEF SnapshotShowsArchival
  <2> QED BY <2>1, <2>2, <1>5
<1>14. HandlerIsSecured'
  BY <1>3, <1>9 DEF HandlerIsSecured, TypeOK, Idle
<1> QED BY <1>11, <1>12, <1>13, <1>14

\* Every step of every request preserves the invariant.
LEMMA LifecycleStepInv == LifecycleInv /\ [Next]_vars => LifecycleInv'
<1> SUFFICES ASSUME LifecycleInv, [Next]_vars PROVE LifecycleInv'
  OBVIOUS
<1>t. TypeOK
  BY DEF LifecycleInv, LifecycleSafe
<1>1. ASSUME NEW h \in Handlers, NEW to \in Targets \cup {row.lifecycle}, ReadForPatch(h, to)
      PROVE  LifecycleInv'
  <2> DEFINE r == [op |-> "patch", old |-> row.lifecycle, new |-> [row EXCEPT !.lifecycle = to]]
  <2>1. r \in Patches /\ r.old = row.lifecycle
    BY <1>t, LifecycleAssumption DEF TypeOK, Patches, Rows
  <2>2. Begin(h, r)
    BY <1>1 DEF ReadForPatch
  <2> QED
    <3> HIDE DEF r
    <3> QED BY <2>1, <2>2, BeginInv
<1>2. ASSUME NEW h \in Handlers, ReadForGolden(h) PROVE LifecycleInv'
  <2> DEFINE r == [op |-> "patch", old |-> row.lifecycle, new |-> [lifecycle |-> "LIVE", test |-> TRUE]]
  <2>1. r \in Patches /\ r.old = row.lifecycle
    BY <1>t DEF TypeOK, Patches, Rows, Lifecycles
  <2>2. Begin(h, r)
    BY <1>2 DEF ReadForGolden
  <2> QED
    <3> HIDE DEF r
    <3> QED BY <2>1, <2>2, BeginInv
<1>3. ASSUME NEW h \in Handlers, ReadForPurge(h) PROVE LifecycleInv'
  <2> DEFINE r == [op |-> "purge", old |-> row.lifecycle]
  <2>1. r \in Purges /\ r.old = row.lifecycle
    BY <1>3 DEF ReadForPurge, Purges
  <2>2. Begin(h, r)
    BY <1>3 DEF ReadForPurge
  <2> QED
    <3> HIDE DEF r
    <3> QED BY <2>1, <2>2, BeginInv
<1>4. ASSUME NEW h \in Handlers, WritePatch(h) \/ WritePurge(h) PROVE LifecycleInv'
  BY <1>4, WriteInv
<1>5. ASSUME NEW h \in Handlers, Stop(h) PROVE LifecycleInv'
  BY <1>5 DEF Stop, LifecycleInv, LifecycleSafe, TypeOK, ArchivedIsSecured,
     SnapshotShowsArchival, HandlerIsSecured, Idle
<1>6. CASE UNCHANGED vars
  BY <1>6 DEF vars, LifecycleInv, LifecycleSafe, TypeOK, ArchivedIsSecured,
     SnapshotShowsArchival, HandlerIsSecured
<1> QED BY <1>1, <1>2, <1>3, <1>4, <1>5, <1>6 DEF Next

\* An archived partner, or one whose identities are purged, has its compliance snapshot,
\* and the snapshot shows the archival, whatever stale rows edits and purges write back
\* (main.go:785-799, :880-885).
THEOREM ArchivalIsSecured == Spec => []LifecycleSafe
<1>1. LifecycleInv => LifecycleSafe
  BY DEF LifecycleInv
<1> QED BY <1>1, LifecycleInitInv, LifecycleStepInv, PTL DEF Spec
-----------------------------------------------------------------------------
(* Backups.                                                                 *)

\* What a database and the files can be, and the rows and workers.
BkDbs == {"old", "now", BkMissing}
BkContents == [db : BkDbs, files : {"old", "now", BkMissing, "mixed"}]
BkSettled == {"READY", "EXPIRED"}
BkRows ==
    [status : {"QUEUED", "RUNNING", "FAILED"} \cup BkSettled, object : BOOLEAN, has : BkContents,
     test : {"none", "QUEUED", "RUNNING"}, passed : BOOLEAN, safety : BOOLEAN]
BkJobs ==
    [n : Nat, status : {"none", "QUEUED", "RUNNING", "COMPLETED", "FAILED"}, point : Nat,
     rollback : {"none", "passed", "failed"}, before : BkContents, fresh : BOOLEAN, lost : BOOLEAN]
BkDumping == {"dump", "capture", "put"}
BkReplacing == {"suspend", "away", "in", "drop", "files", "finish", "failed"}
BkStates ==
    [at : {"idle", "check"}] \cup [at : {"test"}, p : Nat]
    \cup [at : BkDumping, p : Nat, for : {"backup", "job"}]
    \cup [at : BkReplacing, p : Nat, for : {"job", "rollback"}]

BkTyped ==
    /\ Cardinality(BkIds) \in Nat /\ BkIds = 1..Cardinality(BkIds)
    /\ bkPoints \in [BkIds -> BkRows] /\ bkJob \in BkJobs /\ bkData \in BkContents
    /\ \A k \in bkKept : k.db \in BkDbs
    /\ bkWorker \in [BkWorkers -> BkStates]

\* Only a READY point is off site, and a restore is of a point that will not change.
BkPointsStand ==
    /\ \A p \in BkIds : bkPoints[p].object = TRUE => bkPoints[p].status = "READY"
    /\ bkJob.point \in BkIds /\ bkPoints[bkJob.point].status \in BkSettled

\* The database of before the restore is off site, in a safety point.
BkSafe == \E p \in BkIds : /\ bkPoints[p].object = TRUE /\ bkPoints[p].safety = TRUE
                           /\ bkPoints[p].has.db = bkJob.before.db

\* Who works for the restore, and who of them has not replaced anything yet.
BkOnJob(w) ==
    bkWorker[w].at \in {"check"} \cup BkReplacing \/ (bkWorker[w].at \in BkDumping /\ bkWorker[w].for = "job")
BkUntouched(w) ==
    \/ bkWorker[w].at \in {"check", "suspend"}
    \/ bkWorker[w].at \in {"away"} \cup BkDumping /\ bkWorker[w].for = "job"

\* A point is made by one worker, and a restore is one worker's.
BkAlone ==
    /\ \A v, w \in BkWorkers : BkOnJob(v) /\ BkOnJob(w) => v = w
    /\ \A v, w \in BkWorkers :
          bkWorker[v].at \in BkDumping /\ bkWorker[w].at \in BkDumping /\ bkWorker[v].p = bkWorker[w].p => v = w

\* What a worker knows of the point it makes, tests or holds as the safety point.
BkPointOf(w) ==
    LET r == bkWorker[w] IN
    /\ r.at \in {"test"} \cup BkDumping \cup BkReplacing => r.p \in BkIds
    /\ r.at \in BkDumping => bkPoints[r.p].status = "RUNNING" /\ (r.for = "job" => bkPoints[r.p].safety = TRUE)
    /\ r.at = "capture" /\ r.for = "job" => bkPoints[r.p].has.db = bkData.db
    /\ r.at = "put" /\ r.for = "job" => bkPoints[r.p].has = bkData
    /\ r.at \in BkReplacing =>
          /\ bkPoints[r.p].status \in BkSettled
          /\ bkJob.fresh = TRUE => bkPoints[r.p].has = bkJob.before
          /\ bkJob.lost = FALSE => BkSafe

\* How far the worker of a restore has come with the data.
BkProgress(w) ==
    LET r == bkWorker[w] IN
    /\ BkOnJob(w) => bkJob.status = "RUNNING"
    /\ BkUntouched(w) /\ bkJob.fresh = TRUE => bkData = bkJob.before
    /\ r.at \in {"drop", "files"} => bkData.db = BkSource(w).db
    /\ r.at = "finish" => bkData = BkSource(w)

\* What the row of the restore says of the data.
BkJobIsTrue ==
    /\ bkJob.status = "QUEUED" /\ bkJob.fresh = TRUE => bkData = bkJob.before
    /\ bkJob.status = "COMPLETED" => bkData = bkPoints[bkJob.point].has
    /\ bkJob.status = "FAILED" /\ bkJob.fresh = TRUE /\ bkJob.rollback # "failed" => bkData = bkJob.before
    /\ bkJob.status \in {"RUNNING", "QUEUED", "FAILED"} /\ bkJob.lost = FALSE =>
          bkData.db = bkJob.before.db \/ BkSafe

BkInv ==
    /\ BkTyped /\ BkPointsStand /\ BkAlone /\ BkJobIsTrue
    /\ \A w \in BkWorkers : BkPointOf(w) /\ BkProgress(w)

\* What the invariant says of one row and of one worker.
LEMMA BkRowOf ==
    ASSUME BkTyped, NEW p \in BkIds
    PROVE  /\ bkPoints[p] \in BkRows /\ p \in Nat
           /\ bkPoints[p].object \in BOOLEAN /\ bkPoints[p].safety \in BOOLEAN /\ bkPoints[p].passed \in BOOLEAN
           /\ bkPoints[p].has \in BkContents /\ bkPoints[p].has.db \in BkDbs
BY DEF BkTyped, BkRows, BkContents

\* A row that is written leaves the others, and there are as many.
LEMMA BkWriteRow ==
    ASSUME BkTyped, NEW p \in BkIds, NEW x \in BkRows, bkPoints' = [bkPoints EXCEPT ![p] = x]
    PROVE  /\ BkIds' = BkIds /\ Cardinality(BkIds') = Cardinality(BkIds)
           /\ bkPoints' \in [BkIds' -> BkRows]
           /\ bkPoints'[p] = x /\ \A q \in BkIds \ {p} : bkPoints'[q] = bkPoints[q]
<1>1. DOMAIN bkPoints' = DOMAIN bkPoints
  OBVIOUS
<1>2. BkIds' = BkIds
  BY <1>1 DEF BkIds
<1> QED BY <1>2 DEF BkTyped, BkIds

\* A new row comes after the others.
LEMMA BkAddRow ==
    ASSUME BkTyped, NEW status \in {"QUEUED", "RUNNING"}, NEW safety \in BOOLEAN, bkPoints' = BkNew(status, safety),
           NEW n, n = Cardinality(BkIds) + 1
    PROVE  /\ n \notin BkIds /\ BkIds' = BkIds \cup {n} /\ BkIds' = 1..Cardinality(BkIds')
           /\ Cardinality(BkIds') \in Nat /\ bkPoints' \in [BkIds' -> BkRows]
           /\ bkPoints'[n].status = status /\ bkPoints'[n].object = FALSE /\ bkPoints'[n].safety = safety
           /\ \A q \in BkIds : bkPoints'[q] = bkPoints[q]
<1> DEFINE added == [status |-> status, object |-> FALSE, has |-> BkBoth(BkMissing),
                     test |-> "none", passed |-> FALSE, safety |-> safety]
<1>1. Cardinality(BkIds) \in Nat /\ BkIds = 1..Cardinality(BkIds) /\ n \in Nat \ {0}
  BY DEF BkTyped
<1>2. bkPoints' = [p \in 1..n |-> IF p \in BkIds THEN bkPoints[p] ELSE added]
  BY DEF BkNew
<1>3. BkIds' = 1..n
  BY <1>2 DEF BkIds
<1>4. Cardinality(1..n) = n
  BY <1>1, FS_Interval
<1>5. added \in BkRows
  BY DEF BkRows, BkContents, BkBoth, BkDbs, BkMissing
<1>6. n \notin BkIds /\ 1..n = BkIds \cup {n}
  BY <1>1
<1>7. bkPoints' \in [BkIds' -> BkRows]
  BY <1>2, <1>3, <1>5 DEF BkTyped
<1>8. bkPoints'[n] = added
  BY <1>1, <1>2, <1>6
<1>9. \A q \in BkIds : bkPoints'[q] = bkPoints[q]
  BY <1>2, <1>6
<1> QED BY <1>1, <1>3, <1>4, <1>6, <1>7, <1>8, <1>9

\* The worker v is not disturbed: its point, the settled points, the data and the restore it
\* works for are as they were, and a safety point has gone only if that is said.
BkLeaves(v) ==
    /\ BkIds \subseteq BkIds' /\ bkWorker'[v] = bkWorker[v]
    /\ \A q \in BkIds : bkPoints[q].status \in BkSettled =>
          bkPoints'[q].status \in BkSettled /\ bkPoints'[q].has = bkPoints[q].has
    /\ bkWorker[v].at \in BkDumping => LET p == bkWorker[v].p IN
          /\ bkPoints'[p].status = bkPoints[p].status /\ bkPoints'[p].safety = bkPoints[p].safety
          /\ bkPoints'[p].has = bkPoints[p].has
    /\ BkOnJob(v) =>
          /\ bkData' = bkData /\ bkJob'.status = bkJob.status /\ bkJob'.fresh = bkJob.fresh
          /\ bkJob'.before = bkJob.before /\ bkJob'.point = bkJob.point
          /\ bkJob'.lost = FALSE => bkJob.lost = FALSE
          /\ bkJob'.lost = FALSE /\ BkSafe => BkSafe'

\* What a worker knows of its point and of the data stays true when others leave it alone.
LEMMA BkUndisturbed ==
    ASSUME BkInv, NEW v \in BkWorkers, BkLeaves(v)
    PROVE  BkPointOf(v)' /\ BkProgress(v)'
<1> DEFINE r == bkWorker[v]
<1>1. BkTyped /\ r \in BkStates /\ BkPointOf(v) /\ BkProgress(v) /\ BkPointsStand
  BY DEF BkInv, BkTyped
<1>2. BkOnJob(v)' = BkOnJob(v) /\ BkUntouched(v)' = BkUntouched(v) /\ bkWorker'[v] = r
  BY DEF BkLeaves, BkOnJob, BkUntouched
<1>3. /\ r.at \in BkReplacing => BkOnJob(v)
      /\ r.at \in BkDumping /\ r.for = "job" => BkOnJob(v)
      /\ BkUntouched(v) => BkOnJob(v)
  BY DEF BkOnJob, BkUntouched, BkReplacing
<1>4. BkPointOf(v)'
  BY <1>1, <1>2, <1>3 DEF BkLeaves, BkPointOf, BkDumping, BkReplacing
<1>5. r.at \in BkReplacing => BkSource(v)' = BkSource(v)
  BY <1>1, <1>2, <1>3 DEF BkLeaves, BkPointOf, BkPointsStand, BkSource, BkRolling
<1>6. BkProgress(v)'
  BY <1>1, <1>2, <1>3, <1>5 DEF BkLeaves, BkProgress, BkReplacing
<1> QED BY <1>4, <1>6

\* One worker goes on as s, and leaves the others.
LEMMA BkStepping ==
    ASSUME BkInv, BkTyped', BkPointsStand', BkJobIsTrue', NEW w \in BkWorkers, NEW s \in BkStates,
           bkWorker' = [bkWorker EXCEPT ![w] = s], \A v \in BkWorkers \ {w} : BkLeaves(v),
           BkPointOf(w)', BkProgress(w)',
           BkOnJob(w)' => BkOnJob(w) \/ \A v \in BkWorkers \ {w} : ~BkOnJob(v),
           s.at \in BkDumping =>
              \/ bkWorker[w].at \in BkDumping /\ bkWorker[w].p = s.p
              \/ \A v \in BkWorkers \ {w} : bkWorker[v].at \in BkDumping => bkWorker[v].p # s.p
    PROVE  BkInv'
<1>1. /\ bkWorker'[w] = s /\ \A v \in BkWorkers \ {w} : bkWorker'[v] = bkWorker[v]
  BY DEF BkInv, BkTyped
<1>2. \A v \in BkWorkers \ {w} : BkOnJob(v)' = BkOnJob(v)
  BY <1>1 DEF BkOnJob
<1>3. BkAlone
  BY DEF BkInv
<1>4. ASSUME NEW u \in BkWorkers, NEW v \in BkWorkers, BkOnJob(u)', BkOnJob(v)' PROVE u = v
  BY <1>2, <1>3, <1>4 DEF BkAlone
<1>5. ASSUME NEW u \in BkWorkers, NEW v \in BkWorkers, bkWorker'[u].at \in BkDumping,
             bkWorker'[v].at \in BkDumping, bkWorker'[u].p = bkWorker'[v].p
      PROVE  u = v
  BY <1>1, <1>3, <1>5 DEF BkAlone
<1>6. BkAlone'
  BY <1>4, <1>5 DEF BkAlone
<1>7. \A v \in BkWorkers : BkPointOf(v)' /\ BkProgress(v)'
  BY BkUndisturbed
<1> QED BY <1>6, <1>7 DEF BkInv

\* Nobody goes on: a request or the scheduler changes rows that no worker rests on.
LEMMA BkIdling ==
    ASSUME BkInv, BkTyped', BkPointsStand', BkJobIsTrue', bkWorker' = bkWorker,
           \A v \in BkWorkers : BkLeaves(v)
    PROVE  BkInv'
<1>1. BkAlone'
  BY DEF BkInv, BkAlone, BkOnJob
<1> QED BY <1>1, BkUndisturbed DEF BkInv

\* A write to one row that keeps what a settled point holds, and an off-site safety point.
BkRowStep(p, x) ==
    /\ bkPoints' = [bkPoints EXCEPT ![p] = x]
    /\ bkPoints[p].status \in BkSettled => x.status \in BkSettled /\ x.has = bkPoints[p].has
    /\ x.object = TRUE => x.status = "READY"
    /\ x.safety = bkPoints[p].safety
    /\ bkPoints[p].object = TRUE /\ bkPoints[p].safety = TRUE /\ bkJob'.lost = FALSE =>
          x.object = TRUE /\ x.has = bkPoints[p].has

\* Such a write keeps the database of before off site, and the points what they have to be.
LEMMA BkRowKeeps ==
    ASSUME BkInv, NEW p \in BkIds, NEW x \in BkRows, BkRowStep(p, x)
    PROVE  /\ bkJob'.before = bkJob.before /\ bkJob'.lost = FALSE /\ BkSafe => BkSafe'
           /\ bkJob'.point = bkJob.point => BkPointsStand'
           /\ bkPoints'[bkJob.point].has = bkPoints[bkJob.point].has
<1>1. BkTyped /\ BkPointsStand
  BY DEF BkInv
<1>2. /\ BkIds' = BkIds /\ bkPoints'[p] = x /\ \A q \in BkIds \ {p} : bkPoints'[q] = bkPoints[q]
  BY <1>1, BkWriteRow DEF BkRowStep
<1>3. ASSUME bkJob'.before = bkJob.before, bkJob'.lost = FALSE, BkSafe PROVE BkSafe'
  <2>1. PICK q \in BkIds : /\ bkPoints[q].object = TRUE /\ bkPoints[q].safety = TRUE
                           /\ bkPoints[q].has.db = bkJob.before.db
    BY <1>3 DEF BkSafe
  <2>2. /\ bkPoints'[q].object = TRUE /\ bkPoints'[q].safety = TRUE /\ bkPoints'[q].has = bkPoints[q].has
    BY <1>2, <1>3, <2>1 DEF BkRowStep
  <2> QED BY <1>2, <1>3, <2>1, <2>2 DEF BkSafe
<1>4. /\ \A q \in BkIds : bkPoints'[q].object = TRUE => bkPoints'[q].status = "READY"
      /\ \A q \in BkIds : bkPoints[q].status \in BkSettled =>
            bkPoints'[q].status \in BkSettled /\ bkPoints'[q].has = bkPoints[q].has
  BY <1>1, <1>2 DEF BkRowStep, BkPointsStand
<1> QED BY <1>1, <1>2, <1>3, <1>4 DEF BkPointsStand

\* A worker that does not make that point is left alone by such a write.
LEMMA BkRowLeaves ==
    ASSUME BkInv, NEW p \in BkIds, NEW x \in BkRows, BkRowStep(p, x),
           NEW v \in BkWorkers, bkWorker'[v] = bkWorker[v],
           bkWorker[v].at \in BkDumping /\ bkWorker[v].p = p =>
              x.status = bkPoints[p].status /\ x.has = bkPoints[p].has,
           BkOnJob(v) => /\ bkData' = bkData /\ bkJob'.status = bkJob.status /\ bkJob'.fresh = bkJob.fresh
                         /\ bkJob'.before = bkJob.before /\ bkJob'.point = bkJob.point
                         /\ bkJob'.lost = FALSE => bkJob.lost = FALSE
    PROVE  BkLeaves(v)
<1>1. BkTyped /\ BkPointOf(v)
  BY DEF BkInv
<1>2. /\ BkIds' = BkIds /\ bkPoints'[p] = x /\ \A q \in BkIds \ {p} : bkPoints'[q] = bkPoints[q]
  BY <1>1, BkWriteRow DEF BkRowStep
<1>3. \A q \in BkIds : bkPoints[q].status \in BkSettled =>
         bkPoints'[q].status \in BkSettled /\ bkPoints'[q].has = bkPoints[q].has
  BY <1>2 DEF BkRowStep
<1>4. bkWorker[v].at \in BkDumping => bkWorker[v].p \in BkIds
  BY <1>1 DEF BkPointOf
<1>5. bkWorker[v].at \in BkDumping => LET q == bkWorker[v].p IN
         /\ bkPoints'[q].status = bkPoints[q].status /\ bkPoints'[q].safety = bkPoints[q].safety
         /\ bkPoints'[q].has = bkPoints[q].has
  BY <1>2, <1>4 DEF BkRowStep
<1>6. BkOnJob(v) => (bkJob'.lost = FALSE /\ BkSafe => BkSafe')
  BY BkRowKeeps
<1> QED BY <1>2, <1>3, <1>5, <1>6 DEF BkLeaves

\* The row of the restore stays true of data that stay, with such a write or none.
LEMMA BkJobStays ==
    ASSUME BkInv, bkData' = bkData, bkJob' = bkJob,
           \/ bkPoints' = bkPoints
           \/ \E p \in BkIds, x \in BkRows : BkRowStep(p, x)
    PROVE  BkJobIsTrue' /\ BkPointsStand'
<1>1. BkJobIsTrue /\ BkPointsStand
  BY DEF BkInv
<1>2. CASE bkPoints' = bkPoints
  BY <1>1, <1>2 DEF BkJobIsTrue, BkPointsStand, BkSafe, BkIds
<1>3. CASE \E p \in BkIds, x \in BkRows : BkRowStep(p, x)
  <2>1. PICK p \in BkIds, x \in BkRows : BkRowStep(p, x)
    BY <1>3
  <2>2. (bkJob'.lost = FALSE /\ BkSafe => BkSafe') /\ BkPointsStand'
           /\ bkPoints'[bkJob.point].has = bkPoints[bkJob.point].has
    BY <2>1, BkRowKeeps
  <2> QED BY <1>1, <2>2 DEF BkJobIsTrue
<1> QED BY <1>2, <1>3

\* A row is written, the data and the restore stay, and the types with them.
LEMMA BkTypedRow ==
    ASSUME BkTyped, NEW p \in BkIds, NEW x \in BkRows, bkPoints' = [bkPoints EXCEPT ![p] = x],
           bkData' \in BkContents, bkJob' \in BkJobs, bkKept' = bkKept, bkWorker' \in [BkWorkers -> BkStates]
    PROVE  BkTyped'
BY BkWriteRow DEF BkTyped

\* What a worker is, from where it stands.
LEMMA BkStateOf ==
    ASSUME BkTyped, NEW w \in BkWorkers
    PROVE  /\ bkWorker[w] \in BkStates
           /\ bkWorker[w].at = "test" => bkWorker[w] \in [at : {"test"}, p : Nat]
           /\ bkWorker[w].at \in BkDumping => bkWorker[w] \in [at : BkDumping, p : Nat, for : {"backup", "job"}]
           /\ bkWorker[w].at \in BkReplacing =>
                 bkWorker[w] \in [at : BkReplacing, p : Nat, for : {"job", "rollback"}]
<1>1. bkWorker[w] \in BkStates
  BY DEF BkTyped
<1> QED BY <1>1 DEF BkStates, BkDumping, BkReplacing

\* A test is begun.
LEMMA BkTestClaimInv ==
    ASSUME BkInv, NEW w \in BkWorkers, NEW p \in BkIds, BkTestClaim(w, p)
    PROVE  BkInv'
<1> DEFINE x == [bkPoints[p] EXCEPT !.test = "RUNNING"]
<1> DEFINE s == [at |-> "test", p |-> p]
<1>1. BkTyped /\ BkPointsStand
  BY DEF BkInv
<1>2. bkPoints[p] \in BkRows /\ p \in Nat
  BY <1>1, BkRowOf
<1>3. x \in BkRows /\ x.object = bkPoints[p].object /\ x.status = bkPoints[p].status
         /\ x.safety = bkPoints[p].safety /\ x.has = bkPoints[p].has
  BY <1>2 DEF BkRows
<1>4. s \in BkStates /\ s.at = "test" /\ s.p = p
  BY <1>2 DEF BkStates
<1>5. bkPoints' = [bkPoints EXCEPT ![p] = x] /\ bkWorker' = [bkWorker EXCEPT ![w] = s]
      /\ bkData' = bkData /\ bkJob' = bkJob /\ bkKept' = bkKept /\ bkWorker[w].at = "idle"
  BY DEF BkTestClaim, BkAt, BkGo
<1>a. bkWorker'[w] = s /\ \A v \in BkWorkers \ {w} : bkWorker'[v] = bkWorker[v]
  BY <1>1, <1>5 DEF BkTyped
<1> HIDE DEF x, s
<1>6. BkRowStep(p, x)
  BY <1>1, <1>3, <1>5 DEF BkRowStep, BkPointsStand
<1>7. bkWorker' \in [BkWorkers -> BkStates]
  BY <1>1, <1>4, <1>5 DEF BkTyped
<1>8. BkTyped'
  BY <1>1, <1>3, <1>5, <1>7, BkTypedRow DEF BkTyped
<1>9. BkJobIsTrue' /\ BkPointsStand'
  BY <1>3, <1>5, <1>6, BkJobStays
<1>10. \A v \in BkWorkers \ {w} : BkLeaves(v)
  BY <1>3, <1>5, <1>6, <1>a, BkRowLeaves
<1>11. BkIds' = BkIds
  BY <1>1, <1>3, <1>5, BkWriteRow
<1>12. BkPointOf(w)' /\ BkProgress(w)' /\ ~BkOnJob(w)' /\ s.at \notin BkDumping
  BY <1>4, <1>a, <1>11 DEF BkPointOf, BkProgress, BkOnJob, BkUntouched, BkDumping, BkReplacing
<1> QED BY <1>4, <1>5, <1>8, <1>9, <1>10, <1>12, BkStepping

\* A test ends; what it found is of the point it tested.
LEMMA BkTestEndsInv ==
    ASSUME BkInv, NEW w \in BkWorkers, BkTestEnds(w)
    PROVE  BkInv'
<1> DEFINE p == bkWorker[w].p
<1>1. BkTyped /\ BkPointsStand /\ BkPointOf(w)
  BY DEF BkInv
<1>2. p \in BkIds /\ bkPoints[p] \in BkRows
  BY <1>1, BkRowOf DEF BkPointOf, BkTestEnds, BkAt
<1>3. PICK ok \in {FALSE, bkPoints[p].status = "READY" /\ bkPoints[p].object} :
         bkPoints' = [bkPoints EXCEPT ![p].test = "none", ![p].passed = @ \/ ok]
  BY DEF BkTestEnds
<1> DEFINE x == [bkPoints[p] EXCEPT !.test = "none", !.passed = @ \/ ok]
<1>4. x \in BkRows /\ x.object = bkPoints[p].object /\ x.status = bkPoints[p].status
         /\ x.safety = bkPoints[p].safety /\ x.has = bkPoints[p].has
  BY <1>2 DEF BkRows
<1>5. bkPoints' = [bkPoints EXCEPT ![p] = x]
  BY <1>1, <1>2, <1>3 DEF BkTyped
<1>6. bkWorker' = [bkWorker EXCEPT ![w] = BkIdle] /\ bkData' = bkData /\ bkJob' = bkJob /\ bkKept' = bkKept
  BY DEF BkTestEnds, BkGo
<1>7. bkWorker'[w] = BkIdle /\ \A v \in BkWorkers \ {w} : bkWorker'[v] = bkWorker[v]
  BY <1>1, <1>6 DEF BkTyped
<1>8. BkIdle \in BkStates /\ BkIdle.at = "idle"
  BY DEF BkIdle, BkStates
<1> HIDE DEF x, p
<1>9. BkRowStep(p, x)
  BY <1>1, <1>2, <1>4, <1>5 DEF BkRowStep, BkPointsStand
<1>10. bkWorker' \in [BkWorkers -> BkStates]
  BY <1>1, <1>6, <1>8 DEF BkTyped
<1>11. BkTyped'
  BY <1>1, <1>2, <1>4, <1>5, <1>6, <1>10, BkTypedRow DEF BkTyped
<1>12. BkJobIsTrue' /\ BkPointsStand'
  BY <1>2, <1>4, <1>6, <1>9, BkJobStays
<1>13. \A v \in BkWorkers \ {w} : BkLeaves(v)
  BY <1>2, <1>4, <1>6, <1>7, <1>9, BkRowLeaves
<1>14. BkPointOf(w)' /\ BkProgress(w)' /\ ~BkOnJob(w)' /\ BkIdle.at \notin BkDumping
  BY <1>7, <1>8 DEF BkPointOf, BkProgress, BkOnJob, BkUntouched, BkDumping, BkReplacing
<1> QED BY <1>6, <1>8, <1>11, <1>12, <1>13, <1>14, BkStepping

\* A test is queued again, or a row beyond what is kept expires.
LEMMA BkRowInv ==
    ASSUME BkInv, NEW p \in BkIds, BkTestAgain(p) \/ BkPruneRow(p)
    PROVE  BkInv'
<1> DEFINE x == IF BkTestAgain(p) THEN [bkPoints[p] EXCEPT !.test = "QUEUED"]
                ELSE [bkPoints[p] EXCEPT !.status = "EXPIRED"]
<1>1. BkTyped /\ BkPointsStand /\ \A w \in BkWorkers : BkPointOf(w)
  BY DEF BkInv
<1>2. bkPoints[p] \in BkRows /\ bkPoints[p].status = "READY"
  BY <1>1, BkRowOf DEF BkTestAgain, BkPruneRow, BkBeyond
<1>3. x \in BkRows /\ x.object = bkPoints[p].object /\ x.safety = bkPoints[p].safety
         /\ x.has = bkPoints[p].has /\ x.status \in BkSettled
         /\ (x.object = TRUE => x.status = "READY")
  BY <1>2 DEF BkRows, BkSettled, BkPruneRow
<1>4. bkPoints' = [bkPoints EXCEPT ![p] = x] /\ bkWorker' = bkWorker
      /\ bkData' = bkData /\ bkJob' = bkJob /\ bkKept' = bkKept
  BY DEF BkTestAgain, BkPruneRow
<1> HIDE DEF x
<1>5. BkRowStep(p, x)
  BY <1>3, <1>4 DEF BkRowStep
<1>6. BkTyped'
  BY <1>1, <1>3, <1>4, BkTypedRow DEF BkTyped
<1>7. BkJobIsTrue' /\ BkPointsStand'
  BY <1>3, <1>4, <1>5, BkJobStays
<1>8. \A v \in BkWorkers : bkWorker[v].at \in BkDumping => bkWorker[v].p # p
  BY <1>1, <1>2 DEF BkPointOf
<1>9. \A v \in BkWorkers : BkLeaves(v)
  BY <1>3, <1>4, <1>5, <1>8, BkRowLeaves
<1> QED BY <1>4, <1>6, <1>7, <1>9, BkIdling

\* The object of a point beyond what is kept is deleted; of a safety point that is remembered.
LEMMA BkPruneObjectInv ==
    ASSUME BkInv, NEW p \in BkIds, BkPruneObject(p)
    PROVE  BkInv'
<1> DEFINE x == [bkPoints[p] EXCEPT !.object = FALSE]
<1>1. BkTyped /\ BkPointsStand /\ BkJobIsTrue /\ \A w \in BkWorkers : BkPointOf(w)
  BY DEF BkInv
<1>2. bkPoints[p] \in BkRows /\ bkPoints[p].status = "READY" /\ bkPoints[p].safety \in BOOLEAN
  BY <1>1, BkRowOf DEF BkPruneObject, BkBeyond
<1>3. x \in BkRows /\ x.object = FALSE /\ x.safety = bkPoints[p].safety
         /\ x.has = bkPoints[p].has /\ x.status \in BkSettled
  BY <1>2 DEF BkRows, BkSettled
<1>4. bkPoints' = [bkPoints EXCEPT ![p] = x] /\ bkWorker' = bkWorker
      /\ bkData' = bkData /\ bkKept' = bkKept
      /\ bkJob' = [bkJob EXCEPT !.lost = @ \/ bkPoints[p].safety]
  BY DEF BkPruneObject
<1>5. /\ bkJob' \in BkJobs /\ bkJob'.status = bkJob.status /\ bkJob'.fresh = bkJob.fresh
      /\ bkJob'.before = bkJob.before /\ bkJob'.point = bkJob.point /\ bkJob'.rollback = bkJob.rollback
      /\ bkJob'.lost = FALSE => bkJob.lost = FALSE /\ bkPoints[p].safety = FALSE
  BY <1>1, <1>2, <1>4 DEF BkTyped, BkJobs
<1> HIDE DEF x
<1>6. BkRowStep(p, x)
  BY <1>3, <1>4, <1>5 DEF BkRowStep
<1>7. BkTyped'
  BY <1>1, <1>3, <1>4, <1>5, BkTypedRow DEF BkTyped
<1>8. (bkJob'.lost = FALSE /\ BkSafe => BkSafe') /\ BkPointsStand'
      /\ bkPoints'[bkJob.point].has = bkPoints[bkJob.point].has
  BY <1>3, <1>5, <1>6, BkRowKeeps
<1>9. BkJobIsTrue'
  BY <1>1, <1>4, <1>5, <1>8 DEF BkJobIsTrue
<1>10. \A v \in BkWorkers : bkWorker[v].at \in BkDumping => bkWorker[v].p # p
  BY <1>1, <1>2 DEF BkPointOf
<1>11. \A v \in BkWorkers : BkLeaves(v)
  BY <1>3, <1>4, <1>5, <1>6, <1>10, BkRowLeaves
<1> QED BY <1>4, <1>7, <1>8, <1>9, <1>11, BkIdling

\* A queued point is claimed by a worker.
LEMMA BkClaimInv ==
    ASSUME BkInv, NEW w \in BkWorkers, NEW p \in BkIds, BkClaim(w, p)
    PROVE  BkInv'
<1> DEFINE x == [bkPoints[p] EXCEPT !.status = "RUNNING"]
<1> DEFINE s == [at |-> "dump", p |-> p, for |-> "backup"]
<1>1. BkTyped /\ BkPointsStand /\ \A v \in BkWorkers : BkPointOf(v)
  BY DEF BkInv
<1>2. bkPoints[p] \in BkRows /\ p \in Nat /\ bkPoints[p].status = "QUEUED"
  BY <1>1, BkRowOf DEF BkClaim
<1>3. x \in BkRows /\ x.object = bkPoints[p].object /\ x.status = "RUNNING"
         /\ x.safety = bkPoints[p].safety /\ x.has = bkPoints[p].has
  BY <1>2 DEF BkRows
<1>4. s \in BkStates /\ s.at = "dump" /\ s.p = p /\ s.for = "backup"
  BY <1>2 DEF BkStates, BkDumping
<1>5. bkPoints' = [bkPoints EXCEPT ![p] = x] /\ bkWorker' = [bkWorker EXCEPT ![w] = s]
      /\ bkData' = bkData /\ bkJob' = bkJob /\ bkKept' = bkKept /\ bkWorker[w].at = "idle"
  BY DEF BkClaim, BkAt, BkGo
<1>a. bkWorker'[w] = s /\ \A v \in BkWorkers \ {w} : bkWorker'[v] = bkWorker[v]
  BY <1>1, <1>5 DEF BkTyped
<1> HIDE DEF x, s
<1>6. BkRowStep(p, x)
  BY <1>1, <1>2, <1>3, <1>5 DEF BkRowStep, BkPointsStand, BkSettled
<1>7. bkWorker' \in [BkWorkers -> BkStates]
  BY <1>1, <1>4, <1>5 DEF BkTyped
<1>8. BkTyped'
  BY <1>1, <1>3, <1>5, <1>7, BkTypedRow DEF BkTyped
<1>9. BkJobIsTrue' /\ BkPointsStand'
  BY <1>3, <1>5, <1>6, BkJobStays
<1>10. \A v \in BkWorkers : bkWorker[v].at \in BkDumping => bkWorker[v].p # p
  BY <1>1, <1>2 DEF BkPointOf
<1>11. \A v \in BkWorkers \ {w} : BkLeaves(v)
  BY <1>3, <1>5, <1>6, <1>a, <1>10, BkRowLeaves
<1>12. BkIds' = BkIds /\ bkPoints'[p] = x
  BY <1>1, <1>3, <1>5, BkWriteRow
<1>13. BkPointOf(w)' /\ BkProgress(w)' /\ ~BkOnJob(w)'
  BY <1>3, <1>4, <1>a, <1>12 DEF BkPointOf, BkProgress, BkOnJob, BkUntouched, BkDumping, BkReplacing
<1> QED BY <1>4, <1>5, <1>8, <1>9, <1>10, <1>11, <1>13, BkStepping

\* Who makes a point: its point is RUNNING and not off site, and of a restore it is a safety
\* point; nobody else makes it.
LEMMA BkMaker ==
    ASSUME BkInv, NEW w \in BkWorkers, bkWorker[w].at \in BkDumping
    PROVE  /\ bkWorker[w].p \in BkIds /\ bkWorker[w].p \in Nat /\ bkWorker[w].for \in {"backup", "job"}
           /\ bkPoints[bkWorker[w].p] \in BkRows
           /\ bkPoints[bkWorker[w].p].status = "RUNNING" /\ bkPoints[bkWorker[w].p].object = FALSE
           /\ bkWorker[w].for = "job" => /\ bkPoints[bkWorker[w].p].safety = TRUE
                                         /\ BkOnJob(w) /\ BkUntouched(w) /\ bkJob.status = "RUNNING"
           /\ \A v \in BkWorkers \ {w} : bkWorker[v].at \in BkDumping => bkWorker[v].p # bkWorker[w].p
           /\ BkOnJob(w) => \A v \in BkWorkers \ {w} : ~BkOnJob(v)
<1>1. BkTyped /\ BkPointsStand /\ BkPointOf(w) /\ BkProgress(w) /\ BkAlone
  BY DEF BkInv
<1>2. bkWorker[w].p \in BkIds /\ bkPoints[bkWorker[w].p].status = "RUNNING"
      /\ (bkWorker[w].for = "job" => bkPoints[bkWorker[w].p].safety = TRUE)
  BY <1>1 DEF BkPointOf
<1>3. bkPoints[bkWorker[w].p] \in BkRows /\ bkPoints[bkWorker[w].p].object \in BOOLEAN /\ bkWorker[w].p \in Nat
  BY <1>1, <1>2, BkRowOf
<1>4. bkPoints[bkWorker[w].p].object = FALSE
  BY <1>1, <1>2, <1>3 DEF BkPointsStand
<1>5. bkWorker[w].for \in {"backup", "job"}
  BY <1>1, BkStateOf
<1>6. bkWorker[w].for = "job" => BkOnJob(w) /\ BkUntouched(w) /\ bkJob.status = "RUNNING"
  BY <1>1 DEF BkOnJob, BkUntouched, BkProgress
<1>7. \A v \in BkWorkers \ {w} : bkWorker[v].at \in BkDumping => bkWorker[v].p # bkWorker[w].p
  BY <1>1 DEF BkAlone
<1>8. BkOnJob(w) => \A v \in BkWorkers \ {w} : ~BkOnJob(v)
  BY <1>1 DEF BkAlone
<1> QED BY <1>2, <1>3, <1>4, <1>5, <1>6, <1>7, <1>8

\* The point takes in the database, or the files.
LEMMA BkTakeInv ==
    ASSUME BkInv, NEW w \in BkWorkers, BkDump(w) \/ BkCapture(w)
    PROVE  BkInv'
<1> DEFINE p == bkWorker[w].p
<1> DEFINE h == IF BkDump(w) THEN [bkPoints[p].has EXCEPT !.db = bkData.db]
                ELSE [bkPoints[p].has EXCEPT !.files = bkData.files]
<1> DEFINE x == [bkPoints[p] EXCEPT !.has = h]
<1> DEFINE s == [bkWorker[w] EXCEPT !.at = IF BkDump(w) THEN "capture" ELSE "put"]
<1>1. BkTyped /\ BkPointsStand /\ BkPointOf(w) /\ BkProgress(w)
  BY DEF BkInv
<1>2. bkWorker[w].at \in BkDumping
  BY DEF BkDump, BkCapture, BkAt, BkDumping
<1>3. p \in BkIds /\ bkPoints[p] \in BkRows /\ bkPoints[p].status = "RUNNING" /\ bkPoints[p].object = FALSE
      /\ \A v \in BkWorkers \ {w} : bkWorker[v].at \in BkDumping => bkWorker[v].p # p
  BY <1>2, BkMaker
<1>4. bkWorker[w] \in [at : BkDumping, p : Nat, for : {"backup", "job"}]
  BY <1>1, <1>2, BkStateOf
<1>5. bkPoints[p].has \in BkContents /\ bkData \in BkContents
  BY <1>1, <1>3 DEF BkRows, BkTyped
<1>6. /\ h \in BkContents
      /\ BkDump(w) => h.db = bkData.db
      /\ ~BkDump(w) => h.files = bkData.files /\ h.db = bkPoints[p].has.db
  BY <1>5 DEF BkContents
<1>7. bkWorker[w].for = "job" /\ ~BkDump(w) => h = bkData
  <2>1. bkWorker[w].for = "job" /\ ~BkDump(w) => h.db = bkData.db /\ h.files = bkData.files
    BY <1>1, <1>6 DEF BkPointOf, BkCapture, BkAt
  <2> QED BY <2>1, <1>5, <1>6 DEF BkContents
<1>8. bkPoints' = [bkPoints EXCEPT ![p] = x] /\ bkWorker' = [bkWorker EXCEPT ![w] = s]
      /\ bkData' = bkData /\ bkJob' = bkJob /\ bkKept' = bkKept
  BY DEF BkDump, BkCapture, BkMove, BkGo, BkAt
<1>9. bkWorker'[w] = s /\ \A v \in BkWorkers \ {w} : bkWorker'[v] = bkWorker[v]
  BY <1>1, <1>8 DEF BkTyped
<1>10. s.p = p /\ s.for = bkWorker[w].for /\ s \in [at : BkDumping, p : Nat, for : {"backup", "job"}]
       /\ s.at = (IF BkDump(w) THEN "capture" ELSE "put")
  BY <1>4 DEF BkDumping
<1> HIDE DEF h
<1>11. x \in BkRows /\ x.object = FALSE /\ x.status = "RUNNING"
         /\ x.safety = bkPoints[p].safety /\ x.has = h
  BY <1>3, <1>6 DEF BkRows
<1> HIDE DEF x, s, p
<1>12. BkRowStep(p, x)
  BY <1>3, <1>8, <1>11 DEF BkRowStep, BkSettled
<1>13. s \in BkStates
  BY <1>10 DEF BkStates
<1>14. bkWorker' \in [BkWorkers -> BkStates]
  BY <1>1, <1>8, <1>13 DEF BkTyped
<1>15. BkTyped'
  BY <1>1, <1>3, <1>8, <1>11, <1>14, BkTypedRow DEF BkTyped
<1>16. BkJobIsTrue' /\ BkPointsStand'
  BY <1>3, <1>8, <1>11, <1>12, BkJobStays
<1>17. \A v \in BkWorkers \ {w} : BkLeaves(v)
  BY <1>3, <1>8, <1>9, <1>11, <1>12, BkRowLeaves
<1>18. BkIds' = BkIds /\ bkPoints'[p] = x
  BY <1>1, <1>3, <1>8, <1>11, BkWriteRow
<1>19. BkOnJob(w)' = BkOnJob(w) /\ BkUntouched(w)' = BkUntouched(w)
  BY <1>2, <1>9, <1>10 DEF BkOnJob, BkUntouched, BkDumping, BkReplacing
<1>20. BkPointOf(w)'
  BY <1>1, <1>2, <1>3, <1>6, <1>7, <1>8, <1>9, <1>10, <1>11, <1>18 DEF BkPointOf, BkDumping, BkReplacing, p
<1>21. BkProgress(w)'
  BY <1>1, <1>8, <1>9, <1>10, <1>19 DEF BkProgress, BkDumping
<1> QED BY <1>2, <1>8, <1>10, <1>13, <1>15, <1>16, <1>17, <1>19, <1>20, <1>21, BkStepping DEF p

\* The point is off site and READY; a restore goes on to suspend the partner.
LEMMA BkPutInv ==
    ASSUME BkInv, NEW w \in BkWorkers, BkPut(w)
    PROVE  BkInv'
<1> DEFINE p == bkWorker[w].p
<1> DEFINE x == [bkPoints[p] EXCEPT !.object = TRUE, !.status = "READY", !.test = "QUEUED"]
<1> DEFINE s == IF bkWorker[w].for = "backup" THEN BkIdle ELSE [bkWorker[w] EXCEPT !.at = "suspend"]
<1>1. BkTyped /\ BkPointsStand /\ BkPointOf(w) /\ BkProgress(w) /\ BkJobIsTrue
  BY DEF BkInv
<1>2. bkWorker[w].at = "put" /\ bkWorker[w].at \in BkDumping
  BY DEF BkPut, BkAt, BkDumping
<1>3. /\ p \in BkIds /\ p \in Nat /\ bkPoints[p] \in BkRows /\ bkPoints[p].status = "RUNNING"
      /\ bkPoints[p].object = FALSE /\ bkWorker[w].for \in {"backup", "job"}
      /\ bkWorker[w].for = "job" => /\ bkPoints[p].safety = TRUE
                                    /\ BkOnJob(w) /\ BkUntouched(w) /\ bkJob.status = "RUNNING"
      /\ \A v \in BkWorkers \ {w} : bkWorker[v].at \in BkDumping => bkWorker[v].p # p
  BY <1>2, BkMaker
<1>4. bkWorker[w] \in [at : BkDumping, p : Nat, for : {"backup", "job"}]
  BY <1>1, <1>2, BkStateOf
<1>5. x \in BkRows /\ x.object = TRUE /\ x.status = "READY"
         /\ x.safety = bkPoints[p].safety /\ x.has = bkPoints[p].has
  BY <1>3 DEF BkRows, BkSettled
<1>6. bkPoints' = [bkPoints EXCEPT ![p] = x] /\ bkWorker' = [bkWorker EXCEPT ![w] = s]
      /\ bkData' = bkData /\ bkJob' = bkJob /\ bkKept' = bkKept
  <2>1. bkPoints' = [bkPoints EXCEPT ![p].object = TRUE, ![p].status = "READY", ![p].test = "QUEUED"]
    BY DEF BkPut
  <2>2. bkPoints' = [bkPoints EXCEPT ![p] = x]
    BY <2>1, <1>1, <1>3 DEF BkTyped
  <2> QED BY <2>2 DEF BkPut, BkMove, BkGo
<1>7. bkWorker'[w] = s /\ \A v \in BkWorkers \ {w} : bkWorker'[v] = bkWorker[v]
  BY <1>1, <1>6 DEF BkTyped
<1>8. /\ s \in BkStates /\ s.at \in {"idle", "suspend"}
      /\ bkWorker[w].for = "backup" => s.at = "idle"
      /\ s.at = "suspend" => bkWorker[w].for = "job" /\ s.p = p /\ s.for = "job"
  BY <1>4, <1>3 DEF BkStates, BkIdle, BkDumping, BkReplacing
<1> HIDE DEF x, s, p
<1>9. BkRowStep(p, x)
  BY <1>3, <1>5, <1>6 DEF BkRowStep, BkSettled
<1>10. bkWorker' \in [BkWorkers -> BkStates]
  BY <1>1, <1>6, <1>8 DEF BkTyped
<1>11. BkTyped'
  BY <1>1, <1>3, <1>5, <1>6, <1>10, BkTypedRow DEF BkTyped
<1>12. BkJobIsTrue' /\ BkPointsStand'
  BY <1>3, <1>5, <1>6, <1>9, BkJobStays
<1>13. \A v \in BkWorkers \ {w} : BkLeaves(v)
  BY <1>3, <1>5, <1>6, <1>7, <1>9, BkRowLeaves
<1>14. BkIds' = BkIds /\ bkPoints'[p] = x
  BY <1>1, <1>3, <1>5, <1>6, BkWriteRow
<1>15. s.at = "suspend" =>
          /\ bkPoints[p].has = bkData
          /\ bkJob.fresh = TRUE => bkData = bkJob.before
          /\ bkJob.lost = FALSE => bkData.db = bkJob.before.db \/ BkSafe
  BY <1>1, <1>2, <1>3, <1>8 DEF BkPointOf, BkProgress, BkJobIsTrue, BkDumping, p
<1>16. s.at = "suspend" /\ bkJob.lost = FALSE => BkSafe'
  <2> SUFFICES ASSUME s.at = "suspend", bkJob.lost = FALSE PROVE BkSafe'
    OBVIOUS
  <2>1. CASE bkData.db = bkJob.before.db
    BY <2>1, <1>3, <1>5, <1>6, <1>8, <1>14, <1>15 DEF BkSafe
  <2>2. CASE BkSafe
    BY <2>2, <1>3, <1>5, <1>6, <1>9, BkRowKeeps
  <2> QED BY <2>1, <2>2, <1>15
<1>17. BkPointOf(w)'
  BY <1>3, <1>5, <1>6, <1>7, <1>8, <1>14, <1>15, <1>16 DEF BkPointOf, BkDumping, BkReplacing, BkSettled
<1>18. BkProgress(w)'
  BY <1>3, <1>6, <1>7, <1>8, <1>15 DEF BkProgress, BkOnJob, BkUntouched, BkDumping, BkReplacing
<1>19. BkOnJob(w)' => BkOnJob(w)
  BY <1>3, <1>7, <1>8 DEF BkOnJob, BkDumping, BkReplacing
<1>20. s.at \notin BkDumping
  BY <1>8 DEF BkDumping
<1> QED BY <1>6, <1>8, <1>11, <1>12, <1>13, <1>17, <1>18, <1>19, <1>20, BkStepping

\* A restore that ends as FAILED without having replaced anything.
LEMMA BkFailsUntouched ==
    ASSUME BkInv, NEW w \in BkWorkers, BkUntouched(w), BkOnJob(w), bkData' = bkData,
           bkJob'.status = "FAILED", bkJob'.fresh = bkJob.fresh, bkJob'.before = bkJob.before,
           bkJob'.lost = bkJob.lost, bkJob'.lost = FALSE /\ BkSafe => BkSafe'
    PROVE  BkJobIsTrue'
<1>1. BkProgress(w) /\ BkJobIsTrue
  BY DEF BkInv
<1>2. bkJob.status = "RUNNING" /\ (bkJob.fresh = TRUE => bkData = bkJob.before)
  BY <1>1 DEF BkProgress
<1>3. bkJob.lost = FALSE => bkData.db = bkJob.before.db \/ BkSafe
  BY <1>1, <1>2 DEF BkJobIsTrue
<1> QED BY <1>2, <1>3 DEF BkJobIsTrue

\* A point fails, and with it the restore that made it.
LEMMA BkBackupFailsInv ==
    ASSUME BkInv, NEW w \in BkWorkers, BkBackupFails(w)
    PROVE  BkInv'
<1> DEFINE p == bkWorker[w].p
<1> DEFINE x == IF bkPoints' = bkPoints THEN bkPoints[p] ELSE [bkPoints[p] EXCEPT !.status = "FAILED"]
<1>1. BkTyped /\ BkPointsStand
  BY DEF BkInv
<1>2. bkWorker[w].at \in BkDumping
  BY DEF BkBackupFails, BkDumping
<1>3. /\ p \in BkIds /\ bkPoints[p] \in BkRows /\ bkPoints[p].status = "RUNNING"
      /\ bkPoints[p].object = FALSE /\ bkWorker[w].for \in {"backup", "job"}
      /\ bkWorker[w].for = "job" => BkOnJob(w) /\ BkUntouched(w)
      /\ \A v \in BkWorkers \ {w} : bkWorker[v].at \in BkDumping => bkWorker[v].p # p
      /\ BkOnJob(w) => \A v \in BkWorkers \ {w} : ~BkOnJob(v)
  BY <1>2, BkMaker
<1>4. x \in BkRows /\ x.object = FALSE /\ x.status \in {"RUNNING", "FAILED"}
         /\ x.safety = bkPoints[p].safety /\ x.has = bkPoints[p].has
  BY <1>3 DEF BkRows
<1>5. bkPoints' = [bkPoints EXCEPT ![p] = x] /\ bkWorker' = [bkWorker EXCEPT ![w] = BkIdle]
      /\ bkData' = bkData /\ bkKept' = bkKept
      /\ bkJob' = IF bkWorker[w].for = "job" THEN [bkJob EXCEPT !.status = "FAILED"] ELSE bkJob
  BY <1>1, <1>3 DEF BkBackupFails, BkGo, BkTyped
<1>6. /\ bkJob' \in BkJobs /\ bkJob'.fresh = bkJob.fresh /\ bkJob'.before = bkJob.before
      /\ bkJob'.point = bkJob.point /\ bkJob'.lost = bkJob.lost
      /\ bkWorker[w].for = "job" => bkJob'.status = "FAILED"
      /\ bkWorker[w].for # "job" => bkJob' = bkJob
  BY <1>1, <1>5 DEF BkTyped, BkJobs
<1>7. bkWorker'[w] = BkIdle /\ \A v \in BkWorkers \ {w} : bkWorker'[v] = bkWorker[v]
  BY <1>1, <1>5 DEF BkTyped
<1>8. BkIdle \in BkStates /\ BkIdle.at = "idle"
  BY DEF BkIdle, BkStates
<1> HIDE DEF x, p
<1>9. BkRowStep(p, x)
  BY <1>3, <1>4, <1>5 DEF BkRowStep, BkSettled
<1>10. bkWorker' \in [BkWorkers -> BkStates]
  BY <1>1, <1>5, <1>8 DEF BkTyped
<1>11. BkTyped'
  BY <1>1, <1>3, <1>4, <1>5, <1>6, <1>10, BkTypedRow DEF BkTyped
<1>12. (bkJob'.lost = FALSE /\ BkSafe => BkSafe') /\ BkPointsStand'
  BY <1>3, <1>4, <1>6, <1>9, BkRowKeeps
<1>13. BkJobIsTrue'
  <2>1. CASE bkWorker[w].for = "job"
    BY <2>1, <1>3, <1>5, <1>6, <1>12, BkFailsUntouched
  <2>2. CASE bkWorker[w].for # "job"
    BY <2>2, <1>3, <1>4, <1>5, <1>6, <1>9, BkJobStays
  <2> QED BY <2>1, <2>2
<1>14. \A v \in BkWorkers \ {w} : BkLeaves(v)
  <2> SUFFICES ASSUME NEW v \in BkWorkers \ {w} PROVE BkLeaves(v)
    OBVIOUS
  <2>1. BkOnJob(v) => bkJob' = bkJob
    BY <1>3, <1>6
  <2> QED BY <2>1, <1>3, <1>4, <1>5, <1>7, <1>9, BkRowLeaves
<1>15. BkPointOf(w)' /\ BkProgress(w)' /\ ~BkOnJob(w)' /\ BkIdle.at \notin BkDumping
  BY <1>7, <1>8 DEF BkPointOf, BkProgress, BkOnJob, BkUntouched, BkDumping, BkReplacing
<1> QED BY <1>5, <1>8, <1>11, <1>12, <1>13, <1>14, <1>15, BkStepping

\* A new row leaves the settled points and the safety points as they were.
LEMMA BkAddKeeps ==
    ASSUME BkInv, NEW status \in {"QUEUED", "RUNNING"}, NEW safety \in BOOLEAN, bkPoints' = BkNew(status, safety)
    PROVE  /\ BkIds \subseteq BkIds' /\ \A q \in BkIds : bkPoints'[q] = bkPoints[q]
           /\ bkJob'.before = bkJob.before /\ BkSafe => BkSafe'
           /\ bkJob'.point = bkJob.point => BkPointsStand'
           /\ bkPoints'[bkJob.point] = bkPoints[bkJob.point]
<1> DEFINE n == Cardinality(BkIds) + 1
<1>1. BkTyped /\ BkPointsStand
  BY DEF BkInv
<1>2. /\ BkIds' = BkIds \cup {n} /\ bkPoints'[n].object = FALSE
      /\ \A q \in BkIds : bkPoints'[q] = bkPoints[q]
  BY <1>1, BkAddRow
<1> HIDE DEF n
<1>3. bkJob'.before = bkJob.before /\ BkSafe => BkSafe'
  BY <1>2 DEF BkSafe
<1>4. bkJob'.point = bkJob.point => BkPointsStand'
  BY <1>1, <1>2 DEF BkPointsStand
<1> QED BY <1>1, <1>2, <1>3, <1>4 DEF BkPointsStand

\* A new row leaves every worker alone.
LEMMA BkAddLeaves ==
    ASSUME BkInv, NEW status \in {"QUEUED", "RUNNING"}, NEW safety \in BOOLEAN, bkPoints' = BkNew(status, safety),
           bkData' = bkData, bkJob' = bkJob, NEW v \in BkWorkers, bkWorker'[v] = bkWorker[v]
    PROVE  BkLeaves(v)
<1>1. BkPointOf(v) /\ BkTyped
  BY DEF BkInv
<1>2. bkWorker[v].at \in BkDumping => bkWorker[v].p \in BkIds
  BY <1>1 DEF BkPointOf
<1>3. BkIds \subseteq BkIds' /\ (\A q \in BkIds : bkPoints'[q] = bkPoints[q]) /\ (BkSafe => BkSafe')
  BY BkAddKeeps
<1> QED BY <1>2, <1>3 DEF BkLeaves

\* The row of the restore stays true when a row is added.
LEMMA BkAddJob ==
    ASSUME BkInv, NEW status \in {"QUEUED", "RUNNING"}, NEW safety \in BOOLEAN, bkPoints' = BkNew(status, safety),
           bkData' = bkData, bkJob' = bkJob
    PROVE  BkJobIsTrue' /\ BkPointsStand'
<1>1. BkJobIsTrue
  BY DEF BkInv
<1>2. (BkSafe => BkSafe') /\ BkPointsStand' /\ bkPoints'[bkJob.point] = bkPoints[bkJob.point]
  BY BkAddKeeps
<1> QED BY <1>1, <1>2 DEF BkJobIsTrue

\* A backup is queued.
LEMMA BkQueueInv ==
    ASSUME BkInv, BkQueue
    PROVE  BkInv'
<1>1. BkTyped
  BY DEF BkInv
<1>2. bkPoints' = BkNew("QUEUED", FALSE) /\ bkJob' = bkJob /\ bkData' = bkData /\ bkKept' = bkKept
      /\ bkWorker' = bkWorker
  BY DEF BkQueue
<1>3. Cardinality(BkIds') \in Nat /\ BkIds' = 1..Cardinality(BkIds') /\ bkPoints' \in [BkIds' -> BkRows]
  BY <1>1, <1>2, BkAddRow
<1>4. BkTyped'
  BY <1>1, <1>2, <1>3 DEF BkTyped
<1>5. BkJobIsTrue' /\ BkPointsStand'
  BY <1>2, BkAddJob
<1>6. \A v \in BkWorkers : BkLeaves(v)
  BY <1>2, BkAddLeaves
<1> QED BY <1>2, <1>4, <1>5, <1>6, BkIdling

\* A worker with no part in the restore does not see the data or the restore change.
LEMMA BkElsewhere ==
    ASSUME NEW v \in BkWorkers, ~BkOnJob(v), bkWorker'[v] = bkWorker[v], bkPoints' = bkPoints
    PROVE  BkLeaves(v)
BY DEF BkLeaves, BkIds

\* A restore is requested.
LEMMA BkJobQueueInv ==
    ASSUME BkInv, NEW p \in BkIds, BkJobQueue(p)
    PROVE  BkInv'
<1>1. BkTyped /\ BkPointsStand /\ \A v \in BkWorkers : BkProgress(v)
  BY DEF BkInv
<1>2. bkPoints' = bkPoints /\ bkData' = bkData /\ bkKept' = bkKept /\ bkWorker' = bkWorker
      /\ bkJob.status \notin BkLive /\ bkPoints[p].status = "READY"
  BY DEF BkJobQueue
<1>3. p \in Nat /\ bkJob.n \in Nat /\ bkData \in BkContents
  BY <1>1, BkRowOf DEF BkTyped, BkJobs
<1>4. bkJob' \in [n : Nat, status : {"QUEUED"}, point : {p}, rollback : {"none"},
                  before : {bkData}, fresh : {TRUE}, lost : {FALSE}]
  BY <1>3 DEF BkJobQueue
<1>5. /\ bkJob' \in BkJobs /\ bkJob'.status = "QUEUED" /\ bkJob'.point = p
      /\ bkJob'.before = bkData /\ bkJob'.fresh = TRUE
  BY <1>3, <1>4 DEF BkJobs
<1>6. BkTyped'
  BY <1>1, <1>2, <1>5 DEF BkTyped, BkIds
<1>7. BkPointsStand'
  BY <1>1, <1>2, <1>5 DEF BkPointsStand, BkIds, BkSettled
<1>8. BkJobIsTrue'
  BY <1>2, <1>5 DEF BkJobIsTrue
<1>9. \A v \in BkWorkers : ~BkOnJob(v)
  BY <1>1, <1>2 DEF BkProgress, BkLive
<1>10. \A v \in BkWorkers : BkLeaves(v)
  BY <1>2, <1>9, BkElsewhere
<1> QED BY <1>2, <1>6, <1>7, <1>8, <1>10, BkIdling

\* A restore is claimed.
LEMMA BkJobClaimInv ==
    ASSUME BkInv, NEW w \in BkWorkers, BkJobClaim(w)
    PROVE  BkInv'
<1> DEFINE s == [at |-> "check"]
<1>1. BkTyped /\ BkPointsStand /\ BkJobIsTrue /\ \A v \in BkWorkers : BkProgress(v)
  BY DEF BkInv
<1>2. bkPoints' = bkPoints /\ bkData' = bkData /\ bkKept' = bkKept /\ bkJob.status = "QUEUED"
      /\ bkJob' = [bkJob EXCEPT !.status = "RUNNING"] /\ bkWorker' = [bkWorker EXCEPT ![w] = s]
  BY DEF BkJobClaim, BkGo
<1>3. /\ bkJob' \in BkJobs /\ bkJob'.status = "RUNNING" /\ bkJob'.point = bkJob.point
      /\ bkJob'.before = bkJob.before /\ bkJob'.fresh = bkJob.fresh /\ bkJob'.lost = bkJob.lost
  BY <1>1, <1>2 DEF BkTyped, BkJobs
<1>4. s \in BkStates /\ s.at = "check"
  BY DEF BkStates
<1>5. bkWorker'[w] = s /\ \A v \in BkWorkers \ {w} : bkWorker'[v] = bkWorker[v]
  BY <1>1, <1>2 DEF BkTyped
<1> HIDE DEF s
<1>6. bkWorker' \in [BkWorkers -> BkStates]
  BY <1>1, <1>2, <1>4 DEF BkTyped
<1>7. BkTyped'
  BY <1>1, <1>2, <1>3, <1>6 DEF BkTyped, BkIds
<1>8. BkPointsStand'
  BY <1>1, <1>2, <1>3 DEF BkPointsStand, BkIds
<1>9. BkJobIsTrue'
  BY <1>1, <1>2, <1>3 DEF BkJobIsTrue, BkSafe, BkIds
<1>10. \A v \in BkWorkers : ~BkOnJob(v)
  BY <1>1, <1>2 DEF BkProgress
<1>11. \A v \in BkWorkers \ {w} : BkLeaves(v)
  BY <1>2, <1>5, <1>10, BkElsewhere
<1>12. BkPointOf(w)'
  BY <1>4, <1>5 DEF BkPointOf, BkDumping, BkReplacing
<1>13. BkProgress(w)'
  BY <1>1, <1>2, <1>3, <1>4, <1>5 DEF BkProgress, BkJobIsTrue
<1>14. s.at \notin BkDumping
  BY <1>4 DEF BkDumping
<1> QED BY <1>2, <1>4, <1>7, <1>8, <1>9, <1>10, <1>11, <1>12, <1>13, <1>14, BkStepping

\* The worker of a restore ends it, with data that are what the row says.
LEMMA BkEndInv ==
    ASSUME BkInv, NEW w \in BkWorkers, BkOnJob(w), NEW status \in {"COMPLETED", "FAILED"},
           NEW rollback \in {"none", "passed", "failed"}, BkJobEnds(w, status, rollback),
           bkPoints' = bkPoints, bkData' = bkData, bkKept' = bkKept, BkJobIsTrue'
    PROVE  BkInv'
<1>1. BkTyped /\ BkPointsStand /\ BkAlone
  BY DEF BkInv
<1>2. bkJob' = [bkJob EXCEPT !.status = status, !.rollback = rollback]
      /\ bkWorker' = [bkWorker EXCEPT ![w] = BkIdle]
  BY DEF BkJobEnds, BkGo
<1>3. bkJob' \in BkJobs /\ bkJob'.point = bkJob.point
  BY <1>1, <1>2 DEF BkTyped, BkJobs
<1>4. BkIdle \in BkStates /\ BkIdle.at = "idle"
  BY DEF BkStates, BkIdle
<1>5. bkWorker'[w] = BkIdle /\ \A v \in BkWorkers \ {w} : bkWorker'[v] = bkWorker[v]
  BY <1>1, <1>2 DEF BkTyped
<1>6. bkWorker' \in [BkWorkers -> BkStates]
  BY <1>1, <1>2, <1>4 DEF BkTyped
<1>7. BkTyped'
  BY <1>1, <1>3, <1>6 DEF BkTyped, BkIds
<1>8. BkPointsStand'
  BY <1>1, <1>3 DEF BkPointsStand, BkIds
<1>9. \A v \in BkWorkers \ {w} : ~BkOnJob(v)
  BY <1>1 DEF BkAlone
<1>10. \A v \in BkWorkers \ {w} : BkLeaves(v)
  BY <1>5, <1>9, BkElsewhere
<1>11. BkPointOf(w)' /\ BkProgress(w)' /\ ~BkOnJob(w)' /\ BkIdle.at \notin BkDumping
  BY <1>4, <1>5 DEF BkPointOf, BkProgress, BkOnJob, BkUntouched, BkDumping, BkReplacing
<1> QED BY <1>2, <1>4, <1>7, <1>8, <1>10, <1>11, BkStepping

\* The row of a restore that ends, but for what it says of itself.
LEMMA BkEndRow ==
    ASSUME BkTyped, NEW w, NEW status, NEW rollback, BkJobEnds(w, status, rollback)
    PROVE  /\ bkJob'.status = status /\ bkJob'.rollback = rollback /\ bkJob'.point = bkJob.point
           /\ bkJob'.before = bkJob.before /\ bkJob'.fresh = bkJob.fresh /\ bkJob'.lost = bkJob.lost
BY DEF BkTyped, BkJobs, BkJobEnds

\* A restore that has replaced nothing ends as FAILED.
LEMMA BkRefusedInv ==
    ASSUME BkInv, NEW w \in BkWorkers, bkWorker[w].at \in {"check", "suspend"}, BkJobEnds(w, "FAILED", "none"),
           bkPoints' = bkPoints, bkData' = bkData, bkKept' = bkKept
    PROVE  BkInv'
<1>1. BkTyped
  BY DEF BkInv
<1>2. BkOnJob(w) /\ BkUntouched(w)
  BY DEF BkOnJob, BkUntouched, BkReplacing
<1>3. bkJob'.status = "FAILED" /\ bkJob'.before = bkJob.before /\ bkJob'.fresh = bkJob.fresh
      /\ bkJob'.lost = bkJob.lost
  BY <1>1, BkEndRow
<1>4. BkSafe => BkSafe'
  BY <1>3 DEF BkSafe, BkIds
<1>5. BkJobIsTrue'
  BY <1>2, <1>3, <1>4, BkFailsUntouched
<1> QED BY <1>2, <1>5, BkEndInv

\* The safety point of a restore is begun.
LEMMA BkSafetyBegunInv ==
    ASSUME BkInv, NEW w \in BkWorkers, bkWorker[w].at = "check", bkPoints' = BkNew("RUNNING", TRUE),
           BkGo(w, [at |-> "dump", p |-> Cardinality(BkIds) + 1, for |-> "job"]),
           bkJob' = bkJob, bkData' = bkData, bkKept' = bkKept
    PROVE  BkInv'
<1> DEFINE n == Cardinality(BkIds) + 1
<1> DEFINE s == [at |-> "dump", p |-> n, for |-> "job"]
<1>1. BkTyped /\ BkProgress(w) /\ \A v \in BkWorkers : BkPointOf(v)
  BY DEF BkInv
<1>2. n \in Nat
  BY <1>1 DEF BkTyped
<1>3. /\ n \notin BkIds /\ n \in BkIds' /\ bkPoints'[n].status = "RUNNING" /\ bkPoints'[n].safety = TRUE
      /\ Cardinality(BkIds') \in Nat /\ BkIds' = 1..Cardinality(BkIds') /\ bkPoints' \in [BkIds' -> BkRows]
  BY <1>1, BkAddRow
<1>4. s \in BkStates /\ s.at = "dump" /\ s.p = n /\ s.for = "job"
  BY <1>2 DEF BkStates, BkDumping
<1>5. bkWorker' = [bkWorker EXCEPT ![w] = s]
  BY DEF BkGo
<1>6. bkWorker'[w] = s /\ \A v \in BkWorkers \ {w} : bkWorker'[v] = bkWorker[v]
  BY <1>1, <1>5 DEF BkTyped
<1> HIDE DEF s, n
<1>7. bkWorker' \in [BkWorkers -> BkStates]
  BY <1>1, <1>4, <1>5 DEF BkTyped
<1>8. BkTyped'
  BY <1>1, <1>3, <1>7 DEF BkTyped
<1>9. BkJobIsTrue' /\ BkPointsStand'
  BY BkAddJob
<1>10. \A v \in BkWorkers \ {w} : BkLeaves(v)
  BY <1>6, BkAddLeaves
<1>11. BkPointOf(w)'
  BY <1>3, <1>4, <1>6 DEF BkPointOf, BkDumping, BkReplacing
<1>12. BkOnJob(w) /\ BkUntouched(w)
  BY DEF BkOnJob, BkUntouched
<1>13. BkProgress(w)'
  BY <1>1, <1>4, <1>6, <1>12 DEF BkProgress
<1>14. \A v \in BkWorkers : bkWorker[v].at \in BkDumping => bkWorker[v].p # s.p
  BY <1>1, <1>3, <1>4 DEF BkPointOf
<1> QED BY <1>4, <1>5, <1>8, <1>9, <1>10, <1>11, <1>12, <1>13, <1>14, BkStepping

\* What a worker that holds a safety point has of it, and that the restore is its own.
LEMMA BkHolder ==
    ASSUME BkInv, NEW w \in BkWorkers, bkWorker[w].at \in BkReplacing
    PROVE  /\ bkWorker[w] \in [at : BkReplacing, p : Nat, for : {"job", "rollback"}]
           /\ BkOnJob(w) /\ bkJob.status = "RUNNING" /\ (bkJob.lost = FALSE => BkSafe)
           /\ bkJob.fresh = TRUE => bkPoints[bkWorker[w].p].has = bkJob.before
           /\ BkSource(w) \in BkContents /\ bkData \in BkContents
           /\ \A v \in BkWorkers \ {w} : ~BkOnJob(v)
<1>1. BkTyped /\ BkPointsStand /\ BkAlone /\ BkPointOf(w) /\ BkProgress(w)
  BY DEF BkInv
<1>2. bkWorker[w] \in [at : BkReplacing, p : Nat, for : {"job", "rollback"}]
  BY <1>1, BkStateOf
<1>3. BkOnJob(w)
  BY DEF BkOnJob
<1>4. bkJob.status = "RUNNING"
  BY <1>1, <1>3 DEF BkProgress
<1>5. /\ bkWorker[w].p \in BkIds /\ (bkJob.lost = FALSE => BkSafe)
      /\ bkJob.fresh = TRUE => bkPoints[bkWorker[w].p].has = bkJob.before
  BY <1>1 DEF BkPointOf
<1>6. BkSource(w) \in BkContents
  <2>1. bkPoints[bkWorker[w].p].has \in BkContents
    BY <1>1, <1>5, BkRowOf
  <2>2. bkPoints[bkJob.point].has \in BkContents
    BY <1>1, BkRowOf DEF BkPointsStand
  <2> QED BY <2>1, <2>2 DEF BkSource
<1>7. \A v \in BkWorkers \ {w} : ~BkOnJob(v)
  BY <1>1, <1>3 DEF BkAlone
<1> QED BY <1>1, <1>2, <1>3, <1>4, <1>5, <1>6, <1>7 DEF BkTyped

\* The worker of a restore goes on with the same safety point, and the data become others.
LEMMA BkReplaceInv ==
    ASSUME BkInv, NEW w \in BkWorkers, bkWorker[w].at \in BkReplacing,
           NEW s \in [at : BkReplacing, p : {bkWorker[w].p}, for : {"job", "rollback"}],
           bkWorker' = [bkWorker EXCEPT ![w] = s], bkPoints' = bkPoints, bkJob' = bkJob,
           bkData' \in BkContents, \A k \in bkKept' : k.db \in BkDbs, BkProgress(w)'
    PROVE  BkInv'
<1>1. BkTyped /\ BkPointsStand /\ BkPointOf(w) /\ BkJobIsTrue
  BY DEF BkInv
<1>2. /\ bkWorker[w].p \in Nat /\ BkOnJob(w) /\ bkJob.status = "RUNNING" /\ (bkJob.lost = FALSE => BkSafe)
      /\ \A v \in BkWorkers \ {w} : ~BkOnJob(v)
  BY BkHolder
<1>3. s \in BkStates /\ s.at \in BkReplacing /\ s.p = bkWorker[w].p
  BY <1>2 DEF BkStates
<1>4. bkWorker'[w] = s /\ \A v \in BkWorkers \ {w} : bkWorker'[v] = bkWorker[v]
  BY <1>1 DEF BkTyped
<1>5. bkWorker' \in [BkWorkers -> BkStates]
  BY <1>1, <1>3 DEF BkTyped
<1>6. BkTyped'
  BY <1>1, <1>5 DEF BkTyped, BkIds
<1>7. BkPointsStand'
  BY <1>1 DEF BkPointsStand, BkIds
<1>8. BkSafe' = BkSafe
  BY DEF BkSafe, BkIds
<1>9. BkJobIsTrue'
  BY <1>2, <1>8 DEF BkJobIsTrue
<1>10. \A v \in BkWorkers \ {w} : BkLeaves(v)
  BY <1>2, <1>4, BkElsewhere
<1>11. BkPointOf(w)'
  BY <1>1, <1>3, <1>4, <1>8 DEF BkPointOf, BkDumping, BkReplacing, BkIds
<1>12. s.at \notin BkDumping
  BY <1>3 DEF BkDumping, BkReplacing
<1> QED BY <1>2, <1>3, <1>6, <1>7, <1>9, <1>10, <1>11, <1>12, BkStepping

\* What it means for that worker to move on.
LEMMA BkMoved ==
    ASSUME BkInv, NEW w \in BkWorkers, bkWorker[w].at \in BkReplacing, NEW at \in BkReplacing, BkMove(w, at),
           bkPoints' = bkPoints, bkJob' = bkJob,
           NEW s, s = [bkWorker[w] EXCEPT !.at = at]
    PROVE  /\ s \in [at : BkReplacing, p : {bkWorker[w].p}, for : {"job", "rollback"}]
           /\ s.at = at /\ s.for = bkWorker[w].for /\ bkWorker' = [bkWorker EXCEPT ![w] = s] /\ bkWorker'[w] = s
           /\ BkSource(w)' = BkSource(w)
<1>1. BkTyped
  BY DEF BkInv
<1>2. bkWorker[w] \in [at : BkReplacing, p : Nat, for : {"job", "rollback"}]
  BY BkHolder
<1>3. /\ s \in [at : BkReplacing, p : {bkWorker[w].p}, for : {"job", "rollback"}]
      /\ s.at = at /\ s.for = bkWorker[w].for /\ s.p = bkWorker[w].p
  BY <1>2
<1>4. bkWorker' = [bkWorker EXCEPT ![w] = s]
  BY DEF BkMove, BkGo
<1>5. bkWorker'[w] = s
  BY <1>1, <1>4 DEF BkTyped
<1>6. BkSource(w)' = BkSource(w)
  BY <1>3, <1>5 DEF BkSource, BkRolling
<1> QED BY <1>3, <1>4, <1>5, <1>6

\* A restore moves on and what its worker now knows of the data is true.
LEMMA BkMoveInv ==
    ASSUME BkInv, NEW w \in BkWorkers, bkWorker[w].at \in BkReplacing, NEW at \in BkReplacing, BkMove(w, at),
           bkPoints' = bkPoints, bkJob' = bkJob,
           bkData' \in BkContents, \A k \in bkKept' : k.db \in BkDbs,
           at # "suspend", at = "away" => bkWorker[w].at = "suspend" /\ bkData' = bkData,
           at \in {"drop", "files"} => bkData'.db = BkSource(w).db,
           at = "finish" => bkData' = BkSource(w)
    PROVE  BkInv'
<1> DEFINE s == [bkWorker[w] EXCEPT !.at = at]
<1>1. /\ s \in [at : BkReplacing, p : {bkWorker[w].p}, for : {"job", "rollback"}]
      /\ s.at = at /\ s.for = bkWorker[w].for /\ bkWorker' = [bkWorker EXCEPT ![w] = s] /\ bkWorker'[w] = s
      /\ BkSource(w)' = BkSource(w)
  BY BkMoved
<1> HIDE DEF s
<1>2. BkProgress(w) /\ bkJob.status = "RUNNING"
  BY BkHolder DEF BkInv
<1>3. BkUntouched(w)' => BkUntouched(w) /\ bkData' = bkData
  BY <1>1 DEF BkUntouched, BkDumping, BkReplacing
<1>4. BkProgress(w)'
  BY <1>1, <1>2, <1>3 DEF BkProgress
<1> QED BY <1>1, <1>4, BkReplaceInv

\* The restore checks its point, and suspends and unpacks.
LEMMA BkPreparesInv ==
    ASSUME BkInv, NEW w \in BkWorkers, BkJobCheck(w) \/ BkJobUnpack(w)
    PROVE  BkInv'
<1>1. CASE BkJobCheck(w)
  <2>1. /\ bkWorker[w].at = "check" /\ bkData' = bkData /\ bkKept' = bkKept
        /\ \/ /\ bkPoints' = BkNew("RUNNING", TRUE) /\ bkJob' = bkJob
              /\ BkGo(w, [at |-> "dump", p |-> Cardinality(BkIds) + 1, for |-> "job"])
           \/ bkPoints' = bkPoints /\ BkJobEnds(w, "FAILED", "none")
    BY <1>1 DEF BkJobCheck, BkAt
  <2> QED BY <2>1, BkSafetyBegunInv, BkRefusedInv
<1>2. CASE BkJobUnpack(w)
  <2>1. /\ bkWorker[w].at = "suspend" /\ bkPoints' = bkPoints /\ bkData' = bkData /\ bkKept' = bkKept
        /\ \/ BkMove(w, "away") /\ bkJob' = bkJob
           \/ BkJobEnds(w, "FAILED", "none")
    BY <1>2 DEF BkJobUnpack, BkAt
  <2>2. bkData' \in BkContents /\ (\A k \in bkKept' : k.db \in BkDbs) /\ "away" \in BkReplacing
        /\ "suspend" \in BkReplacing
    BY <2>1 DEF BkInv, BkTyped, BkReplacing
  <2>3. CASE BkMove(w, "away") /\ bkJob' = bkJob
    BY <2>1, <2>2, <2>3, BkMoveInv
  <2>4. CASE BkJobEnds(w, "FAILED", "none")
    BY <2>1, <2>4, BkRefusedInv
  <2> QED BY <2>1, <2>3, <2>4
<1> QED BY <1>1, <1>2

\* The database is renamed away, and what was kept is dropped.
LEMMA BkAwayInv ==
    ASSUME BkInv, NEW w \in BkWorkers, BkAway(w) \/ BkDrop(w) \/ BkStepFails(w)
    PROVE  BkInv'
<1>1. bkWorker[w].at \in BkReplacing /\ bkPoints' = bkPoints /\ bkJob' = bkJob
  BY DEF BkAway, BkDrop, BkStepFails, BkAt, BkReplacing
<1>2. bkData \in BkContents /\ (\A k \in bkKept : k.db \in BkDbs) /\ BkProgress(w)
  BY DEF BkInv, BkTyped
<1>3. CASE BkAway(w)
  <2>1. bkData' = [bkData EXCEPT !.db = BkMissing] /\ BkMove(w, "in")
    BY <1>3 DEF BkAway
  <2>2. bkData' \in BkContents
    BY <1>2, <2>1 DEF BkContents, BkDbs
  <2>3. \A k \in bkKept' : k \in bkKept \/ k = [by |-> BkKeptBy(w), db |-> bkData.db]
    BY <1>3 DEF BkAway
  <2>4. \A k \in bkKept' : k.db \in BkDbs
    BY <1>2, <2>3 DEF BkContents
  <2>5. "in" \in BkReplacing
    BY DEF BkReplacing
  <2> QED BY <1>1, <2>1, <2>2, <2>4, <2>5, BkMoveInv
<1>4. CASE BkDrop(w)
  <2>1. bkData' = bkData /\ BkMove(w, "files") /\ bkWorker[w].at = "drop" /\ \A k \in bkKept' : k \in bkKept
    BY <1>4 DEF BkDrop, BkAt
  <2>2. bkData.db = BkSource(w).db
    BY <1>2, <2>1 DEF BkProgress
  <2>3. "files" \in BkReplacing
    BY DEF BkReplacing
  <2> QED BY <1>1, <1>2, <2>1, <2>2, <2>3, BkMoveInv
<1>5. CASE BkStepFails(w)
  <2>1. bkData' = bkData /\ BkMove(w, "failed") /\ bkKept' = bkKept
    BY <1>5 DEF BkStepFails
  <2>2. "failed" \in BkReplacing
    BY DEF BkReplacing
  <2> QED BY <1>1, <1>2, <2>1, <2>2, BkMoveInv
<1> QED BY <1>3, <1>4, <1>5

\* The restored database takes its place, or the former one is put back, or neither.
LEMMA BkInInv ==
    ASSUME BkInv, NEW w \in BkWorkers, BkIn(w)
    PROVE  BkInv'
<1> DEFINE mine == {k \in bkKept : k.by = BkKeptBy(w)}
<1> DEFINE one == CHOOSE k \in mine : TRUE
<1>1. bkWorker[w].at \in BkReplacing /\ bkPoints' = bkPoints /\ bkJob' = bkJob
      /\ "drop" \in BkReplacing /\ "failed" \in BkReplacing
  BY DEF BkIn, BkAt, BkReplacing
<1>2. bkData \in BkContents /\ (\A k \in bkKept : k.db \in BkDbs) /\ BkSource(w) \in BkContents
  BY <1>1, BkHolder DEF BkInv, BkTyped
<1>3. \/ bkData' = [bkData EXCEPT !.db = BkSource(w).db] /\ BkMove(w, "drop") /\ bkKept' = bkKept
      \/ /\ \/ mine # {} /\ bkData' = [bkData EXCEPT !.db = one.db] /\ bkKept' = bkKept \ mine
            \/ bkData' = bkData /\ bkKept' = bkKept
         /\ BkMove(w, "failed")
  BY DEF BkIn
<1>4. mine # {} => one.db \in BkDbs
  BY <1>2
<1>5. \A k \in bkKept' : k.db \in BkDbs
  BY <1>2, <1>3
<1> HIDE DEF one, mine
<1>6. CASE bkData' = [bkData EXCEPT !.db = BkSource(w).db] /\ BkMove(w, "drop")
  <2>1. bkData' \in BkContents /\ bkData'.db = BkSource(w).db
    BY <1>2, <1>6 DEF BkContents
  <2> QED BY <1>1, <1>5, <1>6, <2>1, BkMoveInv
<1>7. CASE mine # {} /\ bkData' = [bkData EXCEPT !.db = one.db] /\ BkMove(w, "failed")
  <2>1. bkData' \in BkContents
    BY <1>2, <1>4, <1>7 DEF BkContents
  <2> QED BY <1>1, <1>5, <1>7, <2>1, BkMoveInv
<1>8. CASE bkData' = bkData /\ BkMove(w, "failed")
  BY <1>1, <1>2, <1>5, <1>8, BkMoveInv
<1> QED BY <1>3, <1>6, <1>7, <1>8

\* The files follow, or not all of them.
LEMMA BkFilesInv ==
    ASSUME BkInv, NEW w \in BkWorkers, BkFiles(w)
    PROVE  BkInv'
<1>1. bkWorker[w].at = "files" /\ bkWorker[w].at \in BkReplacing /\ bkPoints' = bkPoints /\ bkJob' = bkJob
      /\ bkKept' = bkKept /\ "finish" \in BkReplacing /\ "failed" \in BkReplacing
  BY DEF BkFiles, BkAt, BkReplacing
<1>2. bkData \in BkContents /\ (\A k \in bkKept : k.db \in BkDbs) /\ BkProgress(w)
      /\ BkSource(w) \in BkContents
  BY <1>1, BkHolder DEF BkInv, BkTyped
<1>3. CASE bkData' = [bkData EXCEPT !.files = BkSource(w).files] /\ BkMove(w, "finish")
  <2>1. bkData.db = BkSource(w).db
    BY <1>1, <1>2 DEF BkProgress
  <2>2. bkData' \in BkContents /\ bkData'.db = BkSource(w).db /\ bkData'.files = BkSource(w).files
    BY <1>2, <1>3, <2>1 DEF BkContents
  <2>3. bkData' = BkSource(w)
    BY <1>2, <2>2 DEF BkContents
  <2> QED BY <1>1, <1>2, <1>3, <2>2, <2>3, BkMoveInv
<1>4. CASE bkData' \in {bkData, [bkData EXCEPT !.files = "mixed"]} /\ BkMove(w, "failed")
  <2>1. bkData' \in BkContents
    BY <1>2, <1>4 DEF BkContents
  <2> QED BY <1>1, <1>2, <1>4, <2>1, BkMoveInv
<1> QED BY <1>3, <1>4 DEF BkFiles

\* A restore is finished: the data are its point's, or those of before it.
LEMMA BkFinishInv ==
    ASSUME BkInv, NEW w \in BkWorkers, BkFinish(w)
    PROVE  BkInv'
<1>1. bkWorker[w].at = "finish" /\ bkWorker[w].at \in BkReplacing /\ bkPoints' = bkPoints /\ bkData' = bkData
      /\ bkKept' = bkKept
  BY DEF BkFinish, BkAt, BkReplacing
<1>2. BkOnJob(w) /\ (bkJob.lost = FALSE => BkSafe)
      /\ (bkJob.fresh = TRUE => bkPoints[bkWorker[w].p].has = bkJob.before)
  BY <1>1, BkHolder
<1>3. BkTyped /\ bkData = BkSource(w)
  BY <1>1 DEF BkInv, BkProgress
<1>4. CASE BkRolling(w) /\ BkJobEnds(w, "FAILED", "passed")
  <2>1. bkJob'.status = "FAILED" /\ bkJob'.before = bkJob.before /\ bkJob'.fresh = bkJob.fresh
        /\ bkJob'.lost = bkJob.lost
    BY <1>3, <1>4, BkEndRow
  <2>2. BkSafe => BkSafe'
    BY <1>1, <2>1 DEF BkSafe, BkIds
  <2>3. bkJob.fresh = TRUE => bkData = bkJob.before
    BY <1>2, <1>3, <1>4 DEF BkSource
  <2>4. BkJobIsTrue'
    BY <1>1, <1>2, <2>1, <2>2, <2>3 DEF BkJobIsTrue
  <2> QED BY <1>1, <1>2, <1>4, <2>4, BkEndInv
<1>5. CASE ~BkRolling(w) /\ BkJobEnds(w, "COMPLETED", "none")
  <2>1. bkJob'.status = "COMPLETED" /\ bkJob'.point = bkJob.point
    BY <1>3, <1>5, BkEndRow
  <2>2. bkData = bkPoints[bkJob.point].has
    BY <1>3, <1>5 DEF BkSource
  <2>3. BkJobIsTrue'
    BY <1>1, <2>1, <2>2 DEF BkJobIsTrue
  <2> QED BY <1>1, <1>2, <1>5, <2>3, BkEndInv
<1> QED BY <1>4, <1>5 DEF BkFinish

\* What was replaced is rolled back, or that is given up and said.
LEMMA BkRollbackInv ==
    ASSUME BkInv, NEW w \in BkWorkers, BkRollback(w)
    PROVE  BkInv'
<1>1. bkWorker[w].at = "failed" /\ bkWorker[w].at \in BkReplacing /\ bkPoints' = bkPoints /\ bkData' = bkData
      /\ bkKept' = bkKept
  BY DEF BkRollback, BkAt, BkReplacing
<1>2. BkOnJob(w) /\ bkJob.status = "RUNNING" /\ (bkJob.lost = FALSE => BkSafe)
  BY <1>1, BkHolder
<1>3. BkTyped
  BY DEF BkInv
<1>4. ASSUME BkGo(w, [at |-> "away", p |-> bkWorker[w].p, for |-> "rollback"]), bkJob' = bkJob
      PROVE  BkInv'
  <2> DEFINE s == [at |-> "away", p |-> bkWorker[w].p, for |-> "rollback"]
  <2>1. s \in [at : BkReplacing, p : {bkWorker[w].p}, for : {"job", "rollback"}]
        /\ s.at = "away" /\ s.for = "rollback"
    BY DEF BkReplacing
  <2>2. bkWorker' = [bkWorker EXCEPT ![w] = s]
    BY <1>4 DEF BkGo
  <2>3. bkWorker'[w] = s
    BY <1>3, <2>2 DEF BkTyped
  <2> HIDE DEF s
  <2>4. BkProgress(w)'
    BY <1>2, <1>4, <2>1, <2>3 DEF BkProgress, BkUntouched, BkDumping
  <2>5. bkData' \in BkContents /\ \A k \in bkKept' : k.db \in BkDbs
    BY <1>1, <1>3 DEF BkTyped
  <2> QED BY <1>1, <1>4, <2>1, <2>2, <2>4, <2>5, BkReplaceInv
<1>5. ASSUME BkJobEnds(w, "FAILED", "failed") PROVE BkInv'
  <2>1. bkJob'.status = "FAILED" /\ bkJob'.rollback = "failed" /\ bkJob'.before = bkJob.before
        /\ bkJob'.lost = bkJob.lost
    BY <1>3, <1>5, BkEndRow
  <2>2. BkSafe => BkSafe'
    BY <1>1, <2>1 DEF BkSafe, BkIds
  <2>3. BkJobIsTrue'
    BY <1>1, <1>2, <2>1, <2>2 DEF BkJobIsTrue
  <2> QED BY <1>1, <1>2, <1>5, <2>3, BkEndInv
<1> QED BY <1>4, <1>5 DEF BkRollback

\* The process dies and starts: whoever worked is gone, and what ran is queued.
LEMMA BkRestartInv ==
    ASSUME BkInv, BkRestart
    PROVE  BkInv'
<1>1. BkTyped /\ BkPointsStand /\ BkJobIsTrue
  BY DEF BkInv
<1>2. bkPoints' = [p \in BkIds |-> [bkPoints[p] EXCEPT !.status = BkRequeued(@), !.test = BkRequeued(@)]]
  BY DEF BkRestart
<1>3. BkIds' = BkIds
  BY <1>2 DEF BkIds
<1>4. ASSUME NEW p \in BkIds
      PROVE  /\ bkPoints'[p] \in BkRows /\ bkPoints'[p].object = bkPoints[p].object
             /\ bkPoints'[p].safety = bkPoints[p].safety /\ bkPoints'[p].has = bkPoints[p].has
             /\ bkPoints[p].status \in BkSettled => bkPoints'[p].status = bkPoints[p].status
  <2>1. bkPoints[p] \in BkRows
    BY <1>1, BkRowOf
  <2>2. bkPoints'[p] = [bkPoints[p] EXCEPT !.status = BkRequeued(@), !.test = BkRequeued(@)]
    BY <1>2
  <2> QED BY <2>1, <2>2 DEF BkRows, BkRequeued, BkSettled
<1>5. /\ bkJob' \in BkJobs /\ bkJob'.point = bkJob.point /\ bkJob'.before = bkJob.before
      /\ bkJob'.lost = bkJob.lost /\ bkJob'.rollback = bkJob.rollback
      /\ bkJob.status = "RUNNING" => bkJob'.status = "QUEUED" /\ bkJob'.fresh = FALSE
      /\ bkJob.status # "RUNNING" => bkJob'.status = bkJob.status /\ bkJob'.fresh = bkJob.fresh
  BY <1>1 DEF BkRestart, BkTyped, BkJobs, BkRequeued
<1>6. bkData' = bkData /\ bkKept' = bkKept /\ \A w \in BkWorkers : bkWorker'[w] = BkIdle
  BY DEF BkRestart
<1>7. BkIdle \in BkStates /\ BkIdle.at = "idle"
  BY DEF BkIdle, BkStates
<1>8. bkWorker' \in [BkWorkers -> BkStates]
  BY <1>7 DEF BkRestart
<1>9. bkPoints' \in [BkIds' -> BkRows]
  BY <1>2, <1>3, <1>4
<1>10. BkTyped'
  BY <1>1, <1>3, <1>5, <1>6, <1>8, <1>9 DEF BkTyped
<1>11. BkPointsStand'
  BY <1>1, <1>3, <1>4, <1>5 DEF BkPointsStand, BkSettled
<1>12. BkSafe => BkSafe'
  BY <1>3, <1>4, <1>5 DEF BkSafe
<1>13. bkPoints'[bkJob.point].has = bkPoints[bkJob.point].has
  BY <1>1, <1>4 DEF BkPointsStand
<1>14. BkJobIsTrue'
  BY <1>1, <1>5, <1>6, <1>12, <1>13 DEF BkJobIsTrue
<1>15. BkAlone'
  BY <1>6, <1>7 DEF BkAlone, BkOnJob, BkDumping, BkReplacing
<1>16. \A w \in BkWorkers : BkPointOf(w)' /\ BkProgress(w)'
  BY <1>6, <1>7 DEF BkPointOf, BkProgress, BkOnJob, BkUntouched, BkDumping, BkReplacing
<1> QED BY <1>10, <1>11, <1>14, <1>15, <1>16 DEF BkInv

\* It holds in the first state ...
LEMMA BkInitInv ==
    ASSUME BkInit
    PROVE  BkInv
<1> DEFINE first == [status |-> "READY", object |-> TRUE, has |-> BkBoth("old"),
                     test |-> "none", passed |-> TRUE, safety |-> FALSE]
<1>1. bkPoints = <<first>> /\ first \in BkRows /\ first.status = "READY"
  BY DEF BkInit, BkRows, BkContents, BkDbs, BkBoth, BkSettled
<1> HIDE DEF first
<1>2. BkIds = 1..1 /\ bkPoints[1] = first /\ bkPoints \in [1..1 -> BkRows]
  BY <1>1 DEF BkIds
<1>3. Cardinality(BkIds) = 1
  <2>1. 1 \in Int /\ 1..1 = {1}
    OBVIOUS
  <2> QED BY <1>2, <2>1, FS_Singleton
<1>4. BkBoth("now") \in BkContents
  BY DEF BkBoth, BkContents, BkDbs
<1>5. bkJob \in BkJobs /\ bkJob.status = "none" /\ bkJob.point = 1
  <2> DEFINE now == BkBoth("now")
  <2>1. now \in BkContents
    BY <1>4
  <2>2. bkJob = [n |-> 0, status |-> "none", point |-> 1, rollback |-> "none",
                 before |-> now, fresh |-> TRUE, lost |-> FALSE]
    BY DEF BkInit
  <2> HIDE DEF now
  <2>3. 0 \in Nat /\ 1 \in Nat /\ TRUE \in BOOLEAN /\ FALSE \in BOOLEAN
    OBVIOUS
  <2>4. bkJob \in BkJobs
    BY <2>1, <2>2, <2>3 DEF BkJobs
  <2> QED BY <2>2, <2>4
<1>6. bkData \in BkContents /\ bkKept = {} /\ \A w \in BkWorkers : bkWorker[w] = BkIdle
  BY <1>4 DEF BkInit
<1>7. BkIdle \in BkStates /\ BkIdle.at = "idle"
  BY DEF BkIdle, BkStates
<1>8. bkWorker \in [BkWorkers -> BkStates]
  BY <1>7 DEF BkInit
<1>9. BkTyped
  BY <1>2, <1>3, <1>5, <1>6, <1>8 DEF BkTyped
<1>10. BkPointsStand
  BY <1>1, <1>2, <1>5 DEF BkPointsStand, BkSettled
<1>11. BkJobIsTrue
  BY <1>5 DEF BkJobIsTrue
<1>12. BkAlone /\ \A w \in BkWorkers : BkPointOf(w) /\ BkProgress(w)
  BY <1>6, <1>7 DEF BkAlone, BkPointOf, BkProgress, BkOnJob, BkUntouched, BkDumping, BkReplacing
<1> QED BY <1>9, <1>10, <1>11, <1>12 DEF BkInv

\* ... and no step of anybody ends it.
LEMMA BkStepInv ==
    ASSUME BkInv, [BkNext]_bkVars
    PROVE  BkInv'
<1>1. CASE UNCHANGED bkVars
  BY <1>1 DEF bkVars, BkInv, BkTyped, BkPointsStand, BkAlone, BkJobIsTrue, BkSafe, BkPointOf, BkProgress,
              BkOnJob, BkUntouched, BkSource, BkRolling, BkIds
<1>2. CASE BkQueue \/ BkRestart
  BY <1>2, BkQueueInv, BkRestartInv
<1>3. ASSUME NEW p \in BkIds, BkTestAgain(p) \/ BkPruneObject(p) \/ BkPruneRow(p) \/ BkJobQueue(p) PROVE BkInv'
  BY <1>3, BkRowInv, BkPruneObjectInv, BkJobQueueInv
<1>4. ASSUME NEW w \in BkWorkers, NEW p \in BkIds, BkClaim(w, p) \/ BkTestClaim(w, p) PROVE BkInv'
  BY <1>4, BkClaimInv, BkTestClaimInv
<1>5. ASSUME NEW w \in BkWorkers,
             \/ BkDump(w) \/ BkCapture(w) \/ BkPut(w) \/ BkBackupFails(w) \/ BkTestEnds(w) \/ BkJobClaim(w)
      PROVE  BkInv'
  BY <1>5, BkTakeInv, BkPutInv, BkBackupFailsInv, BkTestEndsInv, BkJobClaimInv
<1>6. ASSUME NEW w \in BkWorkers,
             \/ BkJobCheck(w) \/ BkJobUnpack(w) \/ BkAway(w) \/ BkIn(w) \/ BkDrop(w) \/ BkFiles(w)
             \/ BkFinish(w) \/ BkStepFails(w) \/ BkRollback(w)
      PROVE  BkInv'
  BY <1>6, BkPreparesInv, BkAwayInv, BkInInv, BkFilesInv, BkFinishInv, BkRollbackInv
<1>7. BkNext => \/ BkQueue \/ BkRestart
                \/ \E p \in BkIds : BkTestAgain(p) \/ BkPruneObject(p) \/ BkPruneRow(p) \/ BkJobQueue(p)
                \/ \E w \in BkWorkers, p \in BkIds : BkClaim(w, p) \/ BkTestClaim(w, p)
                \/ \E w \in BkWorkers : \/ BkDump(w) \/ BkCapture(w) \/ BkPut(w) \/ BkBackupFails(w)
                                        \/ BkTestEnds(w) \/ BkJobClaim(w)
                \/ \E w \in BkWorkers : \/ BkJobCheck(w) \/ BkJobUnpack(w) \/ BkAway(w) \/ BkIn(w) \/ BkDrop(w)
                                        \/ BkFiles(w) \/ BkFinish(w) \/ BkStepFails(w) \/ BkRollback(w)
  BY ZenonT(60) DEF BkNext
<1> QED BY <1>1, <1>2, <1>3, <1>4, <1>5, <1>6, <1>7

\* A restore that says COMPLETED has put back what its point holds, one that FAILED without a
\* restart left what the partner had or says that the rollback failed, and until one is
\* COMPLETED the database of before exists unless a safety point was pruned - for any number
\* of workers, points, restores and restarts.
THEOREM RestoresLoseNothing == BkSpec => []BackupsSafe
<1>1. BkInv => BackupsSafe
  <2> SUFFICES ASSUME BkInv PROVE BackupsSafe
    OBVIOUS
  <2>1. BkTyped /\ BkJobIsTrue
    BY DEF BkInv
  <2>2. \A p \in BkIds : bkPoints[p].object \in BOOLEAN
    BY <2>1, BkRowOf
  <2>3. bkJob.fresh \in BOOLEAN /\ bkJob.lost \in BOOLEAN
    BY <2>1 DEF BkTyped, BkJobs
  <2>4. BkCompletedIsPoint /\ BkFailureIsUndone
    BY <2>1, <2>3 DEF BkJobIsTrue, BkCompletedIsPoint, BkFailureIsUndone
  <2>5. BkNothingLost
    BY <2>1, <2>2, <2>3 DEF BkJobIsTrue, BkNothingLost, BkSafe
  <2> QED BY <2>4, <2>5 DEF BackupsSafe
<1>2. BkInit => BkInv
  BY BkInitInv
<1>3. BkInv /\ [BkNext]_bkVars => BkInv'
  BY BkStepInv
<1> QED BY <1>1, <1>2, <1>3, PTL DEF BkSpec
\* The rows, the values and what a request is.
IgRecordOk(r) ==
    r \in [env : {r.env}, batch : {r.batch}, key : {r.key}, val : {r.val}, route : {"PENDING", "ROUTED", "ERROR"}, hold : BOOLEAN,
           asked : BOOLEAN, old : BOOLEAN, stored : BOOLEAN, wiped : BOOLEAN, raced : BOOLEAN]
IgValueOk(v) == v \in [key : {v.key}, ref : IgIds, val : {v.val}, hold : BOOLEAN]
IgStores == [at : {"store"}, env : IgEnvironments, id : IgBatchIds, content : IgContents]
IgSends == [at : {"send"}, todo : SUBSET IgIds]
IgMarks == [at : {"mark"}, todo : SUBSET IgIds, id : IgIds, route : {"ROUTED", "ERROR"}]
IgHolds == [at : {"hold impact", "hold"}, id : IgIds, held : BOOLEAN]
IgDeletes == [at : {"delete impact", "delete", "purge"}, id : IgIds]
IgStates == {IgIdle} \cup IgStores \cup IgSends \cup IgMarks \cup IgHolds \cup IgDeletes

IgTyped ==
    /\ Cardinality(IgIds) \in Nat /\ IgIds = 1..Cardinality(IgIds)
    /\ igRecords = [i \in IgIds |-> igRecords[i]] /\ \A i \in IgIds : IgRecordOk(igRecords[i])
    /\ igBatches = [b \in IgBatchKeys |-> igBatches[b]]
    /\ \A v \in igValues : IgValueOk(v)
    /\ igRequest \in [IgRequests -> IgStates]

\* The value of a record is in Impact, or a deletion or the retention has reached it.
IgThere(i) ==
    igRecords[i].wiped = TRUE \/ igRecords[i].old = TRUE
    \/ \E v \in igValues : v.ref = i /\ v.val = igRecords[i].val
\* A record says ROUTED, or is about to, only then.
IgRouted ==
    /\ \A i \in IgIds : igRecords[i].route = "ROUTED" => IgThere(i)
    /\ \A q \in IgRequests : igRequest[q].at = "mark" =>
          /\ igRequest[q].id \in igRequest[q].todo
          /\ igRequest[q].route = "ROUTED" => IgThere(igRequest[q].id)

\* Request r works on record i.
IgDoes(r, i) ==
    \/ r.at \in {"send", "mark"} /\ i \in r.todo
    \/ r.at \in {"hold impact", "hold", "delete impact", "delete", "purge"} /\ i = r.id

\* Record x with number i, its values and the one request r that works on it.
IgWorks(r, x, i, values) ==
    /\ r.at \in {"send", "mark"} =>
          x.hold = FALSE /\ x.asked = FALSE /\ \A v \in values : v.ref = i => v.hold = FALSE
    /\ r.at = "hold" => \A v \in values : v.ref = i => v.hold = r.held
    /\ r.at = "delete impact" => \A v \in values : v.ref = i => v.hold = FALSE
    /\ r.at \in {"delete", "purge"} => \A v \in values : v.ref # i
\* Nobody works on it, and connector and Impact agree about the hold.
IgRests(x, i, values) == x.stored = TRUE => \A v \in values : v.ref = i => v.hold = x.hold
\* A record on which no two requests overlapped is worked on by one, as the step asks.
IgHonest(i) ==
    igRecords[i].raced = FALSE =>
        /\ \A q, r \in IgRequests : IgDoes(igRequest[q], i) /\ IgDoes(igRequest[r], i) => q = r
        /\ \A q \in IgRequests : IgDoes(igRequest[q], i) => IgWorks(igRequest[q], igRecords[i], i, igValues)
        /\ (\A q \in IgRequests : ~IgDoes(igRequest[q], i)) => IgRests(igRecords[i], i, igValues)
        /\ igRecords[i].asked = TRUE => \A v \in igValues : v.ref # i

IgInv == IgTyped /\ IgAcceptedIsKept /\ IgRouted /\ \A i \in IgIds : IgHonest(i)

\* What the records, values and requests are made of.
LEMMA IgRecordOf ==
    ASSUME NEW r, IgRecordOk(r)
    PROVE  /\ r.hold \in BOOLEAN /\ r.asked \in BOOLEAN /\ r.old \in BOOLEAN /\ r.stored \in BOOLEAN
           /\ r.wiped \in BOOLEAN /\ r.raced \in BOOLEAN /\ r.route \in {"PENDING", "ROUTED", "ERROR"}
BY DEF IgRecordOk

\* What a request is follows from where it is.
LEMMA IgRequestOf ==
    ASSUME IgTyped, NEW q \in IgRequests
    PROVE  LET r == igRequest[q] IN
           /\ r \in IgStates
           /\ r.at = "store" => r \in IgStores
           /\ r.at = "send" => r \in IgSends
           /\ r.at = "mark" => r \in IgMarks
           /\ r.at \in {"hold impact", "hold"} => r \in IgHolds
           /\ r.at \in {"delete impact", "delete", "purge"} => r \in IgDeletes
<1>1. igRequest[q] \in IgStates
  BY DEF IgTyped
<1> DEFINE r == igRequest[q]
<1>2. r \in {IgIdle} \/ r \in IgStores \/ r \in IgSends \/ r \in IgMarks \/ r \in IgHolds \/ r \in IgDeletes
  BY <1>1 DEF IgStates
<1> HIDE DEF r
<1>3. /\ r \in {IgIdle} => r.at = "idle"
      /\ r \in IgStores => r.at = "store"
      /\ r \in IgSends => r.at = "send"
      /\ r \in IgMarks => r.at = "mark"
      /\ r \in IgHolds => r.at \in {"hold impact", "hold"}
      /\ r \in IgDeletes => r.at \in {"delete impact", "delete", "purge"}
  <2>1. (r \in {IgIdle} => r.at = "idle") /\ (r \in IgStores => r.at = "store")
    BY DEF IgIdle, IgStores
  <2>2. (r \in IgSends => r.at = "send") /\ (r \in IgMarks => r.at = "mark")
    BY DEF IgSends, IgMarks
  <2>3. r \in IgHolds => r.at \in {"hold impact", "hold"}
    BY DEF IgHolds
  <2>4. r \in IgDeletes => r.at \in {"delete impact", "delete", "purge"}
    BY DEF IgDeletes
  <2> QED BY <2>1, <2>2, <2>3, <2>4
<1>4. /\ r \in IgStates
      /\ r.at = "store" => r \in IgStores
      /\ r.at = "send" => r \in IgSends
      /\ r.at = "mark" => r \in IgMarks
      /\ r.at \in {"hold impact", "hold"} => r \in IgHolds
      /\ r.at \in {"delete impact", "delete", "purge"} => r \in IgDeletes
  BY <1>1, <1>2, <1>3 DEF r
<1> QED BY <1>4 DEF r

\* A request works on records that are there, and "busy" says so.
LEMMA IgDoesOf ==
    ASSUME IgTyped, NEW q \in IgRequests, NEW i
    PROVE  /\ i \in IgWorksOn(q) <=> IgDoes(igRequest[q], i)
           /\ IgDoes(igRequest[q], i) => i \in IgIds
<1>1. igRequest[q] \in IgStates
  BY DEF IgTyped
<1> QED BY <1>1, IgRequestOf DEF IgWorksOn, IgDoes, IgSends, IgMarks, IgHolds, IgDeletes

\* A record is busy when a request works on it.
LEMMA IgBusyOf ==
    ASSUME IgTyped, NEW i
    PROVE  IgBusy(i) <=> \E q \in IgRequests : IgDoes(igRequest[q], i)
BY IgDoesOf DEF IgBusy

\* A request that moves leaves the others where they are.
LEMMA IgMoved ==
    ASSUME IgTyped, NEW q \in IgRequests, NEW s, IgGo(q, s)
    PROVE  igRequest'[q] = s /\ \A r \in IgRequests \ {q} : igRequest'[r] = igRequest[r]
BY DEF IgTyped, IgGo

\* Record i, if it is not remembered as raced, is worked on by request q only, which goes on
\* with s, as its step asks, or by nobody.
IgAlone(q, s, i, x, values) ==
    x.raced = FALSE =>
        /\ \A r \in IgRequests \ {q} : ~IgDoes(igRequest[r], i)
        /\ IgDoes(s, i) => IgWorks(s, x, i, values)
        /\ ~IgDoes(s, i) => IgRests(x, i, values)
        /\ x.asked = TRUE => \A v \in values : v.ref # i

\* Such a record stays honest.
LEMMA IgOwn ==
    ASSUME IgTyped, NEW q \in IgRequests, NEW s, IgGo(q, s), NEW i, NEW x, x = igRecords'[i],
           NEW values, values = igValues',
           IgAlone(q, s, i, x, values)
    PROVE  IgHonest(i)'
<1> USE DEF IgAlone
<1>1. igRequest'[q] = s /\ \A r \in IgRequests \ {q} : igRequest'[r] = igRequest[r]
  BY IgMoved
<1> SUFFICES ASSUME x.raced = FALSE
             PROVE  /\ \A p, r \in IgRequests : IgDoes(igRequest'[p], i) /\ IgDoes(igRequest'[r], i) => p = r
                    /\ \A r \in IgRequests : IgDoes(igRequest'[r], i) => IgWorks(igRequest'[r], x, i, values)
                    /\ (\A r \in IgRequests : ~IgDoes(igRequest'[r], i)) => IgRests(x, i, values)
                    /\ x.asked = TRUE => \A v \in values : v.ref # i
  BY DEF IgHonest
<1>2. \A r \in IgRequests : IgDoes(igRequest'[r], i) => r = q
  BY <1>1
<1> QED BY <1>1, <1>2

\* A record that a step of request q does not touch stays honest.
LEMMA IgOthers ==
    ASSUME IgTyped, NEW q \in IgRequests, NEW s, IgGo(q, s), NEW i, IgHonest(i), NEW x, x = igRecords'[i],
           ~IgDoes(igRequest[q], i), ~IgDoes(s, i),
           x.raced = FALSE => igRecords[i].raced = FALSE,
           x.hold = igRecords[i].hold, x.asked = igRecords[i].asked,
           x.stored = TRUE => igRecords[i].stored = TRUE,
           \A v \in igValues' : v.ref = i => \E u \in igValues : u.ref = i /\ u.hold = v.hold
    PROVE  IgHonest(i)'
<1>1. igRequest'[q] = s /\ \A r \in IgRequests \ {q} : igRequest'[r] = igRequest[r]
  BY IgMoved
<1> DEFINE values == igValues'
<1>2. \A v \in values : v.ref = i => \E u \in igValues : u.ref = i /\ u.hold = v.hold
  OBVIOUS
<1> SUFFICES ASSUME x.raced = FALSE
             PROVE  /\ \A p, r \in IgRequests : IgDoes(igRequest'[p], i) /\ IgDoes(igRequest'[r], i) => p = r
                    /\ \A r \in IgRequests : IgDoes(igRequest'[r], i) => IgWorks(igRequest'[r], x, i, values)
                    /\ (\A r \in IgRequests : ~IgDoes(igRequest'[r], i)) => IgRests(x, i, values)
                    /\ x.asked = TRUE => \A v \in values : v.ref # i
  BY DEF IgHonest
<1> HIDE DEF values
<1>3. igRecords[i].raced = FALSE
  OBVIOUS
<1>4. \A r \in IgRequests : IgDoes(igRequest'[r], i) => r # q /\ igRequest'[r] = igRequest[r]
  BY <1>1
<1>5. \A r \in IgRequests : IgDoes(igRequest[r], i) => r # q /\ igRequest'[r] = igRequest[r]
  BY <1>1
<1>6. \A p, r \in IgRequests : IgDoes(igRequest'[p], i) /\ IgDoes(igRequest'[r], i) => p = r
  BY <1>3, <1>4 DEF IgHonest
<1>7. ASSUME NEW r \in IgRequests, IgDoes(igRequest'[r], i) PROVE IgWorks(igRequest'[r], x, i, values)
  <2>1. IgWorks(igRequest[r], igRecords[i], i, igValues) /\ igRequest'[r] = igRequest[r]
    BY <1>3, <1>4, <1>7 DEF IgHonest
  <2> DEFINE b == igRequest[r]
  <2> HIDE DEF b
  <2>2. IgWorks(b, igRecords[i], i, igValues)
    BY <2>1 DEF b
  <2>3. IgWorks(b, x, i, values)
    <3>1. b.at \in {"send", "mark"} => x.hold = FALSE /\ x.asked = FALSE /\ \A v \in values : v.ref = i => v.hold = FALSE
      BY <1>2, <2>2 DEF IgWorks
    <3>2. b.at = "hold" => \A v \in values : v.ref = i => v.hold = b.held
      BY <1>2, <2>2 DEF IgWorks
    <3>3. b.at = "delete impact" => \A v \in values : v.ref = i => v.hold = FALSE
      BY <1>2, <2>2 DEF IgWorks
    <3>4. b.at \in {"delete", "purge"} => \A v \in values : v.ref # i
      BY <1>2, <2>2 DEF IgWorks
    <3> QED BY <3>1, <3>2, <3>3, <3>4 DEF IgWorks
  <2> QED BY <2>1, <2>3 DEF b
<1>8. (\A r \in IgRequests : ~IgDoes(igRequest'[r], i)) => IgRests(x, i, values)
  <2> SUFFICES ASSUME \A r \in IgRequests : ~IgDoes(igRequest'[r], i) PROVE IgRests(x, i, values)
    OBVIOUS
  <2>1. IgRests(igRecords[i], i, igValues)
    BY <1>3, <1>5 DEF IgHonest
  <2> QED BY <1>2, <2>1 DEF IgRests
<1>9. x.asked = TRUE => \A v \in values : v.ref # i
  BY <1>2, <1>3 DEF IgHonest
<1> QED BY <1>6, <1>7, <1>8, <1>9

\* No record is added, and none loses what it is, its deletion or its age.
IgEvolves ==
    /\ igRecords' = [i \in IgIds |-> igRecords'[i]]
    /\ \A i \in IgIds :
          /\ IgRecordOk(igRecords'[i])
          /\ igRecords'[i].env = igRecords[i].env /\ igRecords'[i].key = igRecords[i].key
          /\ igRecords'[i].val = igRecords[i].val
          /\ igRecords[i].wiped = TRUE => igRecords'[i].wiped = TRUE
          /\ igRecords[i].old = TRUE => igRecords'[i].old = TRUE

\* Batches stay on record with what they held, or go.
IgFewer ==
    /\ igBatches' = [b \in IgBatchKeys |-> igBatches'[b]]
    /\ \A b \in IgBatchKeys : igBatches'[b] \in {igBatches[b], NoBatch}

\* Such a step keeps the ids.
LEMMA IgSameIds == ASSUME IgEvolves PROVE IgIds' = IgIds
BY DEF IgEvolves, IgIds

\* Nothing is written, or one record is.
LEMMA IgNothingWritten == ASSUME IgTyped, igRecords' = igRecords PROVE IgEvolves
BY DEF IgTyped, IgEvolves

\* No batch is touched, or some go.
LEMMA IgSameBatches == ASSUME IgInv, igBatches' = igBatches PROVE IgFewer
<1>1. igBatches = [b \in IgBatchKeys |-> igBatches[b]]
  BY DEF IgInv, IgTyped
<1> QED BY <1>1 DEF IgFewer
\* The purge of expired data only takes batches away.
LEMMA IgPurgesFewer == ASSUME IgPurges PROVE IgFewer
BY DEF IgPurges, IgFewer

\* One record is written, without losing any of that.
LEMMA IgRowWritten ==
    ASSUME IgTyped, NEW i \in IgIds, NEW x, IgRecordOk(x), igRecords' = [igRecords EXCEPT ![i] = x],
           x.env = igRecords[i].env, x.key = igRecords[i].key, x.val = igRecords[i].val,
           igRecords[i].wiped = TRUE => x.wiped = TRUE, igRecords[i].old = TRUE => x.old = TRUE
    PROVE  IgEvolves /\ igRecords'[i] = x /\ \A j \in IgIds \ {i} : igRecords'[j] = igRecords[j]
<1>1. igRecords = [j \in IgIds |-> igRecords[j]] /\ \A j \in IgIds : IgRecordOk(igRecords[j])
  BY DEF IgTyped
<1>2. igRecords' = [j \in IgIds |-> IF j = i THEN x ELSE igRecords[j]]
  BY <1>1
<1>3. igRecords'[i] = x /\ \A j \in IgIds \ {i} : igRecords'[j] = igRecords[j]
  BY <1>2
<1>4. igRecords' = [j \in IgIds |-> igRecords'[j]]
  BY <1>2
<1> QED BY <1>1, <1>3, <1>4 DEF IgEvolves

\* The types are kept ...
LEMMA IgTypedStays ==
    ASSUME IgTyped, IgEvolves, IgFewer, \A v \in igValues' : IgValueOk(v),
           igRequest' \in [IgRequests -> IgStates]
    PROVE  IgTyped'
<1>1. IgIds' = IgIds
  BY IgSameIds
<1>2. IgStates' = IgStates
  BY <1>1 DEF IgStates, IgIdle, IgStores, IgSends, IgMarks, IgHolds, IgDeletes
<1>3. \A v \in igValues' : IgValueOk(v)'
  BY <1>1 DEF IgValueOk
<1>4. \A i \in IgIds : IgRecordOk(igRecords'[i])
  BY DEF IgEvolves
<1>5. igRecords' = [i \in IgIds' |-> igRecords'[i]]
  BY <1>1 DEF IgEvolves
<1>6. \A i \in IgIds' : IgRecordOk(igRecords[i])'
  BY <1>1, <1>4 DEF IgRecordOk
<1>7. igBatches' = [b \in IgBatchKeys |-> igBatches[b]]'
  BY DEF IgFewer, IgBatchKeys
<1> QED BY <1>1, <1>2, <1>3, <1>5, <1>6, <1>7 DEF IgTyped

\* ... and what was accepted, and what is in Impact unless a deletion took it.
LEMMA IgAcceptedStays ==
    ASSUME IgTyped, IgAcceptedIsKept, IgEvolves, IgFewer
    PROVE  IgAcceptedIsKept'
<1> SUFFICES ASSUME NEW b \in IgBatchKeys, igBatches'[b] # NoBatch, NEW key \in DOMAIN igBatches'[b]
             PROVE  \E i \in IgIds' : /\ igRecords'[i].env = b[1] /\ igRecords'[i].key = key
                                      /\ igRecords'[i].val = igBatches'[b][key]
  BY DEF IgAcceptedIsKept, IgBatchKeys, NoBatch
<1>1. igBatches'[b] = igBatches[b]
  BY DEF IgFewer
<1>2. PICK i \in IgIds : /\ igRecords[i].env = b[1] /\ igRecords[i].key = key
                         /\ igRecords[i].val = igBatches[b][key]
  BY <1>1 DEF IgAcceptedIsKept
<1> QED BY <1>1, <1>2, IgSameIds DEF IgEvolves

\* What is there stays, unless the step says otherwise.
LEMMA IgThereStays ==
    ASSUME IgTyped, IgEvolves, NEW i \in IgIds, IgThere(i),
           \/ igRecords'[i].wiped = TRUE
           \/ igRecords'[i].old = TRUE
           \/ \A v \in igValues : v.ref = i => \E u \in igValues' : u.ref = i /\ u.val = v.val
    PROVE  IgThere(i)'
BY DEF IgThere, IgEvolves

\* ... and so do the records and requests that say ROUTED.
LEMMA IgRoutedStays ==
    ASSUME IgTyped, IgRouted, IgEvolves, NEW q \in IgRequests, NEW s, IgGo(q, s),
           \A i \in IgIds : IgThere(i) => IgThere(i)',
           \A i \in IgIds : igRecords'[i].route = "ROUTED" => igRecords[i].route = "ROUTED" \/ IgThere(i),
           s.at = "mark" => s.id \in s.todo /\ (s.route = "ROUTED" => IgThere(s.id)')
    PROVE  IgRouted'
<1>1. igRequest'[q] = s /\ \A r \in IgRequests \ {q} : igRequest'[r] = igRequest[r]
  BY IgMoved
<1>2. \A i \in IgIds' : igRecords'[i].route = "ROUTED" => IgThere(i)'
  BY IgSameIds DEF IgRouted
<1> SUFFICES ASSUME NEW r \in IgRequests, NEW b, b = igRequest'[r], b.at = "mark"
             PROVE  b.id \in b.todo /\ (b.route = "ROUTED" => IgThere(b.id)')
  BY <1>2 DEF IgRouted, IgThere
<1>3. CASE r = q
  BY <1>1, <1>3
<1>4. CASE r # q
  <2>1. b = igRequest[r] /\ igRequest[r] \in IgMarks
    BY <1>1, <1>4, IgRequestOf
  <2>2. b.id \in IgIds
    BY <2>1 DEF IgMarks
  <2> QED BY <2>1, <2>2 DEF IgRouted
<1> QED BY <1>3, <1>4

\* What a step of request q has to show.
LEMMA IgInvFrom ==
    ASSUME IgInv, IgEvolves, IgFewer, \A v \in igValues' : IgValueOk(v),
           NEW q \in IgRequests, NEW s \in IgStates, IgGo(q, s),
           \A i \in IgIds : IgThere(i) => IgThere(i)',
           \A i \in IgIds : igRecords'[i].route = "ROUTED" => igRecords[i].route = "ROUTED" \/ IgThere(i),
           s.at = "mark" => s.id \in s.todo /\ (s.route = "ROUTED" => IgThere(s.id)'),
           \A i \in IgIds : IgHonest(i)'
    PROVE  IgInv'
<1>1. IgTyped /\ IgAcceptedIsKept /\ IgRouted
  BY DEF IgInv
<1>2. igRequest' \in [IgRequests -> IgStates]
  BY <1>1 DEF IgTyped, IgGo
<1>3. IgTyped' /\ IgAcceptedIsKept' /\ IgRouted'
  BY <1>1, <1>2, IgTypedStays, IgAcceptedStays, IgRoutedStays
<1>4. \A i \in IgIds' : IgHonest(i)'
  BY IgSameIds
<1> QED BY <1>3, <1>4 DEF IgInv

\* A batch is read.
LEMMA IgBatchInv ==
    ASSUME IgInv, NEW q \in IgRequests, NEW env \in IgEnvironments, NEW id \in IgBatchIds, NEW content \in IgContents,
           IgBatch(q, env, id, content)
    PROVE  IgInv'
<1> DEFINE s == [at |-> "store", env |-> env, id |-> id, content |-> content]
<1>1. IgTyped /\ (\A v \in igValues : IgValueOk(v)) /\ \A i \in IgIds : IgHonest(i) /\ IgRecordOk(igRecords[i])
  BY DEF IgInv, IgTyped
<1>2. IgGo(q, s) /\ igRequest[q].at = "idle" /\ UNCHANGED <<igRecords, igBatches, igValues>>
  BY DEF IgBatch, IgAt
<1>3. s \in IgStates /\ s.at = "store"
  BY DEF IgStates, IgStores
<1> HIDE DEF s
<1>4. IgEvolves
  BY <1>1, <1>2, IgNothingWritten
<1>5. \A i \in IgIds : IgThere(i) => IgThere(i)'
  BY <1>2 DEF IgThere
<1>6. ASSUME NEW i \in IgIds PROVE IgHonest(i)'
  <2>1. ~IgDoes(igRequest[q], i) /\ ~IgDoes(s, i)
    BY <1>2, <1>3 DEF IgDoes
  <2> QED BY <1>1, <1>2, <2>1, IgOthers
<1> QED BY <1>1, <1>2, <1>3, <1>4, <1>5, <1>6, IgInvFrom, IgSameBatches

\* A record that request q works on, if it is not remembered as raced, is q's alone.
LEMMA IgMine ==
    ASSUME NEW q \in IgRequests, NEW i, IgHonest(i), IgDoes(igRequest[q], i), igRecords[i].raced = FALSE
    PROVE  /\ \A r \in IgRequests \ {q} : ~IgDoes(igRequest[r], i)
           /\ IgWorks(igRequest[q], igRecords[i], i, igValues)
           /\ igRecords[i].asked = TRUE => \A v \in igValues : v.ref # i
BY DEF IgHonest

\* A value is sent.
LEMMA IgSendInv ==
    ASSUME IgInv, NEW q \in IgRequests, IgSend(q)
    PROVE  IgInv'
<1> DEFINE todo == igRequest[q].todo
<1>1. IgTyped /\ (\A v \in igValues : IgValueOk(v)) /\ \A i \in IgIds : IgHonest(i) /\ IgRecordOk(igRecords[i])
  BY DEF IgInv, IgTyped
<1>2. igRequest[q].at = "send" /\ UNCHANGED <<igRecords, igBatches>>
  BY DEF IgSend, IgAt
<1>3. todo \subseteq IgIds
  BY <1>1, <1>2, IgRequestOf DEF IgSends
<1>4. PICK i \in todo, stores \in BOOLEAN, answered \in BOOLEAN :
        /\ igValues' = IF stores /\ IgKept(igRecords[i].key) = {}
                       THEN igValues \cup {[key |-> igRecords[i].key, ref |-> i, val |-> igRecords[i].val, hold |-> FALSE]}
                       ELSE igValues
        /\ IgGo(q, [at |-> "mark", todo |-> todo, id |-> i,
                    route |-> IF stores /\ answered /\ IgAccepts(i) THEN "ROUTED" ELSE "ERROR"])
  BY DEF IgSend
<1> DEFINE v0 == [key |-> igRecords[i].key, ref |-> i, val |-> igRecords[i].val, hold |-> FALSE]
<1> DEFINE s == [at |-> "mark", todo |-> todo, id |-> i,
                 route |-> IF stores /\ answered /\ IgAccepts(i) THEN "ROUTED" ELSE "ERROR"]
<1>5. i \in IgIds /\ v0.ref = i /\ v0.val = igRecords[i].val /\ v0.hold = FALSE /\ IgValueOk(v0)
  BY <1>3 DEF IgValueOk
<1>6. /\ igValues \subseteq igValues' /\ igValues' \subseteq igValues \cup {v0}
      /\ stores /\ IgKept(igRecords[i].key) = {} => v0 \in igValues'
  BY <1>4
<1>7. /\ s \in IgStates /\ s.at = "mark" /\ s.todo = todo /\ s.id = i
      /\ s.route = "ROUTED" => stores /\ IgAccepts(i)
  BY <1>3, <1>5 DEF IgStates, IgMarks
<1>8. IgGo(q, s)
  BY <1>4
<1> HIDE DEF s, v0, todo
<1>9. IgEvolves
  BY <1>1, <1>2, IgNothingWritten
<1>10. \A v \in igValues' : IgValueOk(v)
  BY <1>1, <1>5, <1>6
<1>11. \A j \in IgIds : IgThere(j) => IgThere(j)'
  BY <1>2, <1>6 DEF IgThere
<1>12. s.route = "ROUTED" => IgThere(i)'
  <2> SUFFICES ASSUME stores, IgAccepts(i) PROVE \E v \in igValues' : v.ref = i /\ v.val = igRecords[i].val
    BY <1>2, <1>7 DEF IgThere
  <2>1. CASE IgKept(igRecords[i].key) = {}
    BY <1>5, <1>6, <2>1
  <2>2. CASE IgKept(igRecords[i].key) # {}
    <3>1. PICK v \in IgKept(igRecords[i].key) : TRUE
      BY <2>2
    <3>2. v \in igValues
      BY <3>1 DEF IgKept
    <3> QED BY <1>6, <3>1, <3>2 DEF IgAccepts
  <2> QED BY <2>1, <2>2
<1>13. ASSUME NEW j \in IgIds PROVE IgHonest(j)'
  <2> DEFINE x == igRecords[j]
  <2> DEFINE values == igValues'
  <2>1. x = igRecords'[j] /\ values = igValues'
    BY <1>2
  <2>2. CASE j \in todo
    <3>1. IgDoes(igRequest[q], j) /\ IgDoes(s, j)
      BY <1>2, <1>7, <2>2 DEF IgDoes, todo
    <3>2. ASSUME x.raced = FALSE
          PROVE  /\ \A r \in IgRequests \ {q} : ~IgDoes(igRequest[r], j)
                 /\ IgWorks(s, x, j, values) /\ x.asked = FALSE
      <4>1. /\ \A r \in IgRequests \ {q} : ~IgDoes(igRequest[r], j)
            /\ IgWorks(igRequest[q], x, j, igValues)
        BY <1>1, <3>1, <3>2, IgMine
      <4>2. x.hold = FALSE /\ x.asked = FALSE /\ \A v \in igValues : v.ref = j => v.hold = FALSE
        BY <1>2, <4>1 DEF IgWorks
      <4>3. \A v \in values : v.ref = j => v.hold = FALSE
        BY <1>5, <1>6, <4>2
      <4> QED BY <1>7, <4>1, <4>2, <4>3 DEF IgWorks
    <3> HIDE DEF x, values
    <3>3. IgAlone(q, s, j, x, values)
      BY <3>1, <3>2 DEF IgAlone
    <3> QED BY <1>1, <1>8, <2>1, <3>3, IgOwn
  <2>3. CASE j \notin todo
    <3>1. ~IgDoes(igRequest[q], j) /\ ~IgDoes(s, j)
      BY <1>2, <1>7, <2>3 DEF IgDoes, todo
    <3>2. j # i
      BY <2>3, <1>4 DEF todo
    <3>3. \A v \in igValues' : v.ref = j => \E u \in igValues : u.ref = j /\ u.hold = v.hold
      BY <1>5, <1>6, <3>2
    <3> QED BY <1>1, <1>2, <1>8, <3>1, <3>3, IgOthers
  <2> QED BY <2>2, <2>3
<1> QED BY <1>2, <1>7, <1>8, <1>9, <1>10, <1>11, <1>12, <1>13, IgInvFrom, IgSameBatches, <1>4 DEF todo

\* The answer is noted.
LEMMA IgMarkInv ==
    ASSUME IgInv, NEW q \in IgRequests, IgMark(q)
    PROVE  IgInv'
<1> DEFINE todo == igRequest[q].todo
<1> DEFINE i == igRequest[q].id
<1> DEFINE s == IF todo \ {i} = {} THEN IgIdle ELSE [at |-> "send", todo |-> todo \ {i}]
<1> DEFINE x == [igRecords[i] EXCEPT !.route = igRequest[q].route]
<1>1. IgTyped /\ (\A v \in igValues : IgValueOk(v)) /\ \A j \in IgIds : IgHonest(j) /\ IgRecordOk(igRecords[j])
  BY DEF IgInv, IgTyped
<1>2. igRequest[q].at = "mark" /\ UNCHANGED <<igValues, igBatches>> /\ IgGo(q, s) /\ igRecords' = [igRecords EXCEPT ![i] = x]
  BY DEF IgMark, IgAt
<1>3. /\ todo \subseteq IgIds /\ i \in IgIds /\ igRequest[q].route \in {"ROUTED", "ERROR"}
      /\ i \in todo /\ igRequest[q].route = "ROUTED" => IgThere(i)
  BY <1>1, <1>2, IgRequestOf DEF IgMarks, IgInv, IgRouted
<1>4. i \in todo
  BY <1>1, <1>2 DEF IgInv, IgRouted
<1>5. /\ IgRecordOk(x) /\ x.route = igRequest[q].route
      /\ x.env = igRecords[i].env /\ x.key = igRecords[i].key /\ x.val = igRecords[i].val
      /\ x.wiped = igRecords[i].wiped /\ x.old = igRecords[i].old /\ x.hold = igRecords[i].hold
      /\ x.asked = igRecords[i].asked /\ x.stored = igRecords[i].stored /\ x.raced = igRecords[i].raced
  <2>1. IgRecordOk(igRecords[i])
    BY <1>1, <1>3
  <2> QED BY <1>3, <2>1 DEF IgRecordOk
<1>6. /\ s \in IgStates /\ s.at \in {"idle", "send"}
      /\ s.at = "send" => s.todo = todo \ {i}
      /\ s.at = "idle" => todo \ {i} = {}
  BY <1>3 DEF IgStates, IgSends, IgIdle
<1> HIDE DEF s, x
<1>7. IgEvolves /\ igRecords'[i] = x /\ \A j \in IgIds \ {i} : igRecords'[j] = igRecords[j]
  BY <1>1, <1>2, <1>3, <1>5, IgRowWritten
<1>8. \A j \in IgIds : IgThere(j) => IgThere(j)'
  BY <1>1, <1>2, <1>7, IgThereStays
<1>9. \A j \in IgIds : igRecords'[j].route = "ROUTED" => igRecords[j].route = "ROUTED" \/ IgThere(j)
  BY <1>1, <1>2, <1>3, <1>4, <1>5, <1>7 DEF IgInv, IgRouted
<1>10. ASSUME NEW j \in IgIds PROVE IgHonest(j)'
  <2> DEFINE y == igRecords'[j]
  <2> DEFINE values == igValues'
  <2>1. y.hold = igRecords[j].hold /\ y.asked = igRecords[j].asked /\ y.raced = igRecords[j].raced
        /\ y.stored = igRecords[j].stored
    BY <1>5, <1>7
  <2>2. CASE j \in todo
    <3>1. IgDoes(igRequest[q], j)
      BY <1>2, <2>2 DEF IgDoes, todo
    <3>2. ASSUME y.raced = FALSE
          PROVE  /\ \A r \in IgRequests \ {q} : ~IgDoes(igRequest[r], j)
                 /\ y.asked = FALSE /\ y.hold = FALSE /\ \A v \in values : v.ref = j => v.hold = FALSE
      <4>1. /\ \A r \in IgRequests \ {q} : ~IgDoes(igRequest[r], j)
            /\ IgWorks(igRequest[q], igRecords[j], j, igValues)
        BY <1>1, <2>1, <3>1, <3>2, IgMine
      <4> QED BY <1>2, <2>1, <4>1 DEF IgWorks
    <3>3. y = igRecords'[j] /\ values = igValues'
      OBVIOUS
    <3> HIDE DEF y, values
    <3>4. y.raced = FALSE => IgWorks(s, y, j, values) /\ IgRests(y, j, values)
      BY <1>6, <3>2 DEF IgWorks, IgRests
    <3>6. IgTyped /\ IgGo(q, s)
      BY <1>1, <1>2
    <3> HIDE DEF todo, i
    <3>7. IgAlone(q, s, j, y, values)
      BY <3>2, <3>4 DEF IgAlone
    <3> QED BY <3>3, <3>6, <3>7, IgOwn
  <2>3. CASE j \notin todo
    <3>1. ~IgDoes(igRequest[q], j) /\ ~IgDoes(s, j)
      BY <1>2, <1>6, <2>3 DEF IgDoes, todo
    <3> QED BY <1>1, <1>2, <2>1, <3>1, IgOthers
  <2> QED BY <2>2, <2>3
<1>11. s.at # "mark"
  BY <1>6
<1>12. \A v \in igValues' : IgValueOk(v)
  BY <1>1, <1>2
<1> QED BY <1>2, <1>6, <1>7, <1>8, <1>9, <1>10, <1>11, <1>12, IgInvFrom, IgSameBatches

\* The row of record i when a hold or a deletion begins.
IgRacedRow(i) == [igRecords[i] EXCEPT !.raced = @ \/ IgBusy(i) \/ FALSE]
\* Two requests on the record are remembered.
LEMMA IgRacedOf ==
    ASSUME IgTyped, NEW i \in IgIds, NEW x, x = IgRacedRow(i)
    PROVE  /\ IgRecordOk(x) /\ x.route = igRecords[i].route
           /\ x.env = igRecords[i].env /\ x.key = igRecords[i].key /\ x.val = igRecords[i].val
           /\ x.wiped = igRecords[i].wiped /\ x.old = igRecords[i].old /\ x.hold = igRecords[i].hold
           /\ x.asked = igRecords[i].asked /\ x.stored = igRecords[i].stored
           /\ x.raced = FALSE => igRecords[i].raced = FALSE /\ \A r \in IgRequests : ~IgDoes(igRequest[r], i)
<1>1. IgRecordOk(igRecords[i]) /\ IgBusy(i) \in BOOLEAN
  BY DEF IgTyped, IgBusy
<1>2. (igRecords[i].raced \/ IgBusy(i) \/ FALSE) \in BOOLEAN /\ igRecords[i].raced \in BOOLEAN
  BY <1>1 DEF IgRecordOk
<1> DEFINE b == igRecords[i].raced \/ IgBusy(i) \/ FALSE
<1>3. x = [igRecords[i] EXCEPT !.raced = b] /\ b \in BOOLEAN
  BY <1>2 DEF IgRacedRow
<1>4. b = FALSE => igRecords[i].raced = FALSE /\ ~IgBusy(i)
  BY <1>2
<1> HIDE DEF b
<1>5. /\ IgRecordOk(x) /\ x.route = igRecords[i].route
      /\ x.env = igRecords[i].env /\ x.key = igRecords[i].key /\ x.val = igRecords[i].val
      /\ x.wiped = igRecords[i].wiped /\ x.old = igRecords[i].old /\ x.hold = igRecords[i].hold
      /\ x.asked = igRecords[i].asked /\ x.stored = igRecords[i].stored /\ x.raced = b
  BY <1>1, <1>3 DEF IgRecordOk
<1> QED BY <1>4, <1>5, IgBusyOf

\* A hold or a deletion begins.
LEMMA IgBeginsInv ==
    ASSUME IgInv, NEW q \in IgRequests, NEW i \in IgStored, igRequest[q].at = "idle",
           NEW s \in IgStates, IgGo(q, s), s.at \in {"hold impact", "delete impact"}, s.id = i,
           s.at = "delete impact" => igRecords[i].hold = FALSE,
           igRecords' = IgRaced(i, FALSE), UNCHANGED <<igBatches, igValues>>
    PROVE  IgInv'
<1> DEFINE x == [igRecords[i] EXCEPT !.raced = @ \/ IgBusy(i) \/ FALSE]
<1>1. IgTyped /\ (\A v \in igValues : IgValueOk(v)) /\ \A j \in IgIds : IgHonest(j) /\ IgRecordOk(igRecords[j])
  BY DEF IgInv, IgTyped
<1>2. i \in IgIds /\ igRecords[i].stored = TRUE
  BY <1>1, IgRecordOf DEF IgStored
<1>3. igRecords' = [igRecords EXCEPT ![i] = x]
  BY DEF IgRaced
<1>4. /\ IgRecordOk(x) /\ x.route = igRecords[i].route
      /\ x.env = igRecords[i].env /\ x.key = igRecords[i].key /\ x.val = igRecords[i].val
      /\ x.wiped = igRecords[i].wiped /\ x.old = igRecords[i].old /\ x.hold = igRecords[i].hold
      /\ x.asked = igRecords[i].asked /\ x.stored = igRecords[i].stored
      /\ x.raced = FALSE => igRecords[i].raced = FALSE /\ \A r \in IgRequests : ~IgDoes(igRequest[r], i)
  <2>1. x = IgRacedRow(i)
    BY DEF IgRacedRow
  <2>2. IgTyped /\ i \in IgIds
    BY <1>1, <1>2
  <2> HIDE DEF x
  <2> QED BY <2>1, <2>2, IgRacedOf
<1> HIDE DEF x
<1>5. IgEvolves /\ igRecords'[i] = x /\ \A j \in IgIds \ {i} : igRecords'[j] = igRecords[j]
  BY <1>1, <1>2, <1>3, <1>4, IgRowWritten
<1>6. \A j \in IgIds : IgThere(j) => IgThere(j)'
  BY <1>1, <1>5, IgThereStays
<1>7. \A j \in IgIds : igRecords'[j].route = "ROUTED" => igRecords[j].route = "ROUTED" \/ IgThere(j)
  BY <1>4, <1>5
<1>8. ASSUME NEW j \in IgIds PROVE IgHonest(j)'
  <2>1. CASE j = i
    <3>1. IgDoes(s, i)
      BY DEF IgDoes
    <3>2. ASSUME x.raced = FALSE
          PROVE  /\ \A r \in IgRequests \ {q} : ~IgDoes(igRequest[r], i)
                 /\ IgWorks(s, x, i, igValues) /\ (x.asked = TRUE => \A v \in igValues : v.ref # i)
      <4>1. igRecords[i].raced = FALSE /\ \A r \in IgRequests : ~IgDoes(igRequest[r], i)
        BY <1>4, <3>2
      <4>2. /\ IgRests(igRecords[i], i, igValues)
            /\ igRecords[i].asked = TRUE => \A v \in igValues : v.ref # i
        BY <1>1, <1>2, <4>1 DEF IgHonest
      <4>3. \A v \in igValues : v.ref = i => v.hold = igRecords[i].hold
        BY <1>2, <4>2 DEF IgRests
      <4>4. IgWorks(s, x, i, igValues)
        BY <4>3 DEF IgWorks
      <4> QED BY <1>4, <4>1, <4>2, <4>4
    <3> DEFINE values == igValues'
    <3>3. values = igValues' /\ values = igValues
      OBVIOUS
    <3> HIDE DEF values
    <3>4. IgAlone(q, s, i, x, values)
      BY <3>1, <3>2, <3>3 DEF IgAlone
    <3>5. IgTyped /\ x = igRecords'[i]
      BY <1>1, <1>5
    <3>6. IgHonest(i)'
      BY <3>3, <3>4, <3>5, IgOwn
    <3> QED BY <2>1, <3>6
  <2>2. CASE j # i
    <3>1. ~IgDoes(igRequest[q], j) /\ ~IgDoes(s, j)
      BY <2>2 DEF IgDoes
    <3> QED BY <1>1, <1>5, <2>2, <3>1, IgOthers
  <2> QED BY <2>1, <2>2
<1>9. \A v \in igValues' : IgValueOk(v)
  BY <1>1
<1> QED BY <1>5, <1>6, <1>7, <1>8, <1>9, IgInvFrom, IgSameBatches

\* A request goes on with its hold or deletion of record i: what the step has to show.
IgGoesOn(q, i, s, x, values) ==
    /\ IgGo(q, s)
    /\ igRequest[q].at \in {"hold impact", "hold", "delete impact", "delete", "purge"} /\ igRequest[q].id = i
    /\ s.at \in {"idle", "hold", "delete", "purge"} /\ (s.at # "idle" => s.id = i)
    /\ IgEvolves /\ igBatches' = igBatches
    /\ x = igRecords'[i] /\ \A j \in IgIds \ {i} : igRecords'[j] = igRecords[j]
    /\ x.route = igRecords[i].route /\ x.raced = igRecords[i].raced
    /\ values = igValues' /\ \A v \in values : IgValueOk(v)
    /\ \A v \in igValues : v.ref # i => v \in values
    /\ \A v \in values : v.ref # i => v \in igValues
    /\ x.wiped = TRUE \/ \A v \in igValues : v.ref = i => \E u \in values : u.ref = i /\ u.val = v.val
    /\ IgWorks(igRequest[q], igRecords[i], i, igValues)
         /\ (igRecords[i].asked = TRUE => \A v \in igValues : v.ref # i) =>
           /\ IgDoes(s, i) => IgWorks(s, x, i, values)
           /\ ~IgDoes(s, i) => IgRests(x, i, values)
           /\ x.asked = TRUE => \A v \in values : v.ref # i

\* Such a step is all the invariant asks for.
LEMMA IgOneRecord ==
    ASSUME IgInv, NEW q \in IgRequests, NEW i \in IgIds, NEW s \in IgStates, NEW x, NEW values,
           IgGoesOn(q, i, s, x, values)
    PROVE  IgInv'
<1> USE DEF IgGoesOn
<1>1. IgTyped /\ \A j \in IgIds : IgHonest(j)
  BY DEF IgInv
<1>2. IgDoes(igRequest[q], i)
  BY DEF IgDoes
<1>3. \A j \in IgIds : IgThere(j) => IgThere(j)'
  <2> TAKE j \in IgIds
  <2>1. CASE j = i
    BY <1>1, <2>1, IgThereStays
  <2>2. CASE j # i
    BY <1>1, <2>2, IgThereStays
  <2> QED BY <2>1, <2>2
<1>4. \A j \in IgIds : igRecords'[j].route = "ROUTED" => igRecords[j].route = "ROUTED" \/ IgThere(j)
  OBVIOUS
<1>5. IgHonest(i)'
  <2>1. x.raced = FALSE =>
          /\ \A r \in IgRequests \ {q} : ~IgDoes(igRequest[r], i)
          /\ IgDoes(s, i) => IgWorks(s, x, i, values)
          /\ ~IgDoes(s, i) => IgRests(x, i, values)
          /\ x.asked = TRUE => \A v \in values : v.ref # i
    <3> SUFFICES ASSUME x.raced = FALSE
                 PROVE  /\ \A r \in IgRequests \ {q} : ~IgDoes(igRequest[r], i)
                        /\ IgDoes(s, i) => IgWorks(s, x, i, values)
                        /\ ~IgDoes(s, i) => IgRests(x, i, values)
                        /\ x.asked = TRUE => \A v \in values : v.ref # i
      OBVIOUS
    <3>1. /\ \A r \in IgRequests \ {q} : ~IgDoes(igRequest[r], i)
          /\ IgWorks(igRequest[q], igRecords[i], i, igValues)
          /\ igRecords[i].asked = TRUE => \A v \in igValues : v.ref # i
      BY <1>1, <1>2, IgMine
    <3> QED BY <3>1
  <2>2. IgTyped /\ IgGo(q, s) /\ x = igRecords'[i] /\ values = igValues'
    BY <1>1
  <2> HIDE DEF IgGoesOn
  <2>3. IgAlone(q, s, i, x, values)
    BY <2>1 DEF IgAlone
  <2> QED BY <2>2, <2>3, IgOwn
<1>7. ASSUME NEW j \in IgIds PROVE IgHonest(j)'
  <2>1. CASE j = i
    BY <1>5, <2>1
  <2>2. CASE j # i
    <3>1. ~IgDoes(igRequest[q], j) /\ ~IgDoes(s, j)
      BY <2>2 DEF IgDoes
    <3>2. \A v \in igValues' : v.ref = j => \E u \in igValues : u.ref = j /\ u.hold = v.hold
      BY <2>2
    <3> QED BY <1>1, <2>2, <3>1, <3>2, IgOthers
  <2> QED BY <2>1, <2>2
<1>6. s.at # "mark" /\ \A v \in igValues' : IgValueOk(v)
  OBVIOUS
<1> QED BY <1>3, <1>4, <1>6, <1>7, IgInvFrom, IgSameBatches

\* A hold begins.
LEMMA IgHoldInv ==
    ASSUME IgInv, NEW q \in IgRequests, NEW i \in IgIds, NEW held \in BOOLEAN, IgHold(q, i, held)
    PROVE  IgInv'
<1> DEFINE s == [at |-> "hold impact", id |-> i, held |-> held]
<1>1. /\ igRequest[q].at = "idle" /\ IgGo(q, s) /\ i \in IgStored
      /\ igRecords' = IgRaced(i, FALSE) /\ UNCHANGED <<igBatches, igValues>>
  BY DEF IgHold, IgAt
<1>2. s \in IgStates /\ s.at = "hold impact" /\ s.id = i
  BY DEF IgStates, IgHolds
<1> HIDE DEF s
<1>3. s.at \in {"hold impact", "delete impact"} /\ s.at # "delete impact"
  BY <1>2
<1> QED BY <1>1, <1>2, <1>3, IgBeginsInv

\* A deletion begins, of a record without a hold.
LEMMA IgDeleteInv ==
    ASSUME IgInv, NEW q \in IgRequests, NEW i \in IgIds, IgDelete(q, i)
    PROVE  IgInv'
<1> DEFINE s == [at |-> "delete impact", id |-> i]
<1>1. /\ igRequest[q].at = "idle" /\ IgGo(q, s) /\ i \in IgStored /\ ~igRecords[i].hold
      /\ igRecords' = IgRaced(i, FALSE) /\ UNCHANGED <<igBatches, igValues>>
  BY DEF IgDelete, IgAt
<1>2. s \in IgStates /\ s.at = "delete impact" /\ s.id = i
  BY DEF IgStates, IgDeletes
<1> HIDE DEF s
<1>3. igRecords[i].hold = FALSE
  <2>1. IgRecordOk(igRecords[i])
    BY DEF IgInv, IgTyped
  <2> QED BY <1>1, <2>1, IgRecordOf
<1>4. s.at \in {"hold impact", "delete impact"}
  BY <1>2
<1> QED BY <1>1, <1>2, <1>3, <1>4, IgBeginsInv

\* The hold reaches Impact: all values of the record take it.
LEMMA IgHoldImpactInv ==
    ASSUME IgInv, NEW q \in IgRequests, IgHoldImpact(q)
    PROVE  IgInv'
<1> DEFINE r == igRequest[q]
<1> DEFINE i == r.id
<1> DEFINE s == [r EXCEPT !.at = "hold"]
<1> DEFINE values == {IF v.ref = i THEN [v EXCEPT !.hold = r.held] ELSE v : v \in igValues}
<1>1. IgTyped /\ (\A v \in igValues : IgValueOk(v)) /\ \A j \in IgIds : IgRecordOk(igRecords[j])
  BY DEF IgInv, IgTyped
<1>2. r.at = "hold impact" /\ IgGo(q, s) /\ igValues' = values /\ UNCHANGED <<igRecords, igBatches>>
  BY DEF IgHoldImpact, IgAt
<1>3. r \in IgHolds
  BY <1>1, <1>2, IgRequestOf
<1>4. i \in IgIds /\ r.held \in BOOLEAN
  BY <1>3 DEF IgHolds
<1>5. s \in IgStates /\ s.at = "hold" /\ s.id = i /\ s.held = r.held
  BY <1>3 DEF IgStates, IgHolds
<1>6. /\ \A v \in values : IgValueOk(v)
      /\ \A v \in igValues : v.ref # i => v \in values
      /\ \A v \in values : v.ref # i => v \in igValues
      /\ \A v \in igValues : v.ref = i => \E u \in values : u.ref = i /\ u.val = v.val
      /\ \A v \in values : v.ref = i => v.hold = r.held
  <2>1. ASSUME NEW v \in igValues, v.ref = i
        PROVE  LET w == [v EXCEPT !.hold = r.held] IN
               w \in values /\ IgValueOk(w) /\ w.ref = i /\ w.val = v.val /\ w.hold = r.held
    <3>1. IgValueOk(v) /\ [v EXCEPT !.hold = r.held] \in values
      BY <1>1, <2>1
    <3> HIDE DEF values
    <3> QED BY <1>4, <2>1, <3>1 DEF IgValueOk
  <2>2. ASSUME NEW v \in values
        PROVE  \E w \in igValues : v = IF w.ref = i THEN [w EXCEPT !.hold = r.held] ELSE w
    BY <2>2
  <2>3. \A v \in igValues : v.ref # i => v \in values
    OBVIOUS
  <2> HIDE DEF values
  <2>4. ASSUME NEW v \in values
        PROVE  IgValueOk(v) /\ (v.ref # i => v \in igValues) /\ (v.ref = i => v.hold = r.held)
    <3>1. PICK w \in igValues : v = IF w.ref = i THEN [w EXCEPT !.hold = r.held] ELSE w
      BY <2>2, <2>4
    <3>2. CASE w.ref = i
      BY <2>1, <3>1, <3>2
    <3>3. CASE w.ref # i
      BY <1>1, <3>1, <3>3
    <3> QED BY <3>2, <3>3
  <2> QED BY <2>1, <2>3, <2>4
<1>7. IgEvolves
  BY <1>1, <1>2, IgNothingWritten
<1> DEFINE x == igRecords[i]
<1>8. x = igRecords'[i] /\ x.route = igRecords[i].route /\ x.raced = igRecords[i].raced
      /\ \A j \in IgIds \ {i} : igRecords'[j] = igRecords[j]
  BY <1>2
<1> HIDE DEF s, values
<1>9. IgWorks(igRequest[q], igRecords[i], i, igValues)
        /\ (igRecords[i].asked = TRUE => \A v \in igValues : v.ref # i) =>
          /\ IgDoes(s, i) => IgWorks(s, x, i, values)
          /\ ~IgDoes(s, i) => IgRests(x, i, values)
          /\ x.asked = TRUE => \A v \in values : v.ref # i
  <2>1. IgDoes(s, i) /\ IgWorks(s, x, i, values)
    BY <1>5, <1>6 DEF IgDoes, IgWorks
  <2>2. \A v \in values : v.ref = i => \E w \in igValues : w.ref = i
    BY DEF values
  <2> QED BY <2>1, <2>2
<1>10. igRequest[q].at \in {"hold impact", "hold", "delete impact", "delete", "purge"} /\ s.at \in {"idle", "hold", "delete", "purge"}
  BY <1>2, <1>5
<1>11. /\ values = igValues' /\ igBatches' = igBatches /\ igRequest[q].id = i
       /\ x.wiped = TRUE \/ \A v \in igValues : v.ref = i => \E u \in values : u.ref = i /\ u.val = v.val
  BY <1>2, <1>6
<1> HIDE DEF x, r, i
<1>20. IgGoesOn(q, i, s, x, values)
  BY <1>1, <1>2, <1>4, <1>5, <1>6, <1>7, <1>8, <1>9, <1>10, <1>11 DEF IgGoesOn
<1> QED BY <1>20, <1>4, <1>5, IgOneRecord

\* The hold reaches the record, which may have been purged in between.
LEMMA IgHoldRecordInv ==
    ASSUME IgInv, NEW q \in IgRequests, IgHoldRecord(q)
    PROVE  IgInv'
<1> DEFINE r == igRequest[q]
<1> DEFINE i == r.id
<1> DEFINE x == igRecords'[i]
<1> DEFINE y == [igRecords[i] EXCEPT !.hold = r.held]
<1> DEFINE values == igValues'
<1>1. IgTyped /\ (\A v \in igValues : IgValueOk(v)) /\ \A j \in IgIds : IgRecordOk(igRecords[j])
  BY DEF IgInv, IgTyped
<1>2. /\ r.at = "hold" /\ IgGo(q, IgIdle) /\ UNCHANGED <<igBatches, igValues>>
      /\ igRecords' = IF igRecords[i].stored THEN [igRecords EXCEPT ![i] = y] ELSE igRecords
  BY DEF IgHoldRecord, IgAt
<1>3. r \in IgHolds
  BY <1>1, <1>2, IgRequestOf
<1>4. i \in IgIds /\ r.held \in BOOLEAN
  BY <1>3 DEF IgHolds
<1>5. /\ IgRecordOk(y) /\ y.hold = r.held /\ y.route = igRecords[i].route /\ y.raced = igRecords[i].raced
      /\ y.env = igRecords[i].env /\ y.key = igRecords[i].key /\ y.val = igRecords[i].val
      /\ y.wiped = igRecords[i].wiped /\ y.old = igRecords[i].old /\ y.asked = igRecords[i].asked
      /\ y.stored = igRecords[i].stored
  <2>1. IgRecordOk(igRecords[i])
    BY <1>1, <1>4
  <2> QED BY <1>4, <2>1 DEF IgRecordOk
<1> HIDE DEF y
<1>6. /\ IgEvolves /\ \A j \in IgIds \ {i} : igRecords'[j] = igRecords[j]
      /\ IF igRecords[i].stored THEN x = y ELSE x = igRecords[i]
  <2>1. CASE igRecords[i].stored
    BY <1>1, <1>2, <1>4, <1>5, <2>1, IgRowWritten
  <2>2. CASE ~igRecords[i].stored
    BY <1>1, <1>2, <2>2, IgNothingWritten
  <2> QED BY <2>1, <2>2
<1>7. /\ x.route = igRecords[i].route /\ x.raced = igRecords[i].raced /\ x.asked = igRecords[i].asked
      /\ x.stored = TRUE => x.hold = r.held
  <2>1. igRecords[i].stored \in BOOLEAN
    BY <1>1, <1>4, IgRecordOf
  <2> QED BY <1>5, <1>6, <2>1
<1>8. IgIdle \in IgStates /\ IgIdle.at = "idle" /\ ~IgDoes(IgIdle, i)
  BY DEF IgStates, IgIdle, IgDoes
<1>9. x = igRecords'[i] /\ values = igValues' /\ values = igValues
  BY <1>2
<1> HIDE DEF x, values
<1>10. IgWorks(igRequest[q], igRecords[i], i, igValues) => IgRests(x, i, values)
  BY <1>2, <1>7, <1>9 DEF IgWorks, IgRests
<1>11. /\ igRequest[q].at \in {"hold impact", "hold", "delete impact", "delete", "purge"} /\ igRequest[q].id = i
       /\ \A v \in igValues : v.ref = i => \E u \in values : u.ref = i /\ u.val = v.val
  BY <1>2, <1>9
<1>12. IgWorks(igRequest[q], igRecords[i], i, igValues)
         /\ (igRecords[i].asked = TRUE => \A v \in igValues : v.ref # i) =>
           /\ IgDoes(IgIdle, i) => IgWorks(IgIdle, x, i, values)
           /\ ~IgDoes(IgIdle, i) => IgRests(x, i, values)
           /\ x.asked = TRUE => \A v \in values : v.ref # i
  BY <1>7, <1>8, <1>9, <1>10
<1>13. IgGo(q, IgIdle) /\ igBatches' = igBatches
  BY <1>2
<1> DEFINE s == IgIdle
<1> HIDE DEF r, i, s
<1>14. /\ s \in IgStates /\ IgGo(q, s) /\ s.at \in {"idle", "hold", "delete", "purge"} /\ s.at = "idle"
       /\ IgWorks(igRequest[q], igRecords[i], i, igValues)
            /\ (igRecords[i].asked = TRUE => \A v \in igValues : v.ref # i) =>
              /\ IgDoes(s, i) => IgWorks(s, x, i, values)
              /\ ~IgDoes(s, i) => IgRests(x, i, values)
              /\ x.asked = TRUE => \A v \in values : v.ref # i
  BY <1>8, <1>12, <1>13 DEF s
<1>20. IgGoesOn(q, i, s, x, values)
  BY <1>1, <1>4, <1>6, <1>7, <1>9, <1>11, <1>13, <1>14 DEF IgGoesOn
<1> QED BY <1>20, <1>4, <1>14, IgOneRecord

\* The deletion reaches Impact: no value without a hold is left.
LEMMA IgDeleteImpactInv ==
    ASSUME IgInv, NEW q \in IgRequests, IgDeleteImpact(q)
    PROVE  IgInv'
<1> DEFINE r == igRequest[q]
<1> DEFINE i == r.id
<1> DEFINE s == [r EXCEPT !.at = "delete"]
<1> DEFINE x == [igRecords[i] EXCEPT !.wiped = TRUE]
<1> DEFINE values == igValues'
<1>1. IgTyped /\ (\A v \in igValues : IgValueOk(v)) /\ \A j \in IgIds : IgRecordOk(igRecords[j])
  BY DEF IgInv, IgTyped
<1>2. /\ r.at = "delete impact" /\ IgGo(q, s) /\ igBatches' = igBatches
      /\ igValues' = {v \in igValues : v.ref # i \/ v.hold} /\ igRecords' = [igRecords EXCEPT ![i] = x]
  BY DEF IgDeleteImpact, IgAt
<1>3. r \in IgDeletes
  BY <1>1, <1>2, IgRequestOf
<1>4. i \in IgIds
  BY <1>3 DEF IgDeletes
<1>5. s \in IgStates /\ s.at = "delete" /\ s.id = i
  BY <1>3 DEF IgStates, IgDeletes
<1>6. /\ IgRecordOk(x) /\ x.wiped = TRUE /\ x.hold = igRecords[i].hold /\ x.route = igRecords[i].route
      /\ x.raced = igRecords[i].raced /\ x.asked = igRecords[i].asked /\ x.old = igRecords[i].old
      /\ x.env = igRecords[i].env /\ x.key = igRecords[i].key /\ x.val = igRecords[i].val
  <2>1. IgRecordOk(igRecords[i])
    BY <1>1, <1>4
  <2> QED BY <2>1 DEF IgRecordOk
<1>7. /\ values = igValues' /\ (\A v \in values : IgValueOk(v))
      /\ \A v \in igValues : v.ref # i => v \in values
      /\ \A v \in values : v \in igValues /\ (v.ref # i \/ v.hold)
  BY <1>1, <1>2
<1> HIDE DEF x, values, s
<1>8. IgEvolves /\ igRecords'[i] = x /\ \A j \in IgIds \ {i} : igRecords'[j] = igRecords[j]
  BY <1>1, <1>2, <1>4, <1>6, IgRowWritten
<1>9. IgWorks(igRequest[q], igRecords[i], i, igValues)
        /\ (igRecords[i].asked = TRUE => \A v \in igValues : v.ref # i) =>
          /\ IgDoes(s, i) => IgWorks(s, x, i, values)
          /\ ~IgDoes(s, i) => IgRests(x, i, values)
          /\ x.asked = TRUE => \A v \in values : v.ref # i
  <2>1. IgWorks(igRequest[q], igRecords[i], i, igValues) => \A v \in values : v.ref # i
    BY <1>2, <1>7 DEF IgWorks
  <2>2. (\A v \in values : v.ref # i) => IgWorks(s, x, i, values)
    BY <1>5 DEF IgWorks
  <2>3. IgDoes(s, i)
    BY <1>5 DEF IgDoes
  <2> QED BY <2>1, <2>2, <2>3
<1>10. /\ igRequest[q].at \in {"hold impact", "hold", "delete impact", "delete", "purge"} /\ igRequest[q].id = i
       /\ s.at \in {"idle", "hold", "delete", "purge"}
  BY <1>2, <1>5
<1> HIDE DEF r, i
<1>20. IgGoesOn(q, i, s, x, values)
  BY <1>1, <1>2, <1>4, <1>5, <1>6, <1>7, <1>8, <1>9, <1>10 DEF IgGoesOn
<1> QED BY <1>20, <1>4, <1>5, IgOneRecord

\* The deletion is noted in the record, unless it was purged or put under hold meanwhile.
LEMMA IgDeleteRecordInv ==
    ASSUME IgInv, NEW q \in IgRequests, IgDeleteRecord(q)
    PROVE  IgInv'
<1> DEFINE r == igRequest[q]
<1> DEFINE i == r.id
<1> DEFINE x == igRecords'[i]
<1> DEFINE y == [igRecords[i] EXCEPT !.asked = TRUE]
<1> DEFINE p == [r EXCEPT !.at = "purge"]
<1> DEFINE values == igValues'
<1>1. IgTyped /\ (\A v \in igValues : IgValueOk(v)) /\ \A j \in IgIds : IgRecordOk(igRecords[j])
  BY DEF IgInv, IgTyped
<1>2. /\ r.at = "delete" /\ UNCHANGED <<igBatches, igValues>>
      /\ \/ IgGo(q, p) /\ igRecords' = [igRecords EXCEPT ![i] = y]
         \/ IgGo(q, IgIdle) /\ igRecords' = igRecords
  BY DEF IgDeleteRecord, IgAt
<1>3. r \in IgDeletes
  BY <1>1, <1>2, IgRequestOf
<1>4. i \in IgIds
  BY <1>3 DEF IgDeletes
<1>5. p \in IgStates /\ p.at = "purge" /\ p.id = i
  BY <1>3 DEF IgStates, IgDeletes
<1>6. IgIdle \in IgStates /\ IgIdle.at = "idle"
  BY DEF IgStates, IgIdle
<1>7. /\ IgRecordOk(y) /\ y.wiped = igRecords[i].wiped /\ y.old = igRecords[i].old /\ y.route = igRecords[i].route
      /\ y.raced = igRecords[i].raced
      /\ y.env = igRecords[i].env /\ y.key = igRecords[i].key /\ y.val = igRecords[i].val
  <2>1. IgRecordOk(igRecords[i])
    BY <1>1, <1>4
  <2> QED BY <2>1 DEF IgRecordOk
<1> HIDE DEF y, p
<1>8. PICK s \in {p, IgIdle} : IgGo(q, s)
  BY <1>2
<1>9. s \in IgStates /\ s.at \in {"idle", "purge"} /\ (s.at # "idle" => s.id = i)
  BY <1>5, <1>6, <1>8
<1>10. /\ IgEvolves /\ \A j \in IgIds \ {i} : igRecords'[j] = igRecords[j]
       /\ x.route = igRecords[i].route /\ x.raced = igRecords[i].raced
  <2>1. CASE igRecords' = [igRecords EXCEPT ![i] = y]
    <3>1. IgEvolves /\ igRecords'[i] = y /\ \A j \in IgIds \ {i} : igRecords'[j] = igRecords[j]
      <4> HIDE DEF i
      <4> QED BY <1>1, <1>4, <1>7, <2>1, IgRowWritten
    <3> QED BY <1>7, <3>1
  <2>2. CASE igRecords' = igRecords
    BY <1>1, <2>2, IgNothingWritten
  <2> QED BY <1>2, <2>1, <2>2
<1>11. x = igRecords'[i] /\ values = igValues' /\ values = igValues
  BY <1>2
<1> HIDE DEF x, values
<1>12. IgWorks(igRequest[q], igRecords[i], i, igValues)
         /\ (igRecords[i].asked = TRUE => \A v \in igValues : v.ref # i) =>
           /\ IgDoes(s, i) => IgWorks(s, x, i, values)
           /\ ~IgDoes(s, i) => IgRests(x, i, values)
           /\ x.asked = TRUE => \A v \in values : v.ref # i
  <2>1. IgWorks(igRequest[q], igRecords[i], i, igValues) => \A v \in values : v.ref # i
    BY <1>2, <1>11 DEF IgWorks
  <2>2. (\A v \in values : v.ref # i) => IgWorks(s, x, i, values) /\ IgRests(x, i, values)
    BY <1>9 DEF IgWorks, IgRests
  <2> QED BY <2>1, <2>2
<1>13. /\ igRequest[q].at \in {"hold impact", "hold", "delete impact", "delete", "purge"} /\ igRequest[q].id = i
       /\ s.at \in {"idle", "hold", "delete", "purge"} /\ igBatches' = igBatches
       /\ \A v \in igValues : v.ref = i => \E u \in values : u.ref = i /\ u.val = v.val
       /\ \A v \in values : IgValueOk(v)
  BY <1>1, <1>2, <1>9, <1>11
<1> HIDE DEF r, i
<1>20. IgGoesOn(q, i, s, x, values)
  BY <1>1, <1>4, <1>8, <1>9, <1>10, <1>11, <1>12, <1>13 DEF IgGoesOn
<1> QED BY <1>20, <1>4, <1>9, IgOneRecord

\* What the purge leaves of the records: only `stored` changes.
LEMMA IgPurgedOf ==
    ASSUME IgTyped, igRecords' = IgPurged
    PROVE  /\ IgEvolves
           /\ \A i \in IgIds :
                 /\ igRecords'[i].route = igRecords[i].route /\ igRecords'[i].raced = igRecords[i].raced
                 /\ igRecords'[i].hold = igRecords[i].hold /\ igRecords'[i].asked = igRecords[i].asked
                 /\ igRecords'[i].stored = TRUE => igRecords[i].stored = TRUE
<1> DEFINE after(i) == [igRecords[i] EXCEPT !.stored = @ /\ ~(~igRecords[i].hold /\ (igRecords[i].asked \/ igRecords[i].old))]
<1>1. igRecords' = [i \in IgIds |-> after(i)]
  BY DEF IgPurged
<1>2. ASSUME NEW i \in IgIds, NEW x, x = after(i)
      PROVE  /\ IgRecordOk(x) /\ x.route = igRecords[i].route /\ x.raced = igRecords[i].raced
             /\ x.env = igRecords[i].env /\ x.key = igRecords[i].key /\ x.val = igRecords[i].val
             /\ x.wiped = igRecords[i].wiped /\ x.old = igRecords[i].old /\ x.hold = igRecords[i].hold
             /\ x.asked = igRecords[i].asked /\ (x.stored = TRUE => igRecords[i].stored = TRUE)
  <2>1. IgRecordOk(igRecords[i])
    BY DEF IgTyped
  <2> DEFINE b == igRecords[i].stored /\ ~(~igRecords[i].hold /\ (igRecords[i].asked \/ igRecords[i].old))
  <2>2. b \in BOOLEAN /\ igRecords[i].stored \in BOOLEAN
    BY <2>1, IgRecordOf
  <2>3. b = TRUE => igRecords[i].stored = TRUE
    BY <2>2
  <2>4. x = [igRecords[i] EXCEPT !.stored = b]
    BY <1>2
  <2> HIDE DEF b
  <2>5. /\ IgRecordOk(x) /\ x.route = igRecords[i].route /\ x.raced = igRecords[i].raced
        /\ x.env = igRecords[i].env /\ x.key = igRecords[i].key /\ x.val = igRecords[i].val
        /\ x.wiped = igRecords[i].wiped /\ x.old = igRecords[i].old /\ x.hold = igRecords[i].hold
        /\ x.asked = igRecords[i].asked /\ x.stored = b
    BY <2>1, <2>2, <2>4 DEF IgRecordOk
  <2> QED BY <2>3, <2>5
<1> HIDE DEF after
<1>3. igRecords' = [i \in IgIds |-> igRecords'[i]] /\ \A i \in IgIds : igRecords'[i] = after(i)
  BY <1>1
<1>4. ASSUME NEW i \in IgIds, NEW x, x = igRecords'[i]
      PROVE  /\ IgRecordOk(x) /\ x.route = igRecords[i].route /\ x.raced = igRecords[i].raced
             /\ x.env = igRecords[i].env /\ x.key = igRecords[i].key /\ x.val = igRecords[i].val
             /\ x.wiped = igRecords[i].wiped /\ x.old = igRecords[i].old /\ x.hold = igRecords[i].hold
             /\ x.asked = igRecords[i].asked /\ (x.stored = TRUE => igRecords[i].stored = TRUE)
  <2>1. x = after(i)
    BY <1>3, <1>4
  <2> QED BY <1>2, <2>1
<1> QED BY <1>3, <1>4 DEF IgEvolves

\* The purge at the end of a deletion.
LEMMA IgPurgeInv ==
    ASSUME IgInv, NEW q \in IgRequests, IgPurge(q)
    PROVE  IgInv'
<1> DEFINE s == IgIdle
<1>1. IgTyped /\ (\A v \in igValues : IgValueOk(v)) /\ \A j \in IgIds : IgHonest(j)
  BY DEF IgInv, IgTyped
<1>2. igRequest[q].at = "purge" /\ IgGo(q, s) /\ igRecords' = IgPurged /\ igValues' = igValues /\ IgFewer
  BY IgPurgesFewer DEF IgPurge, IgPurges, IgAt
<1>3. s \in IgStates /\ s.at = "idle"
  BY DEF IgStates, IgIdle
<1> HIDE DEF s
<1>4. IgEvolves
  BY <1>1, <1>2, IgPurgedOf
<1>5. \A i \in IgIds : igRecords'[i].route = igRecords[i].route
  BY <1>1, <1>2, IgPurgedOf
<1>6. \A i \in IgIds : IgThere(i) => IgThere(i)'
  BY <1>1, <1>2, <1>4, IgThereStays
<1>7. ASSUME NEW j \in IgIds PROVE IgHonest(j)'
  <2> DEFINE x == igRecords'[j]
  <2> DEFINE values == igValues'
  <2>1. x.raced = igRecords[j].raced /\ x.hold = igRecords[j].hold /\ x.asked = igRecords[j].asked
        /\ (x.stored = TRUE => igRecords[j].stored = TRUE)
    BY <1>1, <1>2, IgPurgedOf
  <2>2. x = igRecords'[j] /\ values = igValues' /\ values = igValues
    BY <1>2
  <2> HIDE DEF x, values
  <2>3. ~IgDoes(s, j)
    BY <1>3 DEF IgDoes
  <2>4. CASE IgDoes(igRequest[q], j)
    <3>1. ASSUME x.raced = FALSE
          PROVE  /\ \A r \in IgRequests \ {q} : ~IgDoes(igRequest[r], j)
                 /\ IgRests(x, j, values) /\ (x.asked = TRUE => \A v \in values : v.ref # j)
      <4>1. /\ \A r \in IgRequests \ {q} : ~IgDoes(igRequest[r], j)
            /\ IgWorks(igRequest[q], igRecords[j], j, igValues)
        BY <1>1, <2>1, <2>4, <3>1, IgMine
      <4>2. \A v \in values : v.ref # j
        BY <1>2, <2>2, <4>1 DEF IgWorks
      <4> QED BY <4>1, <4>2 DEF IgRests
    <3>2. IgAlone(q, s, j, x, values)
      BY <2>3, <3>1 DEF IgAlone
    <3> QED BY <1>1, <1>2, <2>2, <3>2, IgOwn
  <2>5. CASE ~IgDoes(igRequest[q], j)
    BY <1>1, <1>2, <2>1, <2>2, <2>3, <2>5, IgOthers
  <2> QED BY <2>4, <2>5
<1>8. s.at # "mark" /\ \A v \in igValues' : IgValueOk(v)
  BY <1>1, <1>2, <1>3
<1> QED BY <1>2, <1>3, <1>4, <1>5, <1>6, <1>7, <1>8, IgInvFrom

\* A request is dropped: a hold or deletion it left halfway is remembered.
LEMMA IgDroppedInv ==
    ASSUME IgInv, NEW q \in IgRequests, IgDropped(q)
    PROVE  IgInv'
<1> DEFINE s == IgIdle
<1> DEFINE half(i) == i \in IgWorksOn(q) /\ igRequest[q].at \notin {"send", "mark"}
<1> DEFINE after(i) == [igRecords[i] EXCEPT !.raced = @ \/ half(i)]
<1>1. IgTyped /\ (\A v \in igValues : IgValueOk(v)) /\ \A j \in IgIds : IgHonest(j) /\ IgRecordOk(igRecords[j])
  BY DEF IgInv, IgTyped
<1>2. IgGo(q, s) /\ igRecords' = [i \in IgIds |-> after(i)] /\ UNCHANGED <<igBatches, igValues>>
  BY DEF IgDropped
<1>3. s \in IgStates /\ s.at = "idle"
  BY DEF IgStates, IgIdle
<1>4. \A i : half(i) <=> IgDoes(igRequest[q], i) /\ igRequest[q].at \notin {"send", "mark"}
  BY <1>1, IgDoesOf
<1> HIDE DEF s, half
<1>5. ASSUME NEW i \in IgIds, NEW x, x = after(i)
      PROVE  /\ IgRecordOk(x) /\ x.route = igRecords[i].route
             /\ x.env = igRecords[i].env /\ x.key = igRecords[i].key /\ x.val = igRecords[i].val
             /\ x.wiped = igRecords[i].wiped /\ x.old = igRecords[i].old /\ x.hold = igRecords[i].hold
             /\ x.asked = igRecords[i].asked /\ x.stored = igRecords[i].stored
             /\ x.raced = FALSE => igRecords[i].raced = FALSE /\ ~half(i)
  <2>1. IgRecordOk(igRecords[i])
    BY <1>1
  <2> DEFINE b == igRecords[i].raced \/ half(i)
  <2>2. b \in BOOLEAN /\ igRecords[i].raced \in BOOLEAN
    BY <2>1, IgRecordOf
  <2>3. b = FALSE => igRecords[i].raced = FALSE /\ ~half(i)
    BY <2>2
  <2>4. x = [igRecords[i] EXCEPT !.raced = b]
    BY <1>5
  <2> HIDE DEF b
  <2>5. /\ IgRecordOk(x) /\ x.route = igRecords[i].route
        /\ x.env = igRecords[i].env /\ x.key = igRecords[i].key /\ x.val = igRecords[i].val
        /\ x.wiped = igRecords[i].wiped /\ x.old = igRecords[i].old /\ x.hold = igRecords[i].hold
        /\ x.asked = igRecords[i].asked /\ x.stored = igRecords[i].stored /\ x.raced = b
    BY <2>1, <2>2, <2>4 DEF IgRecordOk
  <2> QED BY <2>3, <2>5
<1> HIDE DEF after
<1>6. igRecords' = [i \in IgIds |-> igRecords'[i]] /\ \A i \in IgIds : igRecords'[i] = after(i)
  BY <1>2
<1>7. IgEvolves
  BY <1>5, <1>6 DEF IgEvolves
<1>8. \A i \in IgIds : IgThere(i) => IgThere(i)'
  BY <1>1, <1>2, <1>7, IgThereStays
<1>9. \A i \in IgIds : igRecords'[i].route = igRecords[i].route
  BY <1>5, <1>6
<1>10. ASSUME NEW j \in IgIds PROVE IgHonest(j)'
  <2> DEFINE x == igRecords'[j]
  <2> DEFINE values == igValues'
  <2>1. /\ x.hold = igRecords[j].hold /\ x.asked = igRecords[j].asked /\ x.stored = igRecords[j].stored
        /\ x.raced = FALSE => igRecords[j].raced = FALSE /\ ~half(j)
    BY <1>5, <1>6
  <2>2. x = igRecords'[j] /\ values = igValues' /\ values = igValues
    BY <1>2
  <2> HIDE DEF x, values
  <2>3. ~IgDoes(s, j)
    BY <1>3 DEF IgDoes
  <2>4. CASE IgDoes(igRequest[q], j)
    <3>1. ASSUME x.raced = FALSE
          PROVE  /\ \A r \in IgRequests \ {q} : ~IgDoes(igRequest[r], j)
                 /\ IgRests(x, j, values) /\ (x.asked = TRUE => \A v \in values : v.ref # j)
      <4>1. /\ \A r \in IgRequests \ {q} : ~IgDoes(igRequest[r], j)
            /\ IgWorks(igRequest[q], igRecords[j], j, igValues)
            /\ igRecords[j].asked = TRUE => \A v \in igValues : v.ref # j
        BY <1>1, <2>1, <2>4, <3>1, IgMine
      <4>2. igRequest[q].at \in {"send", "mark"}
        BY <1>4, <2>1, <2>4, <3>1
      <4>3. igRecords[j].hold = FALSE /\ \A v \in igValues : v.ref = j => v.hold = FALSE
        BY <4>1, <4>2 DEF IgWorks
      <4>4. IgRests(x, j, values)
        BY <2>1, <2>2, <4>3 DEF IgRests
      <4> QED BY <2>1, <2>2, <4>1, <4>4
    <3>2. IgTyped /\ IgGo(q, s) /\ q \in IgRequests
      BY <1>1, <1>2
    <3>3. IgAlone(q, s, j, x, values)
      BY <2>3, <3>1 DEF IgAlone
    <3> QED BY <3>2, <2>2, <3>3, IgOwn
  <2>5. CASE ~IgDoes(igRequest[q], j)
    BY <1>1, <1>2, <2>1, <2>2, <2>3, <2>5, IgOthers
  <2> QED BY <2>4, <2>5
<1>11. s.at # "mark" /\ \A v \in igValues' : IgValueOk(v)
  BY <1>1, <1>2, <1>3
<1> QED BY <1>2, <1>3, <1>7, <1>8, <1>9, <1>10, <1>11, IgInvFrom, IgSameBatches

\* A step of no request: what it has to show.
LEMMA IgStillInv ==
    ASSUME IgInv, IgEvolves, IgFewer, igRequest' = igRequest, \A v \in igValues' : IgValueOk(v),
           \A i \in IgIds : IgThere(i) => IgThere(i)',
           \A i \in IgIds :
              /\ igRecords'[i].route = igRecords[i].route /\ igRecords'[i].raced = igRecords[i].raced
              /\ igRecords'[i].hold = igRecords[i].hold /\ igRecords'[i].asked = igRecords[i].asked
              /\ igRecords'[i].stored = TRUE => igRecords[i].stored = TRUE,
           igValues' \subseteq igValues
    PROVE  IgInv'
<1>1. IgTyped /\ IgAcceptedIsKept /\ IgRouted /\ \A i \in IgIds : IgHonest(i)
  BY DEF IgInv
<1>2. igRequest' \in [IgRequests -> IgStates]
  BY <1>1 DEF IgTyped
<1>3. IgTyped' /\ IgAcceptedIsKept'
  BY <1>1, <1>2, IgTypedStays, IgAcceptedStays
<1>4. IgIds' = IgIds
  BY IgSameIds
<1>5. IgRouted'
  <2>1. \A i \in IgIds' : igRecords'[i].route = "ROUTED" => IgThere(i)'
    BY <1>1, <1>4 DEF IgRouted
  <2> SUFFICES ASSUME NEW q \in IgRequests, NEW b, b = igRequest[q], b.at = "mark"
               PROVE  b.id \in b.todo /\ (b.route = "ROUTED" => IgThere(b.id)')
    BY <2>1 DEF IgRouted, IgThere
  <2>2. b.id \in IgIds
    BY <1>1, IgRequestOf DEF IgMarks
  <2> QED BY <1>1, <2>2 DEF IgRouted
<1>6. ASSUME NEW i \in IgIds PROVE IgHonest(i)'
  <2> DEFINE x == igRecords'[i]
  <2> DEFINE values == igValues'
  <2>1. /\ x.raced = igRecords[i].raced /\ x.hold = igRecords[i].hold /\ x.asked = igRecords[i].asked
        /\ x.stored = TRUE => igRecords[i].stored = TRUE
    OBVIOUS
  <2>2. values \subseteq igValues /\ IgHonest(i)
    BY <1>1
  <2> SUFFICES ASSUME x.raced = FALSE
               PROVE  /\ \A p, r \in IgRequests : IgDoes(igRequest[p], i) /\ IgDoes(igRequest[r], i) => p = r
                      /\ \A r \in IgRequests : IgDoes(igRequest[r], i) => IgWorks(igRequest[r], x, i, values)
                      /\ (\A r \in IgRequests : ~IgDoes(igRequest[r], i)) => IgRests(x, i, values)
                      /\ x.asked = TRUE => \A v \in values : v.ref # i
    BY DEF IgHonest
  <2> HIDE DEF x, values
  <2>3. /\ \A p, r \in IgRequests : IgDoes(igRequest[p], i) /\ IgDoes(igRequest[r], i) => p = r
        /\ \A r \in IgRequests : IgDoes(igRequest[r], i) => IgWorks(igRequest[r], igRecords[i], i, igValues)
        /\ (\A r \in IgRequests : ~IgDoes(igRequest[r], i)) => IgRests(igRecords[i], i, igValues)
        /\ igRecords[i].asked = TRUE => \A v \in igValues : v.ref # i
    BY <2>1, <2>2 DEF IgHonest
  <2>4. ASSUME NEW b, IgWorks(b, igRecords[i], i, igValues) PROVE IgWorks(b, x, i, values)
    BY <2>1, <2>2, <2>4 DEF IgWorks
  <2>5. IgRests(igRecords[i], i, igValues) => IgRests(x, i, values)
    BY <2>1, <2>2 DEF IgRests
  <2>6. \A r \in IgRequests : IgDoes(igRequest[r], i) => IgWorks(igRequest[r], x, i, values)
    BY <2>3, <2>4
  <2> QED BY <2>1, <2>2, <2>3, <2>5, <2>6
<1>7. \A i \in IgIds' : IgHonest(i)'
  BY <1>4, <1>6
<1> QED BY <1>3, <1>5, <1>7 DEF IgInv

\* The daily purges, and the passing of retain_until.
LEMMA IgDailyInv ==
    ASSUME IgInv, IgDaily
    PROVE  IgInv'
<1>1. IgTyped /\ (\A v \in igValues : IgValueOk(v))
  BY DEF IgInv, IgTyped
<1>2. igRecords' = IgPurged /\ UNCHANGED <<igValues, igRequest>> /\ IgFewer
  BY IgPurgesFewer DEF IgDaily, IgPurges
<1>3. IgEvolves
  BY <1>1, <1>2, IgPurgedOf
<1>4. \A i \in IgIds :
        /\ igRecords'[i].route = igRecords[i].route /\ igRecords'[i].raced = igRecords[i].raced
        /\ igRecords'[i].hold = igRecords[i].hold /\ igRecords'[i].asked = igRecords[i].asked
        /\ igRecords'[i].stored = TRUE => igRecords[i].stored = TRUE
  BY <1>1, <1>2, IgPurgedOf
<1>5. \A i \in IgIds : IgThere(i) => IgThere(i)'
  BY <1>1, <1>2, <1>3, IgThereStays
<1>6. igValues' \subseteq igValues /\ \A v \in igValues' : IgValueOk(v)
  BY <1>1, <1>2
<1> QED BY <1>2, <1>3, <1>4, <1>5, <1>6, IgStillInv

\* Impact's purge takes values of records whose retention is over.
LEMMA IgDailyImpactInv ==
    ASSUME IgInv, IgDailyImpact
    PROVE  IgInv'
<1>1. IgTyped /\ (\A v \in igValues : IgValueOk(v)) /\ \A i \in IgIds : IgRecordOk(igRecords[i])
  BY DEF IgInv, IgTyped
<1>2. /\ igValues' = {v \in igValues : v.hold \/ ~igRecords[v.ref].old}
      /\ UNCHANGED <<igRecords, igBatches, igRequest>>
  BY DEF IgDailyImpact
<1>3. IgEvolves
  BY <1>1, <1>2, IgNothingWritten
<1>4. ASSUME NEW i \in IgIds, IgThere(i) PROVE IgThere(i)'
  <2>1. igRecords[i].old \in BOOLEAN /\ igRecords' = igRecords
    BY <1>1, <1>2, IgRecordOf
  <2>2. CASE igRecords[i].old = TRUE
    BY <2>1, <2>2 DEF IgThere
  <2>3. CASE igRecords[i].old = FALSE
    <3>1. \A v \in igValues : v.ref = i => v \in igValues'
      BY <1>2, <2>3
    <3> QED BY <1>4, <2>1, <3>1 DEF IgThere
  <2> QED BY <2>1, <2>2, <2>3
<1>5. igValues' \subseteq igValues /\ \A v \in igValues' : IgValueOk(v)
  BY <1>1, <1>2
<1> QED BY <1>2, <1>3, <1>4, <1>5, IgStillInv, IgSameBatches

\* retain_until of a record passes.
LEMMA IgAgesInv ==
    ASSUME IgInv, NEW i \in IgIds, IgAges(i)
    PROVE  IgInv'
<1> DEFINE x == [igRecords[i] EXCEPT !.old = TRUE]
<1>1. IgTyped /\ (\A v \in igValues : IgValueOk(v)) /\ \A j \in IgIds : IgRecordOk(igRecords[j])
  BY DEF IgInv, IgTyped
<1>2. igRecords' = [igRecords EXCEPT ![i] = x] /\ UNCHANGED <<igBatches, igValues, igRequest>>
  BY DEF IgAges
<1>3. /\ IgRecordOk(x) /\ x.route = igRecords[i].route /\ x.raced = igRecords[i].raced
      /\ x.env = igRecords[i].env /\ x.key = igRecords[i].key /\ x.val = igRecords[i].val
      /\ x.wiped = igRecords[i].wiped /\ x.old = TRUE /\ x.hold = igRecords[i].hold
      /\ x.asked = igRecords[i].asked /\ x.stored = igRecords[i].stored
  <2>1. IgRecordOk(igRecords[i])
    BY <1>1
  <2> QED BY <2>1 DEF IgRecordOk
<1> HIDE DEF x
<1>4. IgEvolves /\ igRecords'[i] = x /\ \A j \in IgIds \ {i} : igRecords'[j] = igRecords[j]
  BY <1>1, <1>2, <1>3, IgRowWritten
<1>5. \A j \in IgIds : IgThere(j) => IgThere(j)'
  BY <1>1, <1>2, <1>4, IgThereStays
<1>6. \A j \in IgIds :
        /\ igRecords'[j].route = igRecords[j].route /\ igRecords'[j].raced = igRecords[j].raced
        /\ igRecords'[j].hold = igRecords[j].hold /\ igRecords'[j].asked = igRecords[j].asked
        /\ igRecords'[j].stored = TRUE => igRecords[j].stored = TRUE
  BY <1>3, <1>4
<1>7. igValues' \subseteq igValues /\ \A v \in igValues' : IgValueOk(v)
  BY <1>1, <1>2
<1> QED BY <1>2, <1>4, <1>5, <1>6, <1>7, IgStillInv, IgSameBatches

\* What a new record holds.
IgNewRow(x, env, batch, key, val) ==
    x = [env |-> env, batch |-> batch, key |-> key, val |-> val, route |-> "PENDING", hold |-> FALSE, asked |-> FALSE, old |-> FALSE,
         stored |-> TRUE, wiped |-> FALSE, raced |-> FALSE]

\* A batch is stored: the ids below m keep their records, the ids after them get new ones
\* that the request sends, and every item of the batch has its record.
LEMMA IgStoresRows ==
    ASSUME IgInv, NEW q \in IgRequests, IgStore(q),
           LET r == igRequest[q] IN ~(igBatches[<<r.env, r.id>>] # NoBatch \/ IgConflict(r.env, r.content))
    PROVE  LET r == igRequest[q] IN
           \E m \in Nat :
              /\ IgIds' = 1..m /\ Cardinality(IgIds) <= m /\ igRecords' = [i \in 1..m |-> igRecords'[i]]
              /\ \A i \in IgIds : igRecords'[i] = igRecords[i]
              /\ \A i \in (1..m) \ IgIds : \E key, val : IgNewRow(igRecords'[i], r.env, r.id, key, val)
              /\ \A key \in IgFresh(r.env, r.content) :
                    \E i \in 1..m : IgNewRow(igRecords'[i], r.env, r.id, key, r.content[key])
              /\ igBatches' = [igBatches EXCEPT ![<<r.env, r.id>>] = r.content]
              /\ \/ IgGo(q, IgIdle)
                 \/ \E todo \in SUBSET (1..m) : todo \cap IgIds = {} /\ IgGo(q, [at |-> "send", todo |-> todo])
<1> DEFINE r == igRequest[q]
<1> DEFINE n == Cardinality(IgIds)
<1> DEFINE fresh == IgFresh(r.env, r.content)
<1> DEFINE m == n + Cardinality(fresh)
<1>1. IgTyped
  BY DEF IgInv
<1>2. n \in Nat /\ IgIds = 1..n
  BY <1>1 DEF IgTyped
<1>3. r \in IgStores
  BY <1>1, IgRequestOf DEF IgStore, IgAt
<1>4. IsFiniteSet(fresh)
  <2>1. IsFiniteSet(DOMAIN r.content)
    BY <1>3, IgAssumption DEF IgStores
  <2>2. fresh \subseteq DOMAIN r.content
    BY DEF IgFresh
  <2> QED BY <2>1, <2>2, FS_Subset
<1>5. Cardinality(fresh) \in Nat /\ m \in Nat /\ n <= m
  BY <1>2, <1>4, FS_CardinalityType
<1> DEFINE key(order, i) == CHOOSE k \in fresh : order[k] = i
<1> DEFINE after(order, i) == [env |-> r.env, batch |-> r.id, key |-> key(order, i), val |-> r.content[key(order, i)],
                             route |-> "PENDING", hold |-> FALSE, asked |-> FALSE, old |-> FALSE,
                             stored |-> TRUE, wiped |-> FALSE, raced |-> FALSE]
<1>6. PICK order \in [fresh -> (n + 1)..m] :
        /\ \A k, l \in fresh : k # l => order[k] # order[l]
        /\ igRecords' = [i \in 1..m |-> IF i <= n THEN igRecords[i] ELSE after(order, i)]
        /\ igBatches' = [igBatches EXCEPT ![<<r.env, r.id>>] = r.content]
        /\ IgGo(q, IF fresh = {} THEN IgIdle ELSE [at |-> "send", todo |-> (n + 1)..m])
  BY DEF IgStore
<1>7. \A k \in fresh : order[k] \in (n + 1)..m /\ key(order, order[k]) = k
  BY <1>6
<1>8. \A i : IgNewRow(after(order, i), r.env, r.id, key(order, i), r.content[key(order, i)])
  BY DEF IgNewRow
<1> HIDE DEF key, after, fresh, n, m
<1>9. /\ \A i \in 1..m : igRecords'[i] = IF i <= n THEN igRecords[i] ELSE after(order, i)
      /\ IgIds' = 1..m /\ igRecords' = [i \in 1..m |-> igRecords'[i]]
  BY <1>6 DEF IgIds
<1>10. \A i \in IgIds : i \in 1..m /\ igRecords'[i] = igRecords[i]
  BY <1>2, <1>5, <1>9
<1>11. \A i \in (1..m) \ IgIds : igRecords'[i] = after(order, i)
  BY <1>2, <1>5, <1>9
<1>12. \A i \in (1..m) \ IgIds : \E k, val : IgNewRow(igRecords'[i], r.env, r.id, k, val)
  BY <1>8, <1>11
<1>13. \A k \in fresh : \E i \in 1..m : IgNewRow(igRecords'[i], r.env, r.id, k, r.content[k])
  <2> TAKE k \in fresh
  <2>1. order[k] \in (1..m) \ IgIds
    BY <1>2, <1>5, <1>7
  <2>2. IgNewRow(igRecords'[order[k]], r.env, r.id, k, r.content[k])
    BY <1>7, <1>8, <1>11, <2>1
  <2> QED BY <2>1, <2>2
<1>14. \/ IgGo(q, IgIdle)
       \/ \E todo \in SUBSET (1..m) : todo \cap IgIds = {} /\ IgGo(q, [at |-> "send", todo |-> todo])
  <2>1. (n + 1)..m \in SUBSET (1..m) /\ ((n + 1)..m) \cap IgIds = {}
    BY <1>2, <1>5
  <2> QED BY <1>6, <2>1
<1>15. igBatches' = [igBatches EXCEPT ![<<r.env, r.id>>] = r.content]
  BY <1>6
<1>16. /\ IgIds' = 1..m /\ n <= m /\ igRecords' = [i \in 1..m |-> igRecords'[i]]
       /\ \A i \in IgIds : igRecords'[i] = igRecords[i]
  BY <1>5, <1>9, <1>10
<1> QED BY <1>5, <1>12, <1>13, <1>14, <1>15, <1>16 DEF fresh, n

\* A batch is stored, or refused as known or in conflict.
LEMMA IgStoreInv ==
    ASSUME IgInv, NEW q \in IgRequests, IgStore(q)
    PROVE  IgInv'
<1> DEFINE r == igRequest[q]
<1>1. /\ IgTyped /\ IgAcceptedIsKept /\ IgRouted /\ \A i \in IgIds : IgHonest(i)
      /\ (\A v \in igValues : IgValueOk(v)) /\ \A i \in IgIds : IgRecordOk(igRecords[i])
  BY DEF IgInv, IgTyped
<1>2. r.at = "store" /\ igValues' = igValues
  BY DEF IgStore, IgAt
<1>3. r.env \in IgEnvironments /\ r.id \in IgBatchIds
  BY <1>1, <1>2, IgRequestOf DEF IgStores
<1>4. IgIdle \in IgStates /\ IgIdle.at = "idle"
  BY DEF IgStates, IgIdle
<1>5. \A i : ~IgDoes(igRequest[q], i)
  BY <1>2 DEF IgDoes
<1>6. CASE igBatches[<<r.env, r.id>>] # NoBatch \/ IgConflict(r.env, r.content)
  <2> DEFINE s == IgIdle
  <2>1. IgGo(q, s) /\ UNCHANGED <<igRecords, igBatches>>
    BY <1>6 DEF IgStore
  <2>2. s \in IgStates /\ s.at = "idle"
    BY <1>4
  <2> HIDE DEF s
  <2>3. IgEvolves
    BY <1>1, <2>1, IgNothingWritten
  <2>4. \A i \in IgIds : IgThere(i) => IgThere(i)'
    BY <1>2, <2>1 DEF IgThere
  <2>5. ASSUME NEW i \in IgIds PROVE IgHonest(i)'
    <3>1. ~IgDoes(s, i)
      BY <2>2 DEF IgDoes
    <3> QED BY <1>1, <1>2, <1>5, <2>1, <3>1, IgOthers
  <2>6. s.at # "mark" /\ \A v \in igValues' : IgValueOk(v)
    BY <1>1, <1>2, <2>2
  <2> QED BY <2>1, <2>2, <2>3, <2>4, <2>5, <2>6, IgInvFrom, IgSameBatches
<1>7. CASE ~(igBatches[<<r.env, r.id>>] # NoBatch \/ IgConflict(r.env, r.content))
  <2> DEFINE B == <<r.env, r.id>>
  <2>1. PICK m \in Nat :
          /\ IgIds' = 1..m /\ Cardinality(IgIds) <= m /\ igRecords' = [i \in 1..m |-> igRecords'[i]]
          /\ \A i \in IgIds : igRecords'[i] = igRecords[i]
          /\ \A i \in (1..m) \ IgIds : \E key, val : IgNewRow(igRecords'[i], r.env, r.id, key, val)
          /\ \A key \in IgFresh(r.env, r.content) :
                \E i \in 1..m : IgNewRow(igRecords'[i], r.env, r.id, key, r.content[key])
          /\ igBatches' = [igBatches EXCEPT ![B] = r.content]
          /\ \/ IgGo(q, IgIdle)
             \/ \E todo \in SUBSET (1..m) : todo \cap IgIds = {} /\ IgGo(q, [at |-> "send", todo |-> todo])
    BY <1>7, IgStoresRows
  <2>2. IgIds \subseteq IgIds' /\ Cardinality(IgIds') = m
    <3>1. IgIds = 1..Cardinality(IgIds) /\ Cardinality(IgIds) \in Nat
      BY <1>1 DEF IgTyped
    <3>2. Cardinality(1..m) = m
      BY FS_Interval
    <3> QED BY <2>1, <3>1, <3>2
  <2>3. \A i \in IgIds' \ IgIds :
          LET x == igRecords'[i] IN
          /\ IgRecordOk(x) /\ x.route = "PENDING" /\ x.hold = FALSE /\ x.asked = FALSE
    <3> SUFFICES ASSUME NEW i \in IgIds' \ IgIds, NEW x, x = igRecords'[i]
                 PROVE  IgRecordOk(x) /\ x.route = "PENDING" /\ x.hold = FALSE /\ x.asked = FALSE
      OBVIOUS
    <3>1. PICK key, val : IgNewRow(x, r.env, r.id, key, val)
      BY <2>1
    <3> QED BY <3>1 DEF IgNewRow, IgRecordOk
  <2>4. PICK s : /\ IgGo(q, s) /\ s.at \in {"idle", "send"} /\ \A i : IgDoes(s, i) => i \in IgIds' \ IgIds
                 /\ s \in {IgIdle} \cup [at : {"send"}, todo : SUBSET IgIds']
    <3>1. CASE IgGo(q, IgIdle)
      BY <1>4, <3>1 DEF IgDoes
    <3>2. ASSUME NEW todo \in SUBSET (1..m), todo \cap IgIds = {}, IgGo(q, [at |-> "send", todo |-> todo])
          PROVE  \E s : /\ IgGo(q, s) /\ s.at \in {"idle", "send"} /\ \A i : IgDoes(s, i) => i \in IgIds' \ IgIds
                        /\ s \in {IgIdle} \cup [at : {"send"}, todo : SUBSET IgIds']
      <4> DEFINE s == [at |-> "send", todo |-> todo]
      <4>1. /\ s.at \in {"idle", "send"} /\ s \in [at : {"send"}, todo : SUBSET IgIds']
            /\ \A i : IgDoes(s, i) => i \in IgIds' \ IgIds
        BY <2>1, <3>2 DEF IgDoes
      <4> QED BY <3>2, <4>1
    <3> QED BY <2>1, <3>1, <3>2
  <2>5. igRequest'[q] = s /\ \A p \in IgRequests \ {q} : igRequest'[p] = igRequest[p]
    BY <1>1, <2>4, IgMoved
  <2>6. IgTyped'
    <3>1. IgStates \subseteq IgStates' /\ s \in IgStates'
      <4>1. /\ IgStores' = IgStores /\ IgSends \subseteq IgSends' /\ IgMarks \subseteq IgMarks'
            /\ IgHolds \subseteq IgHolds' /\ IgDeletes \subseteq IgDeletes'
        BY <2>2 DEF IgStores, IgSends, IgMarks, IgHolds, IgDeletes
      <4>2. s \in {IgIdle} \cup IgSends'
        BY <2>4 DEF IgSends
      <4> QED BY <4>1, <4>2 DEF IgStates, IgIdle
    <3>2. igRequest' \in [IgRequests -> IgStates']
      BY <1>1, <2>4, <3>1 DEF IgTyped, IgGo
    <3>3. \A v \in igValues' : IgValueOk(v)'
      BY <1>1, <1>2, <2>2 DEF IgValueOk
    <3>4. \A i \in IgIds' : IgRecordOk(igRecords'[i])
      BY <1>1, <2>1, <2>3
    <3>5. \A i \in IgIds' : IgRecordOk(igRecords[i])'
      BY <3>4 DEF IgRecordOk
    <3>6. igBatches' = [b \in IgBatchKeys |-> igBatches'[b]]
      BY <1>1, <2>1 DEF IgTyped
    <3>7. Cardinality(IgIds') \in Nat /\ IgIds' = 1..Cardinality(IgIds') /\ igRecords' = [i \in IgIds' |-> igRecords'[i]]
      BY <2>1, <2>2
    <3>8. igBatches' = [b \in IgBatchKeys |-> igBatches[b]]'
      BY <3>6 DEF IgBatchKeys
    <3> QED BY <3>2, <3>3, <3>5, <3>7, <3>8 DEF IgTyped
  <2>7. IgAcceptedIsKept'
    <3> SUFFICES ASSUME NEW b \in IgBatchKeys, igBatches'[b] # NoBatch, NEW key \in DOMAIN igBatches'[b]
                 PROVE  \E i \in IgIds' : /\ igRecords'[i].env = b[1] /\ igRecords'[i].key = key
                                          /\ igRecords'[i].val = igBatches'[b][key]
      BY DEF IgAcceptedIsKept, IgBatchKeys, NoBatch
    <3>1. CASE b # B
      <4>1. igBatches'[b] = igBatches[b]
        BY <1>1, <2>1, <3>1 DEF IgTyped
      <4>2. PICK i \in IgIds : /\ igRecords[i].env = b[1] /\ igRecords[i].key = key
                               /\ igRecords[i].val = igBatches[b][key]
        BY <1>1, <4>1 DEF IgAcceptedIsKept
      <4> QED BY <2>1, <2>2, <4>1, <4>2
    <3>2. CASE b = B
      <4>1. igBatches'[b] = r.content /\ b[1] = r.env
        BY <1>1, <2>1, <3>2 DEF IgTyped
      <4>2. CASE key \in IgFresh(r.env, r.content)
        <5>1. PICK i \in 1..m : IgNewRow(igRecords'[i], r.env, r.id, key, r.content[key])
          BY <2>1, <4>2
        <5>2. /\ igRecords'[i].env = r.env /\ igRecords'[i].key = key
              /\ igRecords'[i].val = r.content[key]
          BY <5>1 DEF IgNewRow
        <5>3. i \in IgIds'
          BY <2>1
        <5>4. igBatches'[b][key] = r.content[key]
          BY <4>1
        <5> QED BY <4>1, <5>2, <5>3, <5>4
      <4>3. CASE key \notin IgFresh(r.env, r.content)
        <5>1. PICK i \in IgKnown(r.env, key) : TRUE
          BY <4>1, <4>3 DEF IgFresh
        <5>2. i \in IgStored /\ i \in IgIds /\ igRecords[i].env = r.env /\ igRecords[i].key = key
          BY <5>1 DEF IgKnown, IgStored
        <5>3. igRecords[i].val = r.content[key]
          BY <1>7, <4>1, <5>1, <5>2 DEF IgConflict
        <5> QED BY <2>1, <2>2, <4>1, <5>2, <5>3
      <4> QED BY <4>2, <4>3
    <3> QED BY <3>1, <3>2
  <2>8. IgRouted'
    <3>1. \A i \in IgIds : IgThere(i) => IgThere(i)'
      BY <1>2, <2>1 DEF IgThere
    <3>2. ASSUME NEW i \in IgIds', igRecords'[i].route = "ROUTED" PROVE IgThere(i)'
      <4>1. i \in IgIds
        BY <2>3, <3>2
      <4> QED BY <1>1, <2>1, <3>1, <3>2, <4>1 DEF IgRouted
    <3> SUFFICES ASSUME NEW p \in IgRequests, NEW b, b = igRequest'[p], b.at = "mark"
                 PROVE  b.id \in b.todo /\ (b.route = "ROUTED" => IgThere(b.id)')
      BY <3>2 DEF IgRouted, IgThere
    <3>3. p # q
      BY <2>4, <2>5
    <3>4. b = igRequest[p] /\ igRequest[p] \in IgMarks
      BY <1>1, <2>5, <3>3, IgRequestOf
    <3>5. b.id \in IgIds
      BY <3>4 DEF IgMarks
    <3> QED BY <1>1, <3>1, <3>4, <3>5 DEF IgRouted
  <2>9. ASSUME NEW i \in IgIds' PROVE IgHonest(i)'
    <3>1. CASE i \in IgIds
      <4>1. ~IgDoes(s, i)
        BY <2>4, <3>1
      <4>2. igRecords'[i] = igRecords[i]
        BY <2>1, <3>1
      <4> QED BY <1>1, <1>2, <1>5, <2>4, <3>1, <4>1, <4>2, IgOthers
    <3>2. CASE i \notin IgIds
      <4> DEFINE x == igRecords'[i]
      <4> DEFINE values == igValues'
      <4>1. x.hold = FALSE /\ x.asked = FALSE
        BY <2>3, <3>2
      <4>2. x = igRecords'[i] /\ values = igValues' /\ values = igValues
        BY <1>2
      <4> HIDE DEF x, values
      <4>3. \A v \in values : v.ref # i
        BY <1>1, <3>2, <4>2 DEF IgValueOk
      <4>4. \A p \in IgRequests : ~IgDoes(igRequest[p], i)
        BY <1>1, <3>2, IgDoesOf
      <4>5. IgWorks(s, x, i, values) /\ IgRests(x, i, values)
        BY <2>4, <4>1, <4>3 DEF IgWorks, IgRests
      <4>6. IgAlone(q, s, i, x, values)
        BY <4>1, <4>3, <4>4, <4>5 DEF IgAlone
      <4> QED BY <1>1, <2>4, <4>2, <4>6, IgOwn
    <3> QED BY <3>1, <3>2
  <2> QED BY <2>6, <2>7, <2>8, <2>9 DEF IgInv
<1> QED BY <1>6, <1>7

\* At first there is nothing.
LEMMA IgInitInv == IgInit => IgInv
<1> SUFFICES ASSUME IgInit PROVE IgInv
  OBVIOUS
<1>1. /\ igRecords = <<>> /\ igBatches = [b \in IgBatchKeys |-> NoBatch]
      /\ igValues = {} /\ igRequest = [q \in IgRequests |-> IgIdle]
  BY DEF IgInit
<1>2. IgIds = {} /\ Cardinality(IgIds) = 0
  BY <1>1, FS_EmptySet DEF IgIds
<1>3. IgIdle \in IgStates /\ IgIdle.at = "idle"
  BY DEF IgStates, IgIdle
<1>4. IgTyped
  BY <1>1, <1>2, <1>3 DEF IgTyped
<1>5. IgAcceptedIsKept
  BY <1>1 DEF IgAcceptedIsKept
<1>6. IgRouted
  BY <1>1, <1>2, <1>3 DEF IgRouted
<1> QED BY <1>2, <1>4, <1>5, <1>6 DEF IgInv

\* Every step keeps the invariant.
LEMMA IgStepInv == IgInv /\ [IgNext]_igVars => IgInv'
<1> SUFFICES ASSUME IgInv, [IgNext]_igVars PROVE IgInv'
  OBVIOUS
<1>1. CASE IgDaily
  BY <1>1, IgDailyInv
<1>2. CASE IgDailyImpact
  BY <1>2, IgDailyImpactInv
<1>3. CASE \E i \in IgIds : IgAges(i)
  BY <1>3, IgAgesInv
<1>4. ASSUME NEW q \in IgRequests,
             \/ \E env \in IgEnvironments, id \in IgBatchIds, content \in IgContents : IgBatch(q, env, id, content)
             \/ IgStore(q) \/ IgSend(q) \/ IgMark(q)
             \/ \E i \in IgIds : IgDelete(q, i) \/ \E held \in BOOLEAN : IgHold(q, i, held)
             \/ IgHoldImpact(q) \/ IgHoldRecord(q)
             \/ IgDeleteImpact(q) \/ IgDeleteRecord(q) \/ IgPurge(q) \/ IgDropped(q)
      PROVE  IgInv'
  BY <1>4, IgBatchInv, IgStoreInv, IgSendInv, IgMarkInv, IgDeleteInv, IgHoldInv, IgHoldImpactInv, IgHoldRecordInv,
     IgDeleteImpactInv, IgDeleteRecordInv, IgPurgeInv, IgDroppedInv
<1>5. CASE UNCHANGED igVars
  <2>1. UNCHANGED <<igRecords, igBatches, igValues, igRequest>>
    BY <1>5 DEF igVars
  <2>2. IgTyped /\ \A v \in igValues : IgValueOk(v)
    BY DEF IgInv, IgTyped
  <2>3. IgEvolves /\ \A i \in IgIds : IgThere(i) => IgThere(i)'
    BY <2>1, <2>2, IgNothingWritten DEF IgThere
  <2> QED BY <2>1, <2>2, <2>3, IgStillInv, IgSameBatches
<1> QED BY <1>1, <1>2, <1>3, <1>4, <1>5 DEF IgNext

\* The invariant says what was accepted, routed, held and deleted.
LEMMA IgInvSafe == IgInv => IngestSafe
<1> SUFFICES ASSUME IgInv PROVE IngestSafe
  OBVIOUS
<1>1. /\ IgTyped /\ IgAcceptedIsKept /\ IgRouted
      /\ \A i \in IgIds : IgHonest(i) /\ IgRecordOk(igRecords[i])
  BY DEF IgInv, IgTyped
<1>2. IgRoutedIsThere
  <2> SUFFICES ASSUME NEW i \in IgIds, igRecords[i].route = "ROUTED", ~igRecords[i].wiped, ~igRecords[i].old
               PROVE  \E v \in igValues : v.ref = i /\ v.val = igRecords[i].val
    BY DEF IgRoutedIsThere
  <2>1. igRecords[i].wiped \in BOOLEAN /\ igRecords[i].old \in BOOLEAN
    BY <1>1, IgRecordOf
  <2>2. IgThere(i)
    BY <1>1 DEF IgRouted
  <2> QED BY <2>1, <2>2 DEF IgThere
<1>3. IgHeldInBoth
  <2> SUFFICES ASSUME NEW i \in IgStored, igRecords[i].hold, ~igRecords[i].raced, ~IgBusy(i),
                      NEW v \in igValues, v.ref = i
               PROVE  v.hold
    BY DEF IgHeldInBoth
  <2>1. i \in IgIds /\ igRecords[i].stored
    BY DEF IgStored
  <2>2. igRecords[i].hold = TRUE /\ igRecords[i].raced = FALSE /\ igRecords[i].stored = TRUE
    <3>1. /\ igRecords[i].hold \in BOOLEAN /\ igRecords[i].raced \in BOOLEAN
          /\ igRecords[i].stored \in BOOLEAN
      BY <1>1, <2>1, IgRecordOf
    <3> QED BY <2>1, <3>1
  <2>3. \A q \in IgRequests : ~IgDoes(igRequest[q], i)
    BY <1>1, IgBusyOf
  <2>4. IgRests(igRecords[i], i, igValues)
    BY <1>1, <2>1, <2>2, <2>3 DEF IgHonest
  <2> QED BY <2>2, <2>4 DEF IgRests
<1>4. IgDeletedInBoth
  <2> SUFFICES ASSUME NEW i \in IgIds, igRecords[i].asked, ~igRecords[i].raced PROVE \A v \in igValues : v.ref # i
    BY DEF IgDeletedInBoth
  <2>1. igRecords[i].asked = TRUE /\ igRecords[i].raced = FALSE
    <3>1. igRecords[i].asked \in BOOLEAN /\ igRecords[i].raced \in BOOLEAN
      BY <1>1, IgRecordOf
    <3> QED BY <3>1
  <2> QED BY <1>1, <2>1 DEF IgHonest
<1> QED BY <1>1, <1>2, <1>3, <1>4 DEF IngestSafe

(* The connector and Impact agree about the records that were accepted,     *)
(* sent, held and deleted, for any number of requests, environments and     *)
(* records, wherever a request is dropped.                                  *)
THEOREM ConnectorAndImpactAgree == IgSpec => []IngestSafe
<1>1. IgSpec => []IgInv
  BY IgInitInv, IgStepInv, PTL DEF IgSpec
<1> QED BY <1>1, IgInvSafe, PTL

-----------------------------------------------------------------------------
(* The files of a partner: MediaStore. *)

StWorks ==
    {StIdle}
    \cup [at : {"open", "rename", "row", "use"}, id : Nat]
    \cup [at : {"read"}, listed : SUBSET Nat, left : SUBSET Nat, has : SUBSET Nat,
          temps : SUBSET Nat, copied : SUBSET Nat, quiet : BOOLEAN]
    \cup [at : {"away", "in", "drop"}, new : SUBSET Nat, temps : SUBSET Nat, n : Nat]
StRoots  == [there : BOOLEAN, objects : SUBSET Nat, temps : SUBSET Nat]
StAsides == [by : Nat, objects : SUBSET Nat, temps : SUBSET Nat]
StPoints == [taken : BOOLEAN, has : SUBSET Nat, temps : SUBSET Nat, listed : SUBSET Nat, quiet : BOOLEAN]
StLocks  == [on : BOOLEAN, objects : SUBSET Nat, late : SUBSET Nat]
StCounts == [begun : Nat, stored : SUBSET Nat, replaced : SUBSET Nat, restores : Nat, archives : Nat, stops : Nat]
StTyped ==
    /\ stRoot \in StRoots /\ stAside \subseteq StAsides /\ stRows \in [all : SUBSET Nat, used : SUBSET Nat]
    /\ stPoint \in StPoints /\ stLock \in StLocks /\ stDone \in StCounts
    /\ stWorker \in [StWorkers -> StWorks]

\* What each request may rely on, given the objects o of the directory, the rows a, the lock l,
\* the restores begun n and the objects k that are held or were replaced.
StOk(r, o, a, l, n, k) ==
    /\ r.at = "row" /\ n = 0 => r.id \in o
    /\ r.at = "use" => r.id \in a
    /\ r.at \in {"open", "rename"} /\ l.on = TRUE => r.id \in l.late
    /\ r.at = "read" => r.listed = r.left \cup r.has /\ (r.quiet = TRUE => r.temps = {} /\ r.left \subseteq o)
    /\ r.at \in {"away", "in", "drop"} => r.n < n
    /\ r.at = "drop" => r.new \subseteq k
StKept == StHeld \cup stDone.replaced
StRequestsOk == \A w \in StWorkers : StOk(stWorker[w], stRoot.objects, stRows.all, stLock, stDone.restores, StKept)

\* What does not name a directory holds nothing.
StNamesNothing == stRoot.there = FALSE => stRoot.objects = {} /\ stRoot.temps = {}
\* No two restores have the same number.
StNumbered ==
    \A v, w \in StWorkers :
        stWorker[v].at \in {"away", "in", "drop"} /\ stWorker[w].at \in {"away", "in", "drop"}
        /\ stWorker[v].n = stWorker[w].n => v = w
\* Whoever took the directory away is there to put one into its place.
StIsPut ==
    stDone.stops = 0 /\ stRoot.there = FALSE => \E w \in StWorkers : stWorker[w].at = "in" /\ StMine(w) # {}
StPointOk == stPoint.taken = TRUE /\ stPoint.quiet = TRUE => stPoint.has = stPoint.listed
StStoredOk == stDone.stored \subseteq StKept
StRowsOk == stRows.used \subseteq stRows.all /\ (stDone.restores = 0 => stRows.all \subseteq stRoot.objects)
StLockOk ==
    stLock.on = TRUE /\ stDone.restores = 0 =>
        stLock.objects \subseteq stRoot.objects /\ stRoot.objects \subseteq stLock.objects \cup stLock.late
StInv ==
    /\ StTyped /\ StRequestsOk /\ StNamesNothing /\ StNumbered /\ StIsPut
    /\ StPointOk /\ StStoredOk /\ StRowsOk /\ StLockOk

\* The invariant says more than the property.
LEMMA StInvIsSafe == StInv => MediaSafe
<1>1. SUFFICES ASSUME StInv PROVE MediaSafe OBVIOUS
<1>2. StNothingIsLost
    <2>1. \A w \in StWorkers : StAt(w, "drop") => stWorker[w].new \subseteq StKept BY <1>1 DEF StInv, StRequestsOk, StOk, StAt
    <2> QED BY <1>1, <2>1 DEF StNothingIsLost, StInv, StStoredOk, StKept
<1>3. StDirectoryIsThere
    <2>1. SUFFICES ASSUME stDone.stops = 0, \A w \in StWorkers : StAt(w, "idle"), ~stRoot.there PROVE FALSE
        BY DEF StDirectoryIsThere
    <2>2. stRoot.there = FALSE
        <3>1. stRoot.there \in BOOLEAN BY <1>1 DEF StInv, StTyped, StRoots
        <3> QED BY <2>1, <3>1, Zenon
    <2>3. \E w \in StWorkers : stWorker[w].at = "in" BY <1>1, <2>1, <2>2 DEF StInv, StIsPut
    <2> QED BY <2>1, <2>3 DEF StAt
<1>4. StQuietArchiveIsWhole
    <2>1. SUFFICES ASSUME stPoint.taken, stPoint.quiet PROVE stPoint.has = stPoint.listed BY DEF StQuietArchiveIsWhole
    <2>2. stPoint.taken \in BOOLEAN /\ stPoint.quiet \in BOOLEAN BY <1>1 DEF StInv, StTyped, StPoints
    <2>3. stPoint.taken = TRUE /\ stPoint.quiet = TRUE BY <2>1, <2>2, Zenon
    <2> QED BY <1>1, <2>3 DEF StInv, StPointOk
<1>5. StEvidenceIsStored BY <1>1 DEF StEvidenceIsStored, StInv, StRowsOk
<1>6. StArchivedIsKept
    <2>1. SUFFICES ASSUME stLock.on, stDone.restores = 0
                   PROVE  stLock.objects \subseteq stRoot.objects /\ stRoot.objects \subseteq stLock.objects \cup stLock.late
        BY DEF StArchivedIsKept
    <2>2. stLock.on \in BOOLEAN BY <1>1 DEF StInv, StTyped, StLocks
    <2>3. stLock.on = TRUE BY <2>1, <2>2, Zenon
    <2> QED BY <1>1, <2>1, <2>3 DEF StInv, StLockOk
<1> QED BY <1>2, <1>3, <1>4, <1>5, <1>6 DEF MediaSafe

\* At the start there is an empty directory, and nothing else.
LEMMA StInvInit == StInit => StInv
<1>1. SUFFICES ASSUME StInit PROVE StInv OBVIOUS
<1>2. stWorker \in [StWorkers -> StWorks] /\ \A w \in StWorkers : stWorker[w].at = "idle"
    BY <1>1 DEF StInit, StWorks, StIdle
<1>3. stRoot = [there |-> TRUE, objects |-> {}, temps |-> {}] BY <1>1 DEF StInit, StGone
<1>4. StTyped
    <2>1. stRoot \in StRoots BY <1>3 DEF StRoots
    <2>2. stPoint \in StPoints BY <1>1 DEF StInit, StPoints
    <2>3. stLock \in StLocks BY <1>1 DEF StInit, StLocks
    <2>4. stDone \in StCounts BY <1>1 DEF StInit, StCounts
    <2>5. stRows \in [all : SUBSET Nat, used : SUBSET Nat] /\ stAside \subseteq StAsides BY <1>1 DEF StInit
    <2> QED BY <1>2, <2>1, <2>2, <2>3, <2>4, <2>5 DEF StTyped
<1>5. StRequestsOk BY <1>2 DEF StRequestsOk, StOk
<1>6. stRoot.there # FALSE BY <1>3
<1>7. StNamesNothing /\ StIsPut BY <1>6 DEF StNamesNothing, StIsPut
<1>8. StNumbered BY <1>2 DEF StNumbered
<1>9. stPoint.taken # TRUE
    <2>1. stPoint.taken = FALSE BY <1>1, Zenon DEF StInit
    <2> QED BY <2>1, Zenon
<1>10. stLock.on # TRUE
    <2>1. stLock.on = FALSE BY <1>1, Zenon DEF StInit
    <2> QED BY <2>1, Zenon
<1>11. StPointOk /\ StLockOk BY <1>9, <1>10 DEF StPointOk, StLockOk
<1>12. StStoredOk /\ StRowsOk BY <1>1 DEF StInit, StStoredOk, StRowsOk
<1> QED BY <1>4, <1>5, <1>7, <1>8, <1>11, <1>12 DEF StInv

\* What is held or was replaced, of the objects o of the directory, the ones s renamed away, and k.
StHas(o, s, k) == (o \cup UNION {d.objects : d \in s}) \cup k

\* It grows with each of them.
LEMMA StHasGrows ==
    ASSUME NEW o, NEW s, NEW k, NEW o2, NEW s2, NEW k2, o \subseteq o2, s \subseteq s2, k \subseteq k2
    PROVE  StHas(o, s, k) \subseteq StHas(o2, s2, k2)
<1>1. UNION {d.objects : d \in s} \subseteq UNION {d.objects : d \in s2} OBVIOUS
<1> QED BY <1>1 DEF StHas

\* A directory renamed away is held as before.
LEMMA StHasAside ==
    ASSUME NEW o, NEW s, NEW k, NEW d, d.objects = o
    PROVE  StHas(o, s, k) = StHas({}, s \cup {d}, k)
<1>1. UNION {e.objects : e \in s \cup {d}} = (UNION {e.objects : e \in s}) \cup d.objects OBVIOUS
<1> QED BY <1>1 DEF StHas

\* So is one that is put back.
LEMMA StHasBack ==
    ASSUME NEW s, NEW k, NEW d \in s
    PROVE  StHas({}, s, k) = StHas(d.objects, s \ {d}, k)
<1>1. UNION {e.objects : e \in s} = (UNION {e.objects : e \in s \ {d}}) \cup d.objects OBVIOUS
<1> QED BY <1>1 DEF StHas

\* What is kept, in the terms of the lemmas.
LEMMA StKeptIs == StKept = StHas(stRoot.objects, stAside, stDone.replaced)
BY DEF StKept, StHeld, StHas

\* A request goes on relying on what only grows.
LEMMA StOkStays ==
    ASSUME NEW r, NEW o, NEW a, NEW l, NEW n \in Nat, NEW k, StOk(r, o, a, l, n, k), r.n \in Nat \/ r.at \notin {"away", "in", "drop"},
           NEW o2, NEW a2, NEW l2, NEW n2 \in Nat, NEW k2,
           o \subseteq o2, a \subseteq a2, n <= n2, k \subseteq k2, l2 = l
    PROVE  StOk(r, o2, a2, l2, n2, k2)
<1>1. r.at = "row" /\ n2 = 0 => r.id \in o2 BY DEF StOk
<1>2. r.at = "read" => r.listed = r.left \cup r.has /\ (r.quiet = TRUE => r.temps = {} /\ r.left \subseteq o2) BY DEF StOk
<1>3. r.at \in {"away", "in", "drop"} => r.n < n2
  <2>1. SUFFICES ASSUME r.at \in {"away", "in", "drop"} PROVE r.n < n2 OBVIOUS
  <2>2. r.n < n /\ r.n \in Nat BY <2>1 DEF StOk
  <2> QED BY <2>2
<1>4. r.at = "drop" => r.new \subseteq k2 BY DEF StOk
<1>5. r.at = "use" => r.id \in a2 BY DEF StOk
<1>6. r.at \in {"open", "rename"} /\ l2.on = TRUE => r.id \in l2.late BY DEF StOk
<1> QED BY <1>1, <1>2, <1>3, <1>4, <1>5, <1>6 DEF StOk

\* The number of a restore that is under way.
LEMMA StWorkNumber ==
    ASSUME StTyped, NEW w \in StWorkers
    PROVE  stWorker[w] \in StWorks /\ (stWorker[w].n \in Nat \/ stWorker[w].at \notin {"away", "in", "drop"})
<1>1. stWorker[w] \in StWorks BY DEF StTyped
<1> QED BY <1>1 DEF StWorks, StIdle

\* A step of one request keeps what the requests rely on, if what they rely on only grows.
LEMMA StCalm ==
    ASSUME StInv, NEW w \in StWorkers, NEW state \in StWorks, StGo(w, state),
           stRoot' \in StRoots, stAside' \subseteq StAsides, stRows' \in [all : SUBSET Nat, used : SUBSET Nat],
           stPoint' \in StPoints, stLock' = stLock, stDone' \in StCounts,
           stRoot.objects \subseteq stRoot'.objects, stRows.all \subseteq stRows'.all,
           stDone.restores <= stDone'.restores, StKept \subseteq StKept',
           StOk(state, stRoot'.objects, stRows'.all, stLock', stDone'.restores, StKept'),
           state.at \in {"away", "in", "drop"} =>
               \/ stWorker[w].at \in {"away", "in", "drop"} /\ state.n = stWorker[w].n
               \/ state.n = stDone.restores
    PROVE  /\ StTyped' /\ StRequestsOk' /\ StNumbered'
           /\ \A v \in StWorkers : stWorker'[v] = IF v = w THEN state ELSE stWorker[v]
<1>1. /\ StTyped /\ StRequestsOk /\ StNumbered /\ stDone.restores \in Nat /\ stDone'.restores \in Nat
    BY DEF StInv, StTyped, StCounts
<1>2. /\ stWorker' \in [StWorkers -> StWorks]
      /\ \A v \in StWorkers : stWorker'[v] = IF v = w THEN state ELSE stWorker[v]
    BY <1>1 DEF StGo, StTyped
<1>3. stLock' \in StLocks BY <1>1 DEF StTyped
<1>4. StTyped' BY <1>2, <1>3 DEF StTyped
<1>5. StRequestsOk'
  <2>1. SUFFICES ASSUME NEW v \in StWorkers
                 PROVE  StOk(stWorker'[v], stRoot'.objects, stRows'.all, stLock', stDone'.restores, StKept')
    BY DEF StRequestsOk
  <2>2. CASE v = w
    <3>1. stWorker'[v] = state BY <1>2, <2>2
    <3> QED BY <3>1
  <2>3. CASE v # w
    <3>1. stWorker'[v] = stWorker[v] BY <1>2, <2>3
    <3>2. StOk(stWorker[v], stRoot.objects, stRows.all, stLock, stDone.restores, StKept) BY <1>1 DEF StRequestsOk
    <3>3. stWorker[v].n \in Nat \/ stWorker[v].at \notin {"away", "in", "drop"} BY <1>1, StWorkNumber
    <3> QED BY <1>1, <3>1, <3>2, <3>3, StOkStays
  <2> QED BY <2>2, <2>3
<1>6. StNumbered'
  <2>1. \A v \in StWorkers : stWorker[v].at \in {"away", "in", "drop"} => stWorker[v].n < stDone.restores
    BY <1>1 DEF StRequestsOk, StOk
  <2>2. ASSUME NEW v \in StWorkers, v # w, stWorker[v].at \in {"away", "in", "drop"}, state.at \in {"away", "in", "drop"}
        PROVE  stWorker[v].n # state.n
    <3>1. stWorker[v].n < stDone.restores /\ stWorker[v].n \in Nat BY <1>1, <2>1, <2>2, StWorkNumber
    <3>2. stWorker[v].n # stDone.restores BY <1>1, <3>1
    <3>3. stWorker[w].at \in {"away", "in", "drop"} => stWorker[v].n # stWorker[w].n BY <1>1, <2>2 DEF StNumbered
    <3> QED BY <2>2, <3>2, <3>3
  <2>3. ASSUME NEW u \in StWorkers, NEW v \in StWorkers, stWorker'[u].at \in {"away", "in", "drop"},
               stWorker'[v].at \in {"away", "in", "drop"}, stWorker'[u].n = stWorker'[v].n, u # v
        PROVE  FALSE
    <3>1. CASE u = w
      <4>1. stWorker'[u] = state /\ stWorker'[v] = stWorker[v] BY <1>2, <2>3, <3>1
      <4> QED BY <2>2, <2>3, <3>1, <4>1
    <3>2. CASE v = w
      <4>1. stWorker'[v] = state /\ stWorker'[u] = stWorker[u] BY <1>2, <2>3, <3>2
      <4> QED BY <2>2, <2>3, <3>2, <4>1
    <3>3. CASE u # w /\ v # w
      <4>1. stWorker'[v] = stWorker[v] /\ stWorker'[u] = stWorker[u] BY <1>2, <3>3
      <4> QED BY <1>1, <2>3, <4>1 DEF StNumbered
    <3> QED BY <3>1, <3>2, <3>3
  <2> QED BY <2>3 DEF StNumbered
<1> QED BY <1>2, <1>4, <1>5, <1>6

\* Whoever took the directory away is still there after a step of another request.
LEMMA StIsPutStays ==
    ASSUME StIsPut, NEW w \in StWorkers, stWorker[w].at # "in",
           \A v \in StWorkers : v # w /\ stWorker[v].at = "in" => stWorker'[v].at = "in" /\ stWorker'[v].n = stWorker[v].n,
           \A v \in StWorkers, d \in stAside : v # w /\ stWorker[v].at = "in" /\ d.by = stWorker[v].n => d \in stAside',
           stDone'.stops = stDone.stops, stRoot'.there = FALSE => stRoot.there = FALSE
    PROVE  StIsPut'
<1>1. SUFFICES ASSUME stDone'.stops = 0, stRoot'.there = FALSE
               PROVE  \E v \in StWorkers : stWorker'[v].at = "in" /\ {d \in stAside' : d.by = stWorker'[v].n} # {}
    BY DEF StIsPut, StMine
<1>2. PICK v \in StWorkers : stWorker[v].at = "in" /\ StMine(v) # {} BY <1>1 DEF StIsPut
<1>3. PICK d \in stAside : d.by = stWorker[v].n BY <1>2 DEF StMine
<1>4. d \in stAside' /\ stWorker'[v].at = "in" /\ d.by = stWorker'[v].n BY <1>2, <1>3
<1> QED BY <1>4

\* The fields of a request at each point.
LEMMA StUploading ==
    ASSUME StTyped, NEW w \in StWorkers, stWorker[w].at \in {"open", "rename", "row", "use"},
           NEW at \in {"open", "rename", "row", "use"}
    PROVE  /\ stWorker[w].id \in Nat
           /\ [stWorker[w] EXCEPT !.at = at] = [at |-> at, id |-> stWorker[w].id]
           /\ [stWorker[w] EXCEPT !.at = at] \in StWorks
<1>1. stWorker[w] \in StWorks BY DEF StTyped
<1>2. PICK a \in {"open", "rename", "row", "use"}, id \in Nat : stWorker[w] = [at |-> a, id |-> id]
    BY <1>1 DEF StWorks, StIdle
<1>3. stWorker[w].id = id BY <1>2
<1>4. [stWorker[w] EXCEPT !.at = at] = [at |-> at, id |-> id] BY <1>2
<1> QED BY <1>3, <1>4 DEF StWorks

\* A request that is over relies on nothing.
LEMMA StRests ==
    ASSUME NEW o, NEW a, NEW l, NEW n, NEW k
    PROVE  StIdle \in StWorks /\ StIdle.at = "idle" /\ StOk(StIdle, o, a, l, n, k)
BY DEF StIdle, StWorks, StOk

\* A step that changes nothing but requests and counts keeps what is said of the rest.
LEMMA StRestStays ==
    ASSUME StInv, UNCHANGED <<stRoot, stAside, stRows, stLock>>, stDone'.stored = stDone.stored,
           stDone'.replaced = stDone.replaced, stDone'.restores = stDone.restores
    PROVE  StKept' = StKept /\ StNamesNothing' /\ StStoredOk' /\ StRowsOk' /\ StLockOk'
<1>1. StKept' = StKept BY DEF StKept, StHeld
<1>2. StNamesNothing' BY DEF StInv, StNamesNothing
<1>3. StStoredOk' BY <1>1 DEF StInv, StStoredOk
<1>4. StRowsOk' BY DEF StInv, StRowsOk
<1>5. StLockOk' BY DEF StInv, StLockOk
<1> QED BY <1>1, <1>2, <1>3, <1>4, <1>5

\* A step of a request that takes no part in moving the directory, and changes nothing but itself
\* and the counts of what was begun.
LEMMA StQuietStep ==
    ASSUME StInv, NEW w \in StWorkers, NEW state \in StWorks, StGo(w, state), stWorker[w].at # "in",
           UNCHANGED <<stRoot, stAside, stRows, stLock>>, stDone' \in StCounts,
           stDone'.stored = stDone.stored, stDone'.replaced = stDone.replaced, stDone'.restores = stDone.restores,
           stDone'.stops = stDone.stops, stPoint' \in StPoints, StPointOk',
           StOk(state, stRoot.objects, stRows.all, stLock, stDone.restores, StKept),
           state.at \notin {"away", "in", "drop"}
    PROVE  StInv'
<1>1. StTyped BY DEF StInv
<1>2. StKept' = StKept /\ StNamesNothing' /\ StStoredOk' /\ StRowsOk' /\ StLockOk' BY StRestStays
<1>3. stDone.restores \in Nat BY <1>1 DEF StTyped, StCounts
<1>4. /\ StTyped' /\ StRequestsOk' /\ StNumbered'
      /\ \A v \in StWorkers : stWorker'[v] = IF v = w THEN state ELSE stWorker[v]
    BY <1>1, <1>2, <1>3, StCalm DEF StTyped
<1>5. StIsPut' BY <1>4, StIsPutStays DEF StInv
<1> QED BY <1>2, <1>4, <1>5 DEF StInv

\* An upload begins, while no file may be kept.
LEMMA StUploadStep == ASSUME StInv, NEW w \in StWorkers, StUpload(w) PROVE StInv'
<1>1. PICK done, state : done = [stDone EXCEPT !.begun = stDone.begun + 1] /\ state = [at |-> "open", id |-> stDone.begun + 1]
    OBVIOUS
<1>2. /\ stWorker[w].at = "idle" /\ ~stLock.on /\ stDone' = done /\ StGo(w, state)
      /\ UNCHANGED <<stRoot, stAside, stRows, stPoint, stLock>>
    BY <1>1 DEF StUpload, StAt, StUnlocked
<1>3. StTyped /\ stDone \in StCounts BY DEF StInv, StTyped
<1>4. done \in StCounts /\ done.stored = stDone.stored /\ done.replaced = stDone.replaced
      /\ done.restores = stDone.restores /\ done.stops = stDone.stops
    BY <1>1, <1>3 DEF StCounts
<1>5. state \in StWorks /\ state.at = "open" BY <1>1, <1>3 DEF StCounts, StWorks
<1>6. stLock.on # TRUE BY <1>2, Zenon
<1>7. StOk(state, stRoot.objects, stRows.all, stLock, stDone.restores, StKept) BY <1>5, <1>6 DEF StOk
<1>8. stPoint' \in StPoints /\ StPointOk' BY <1>2, <1>3 DEF StInv, StTyped, StPointOk
<1> QED BY <1>2, <1>4, <1>5, <1>7, <1>8, StQuietStep

\* A temporary file is written, in a directory that is made if there is none.
LEMMA StOpenStep == ASSUME StInv, NEW w \in StWorkers, StOpen(w) PROVE StInv'
<1>1. PICK root, state : /\ root = [stRoot EXCEPT !.there = TRUE, !.temps = stRoot.temps \cup {stWorker[w].id}]
                         /\ state = [stWorker[w] EXCEPT !.at = "rename"]
    OBVIOUS
<1>2. /\ stWorker[w].at = "open" /\ stRoot' = root /\ StGo(w, state)
      /\ UNCHANGED <<stAside, stRows, stPoint, stLock, stDone>>
    BY <1>1 DEF StOpen, StAt, StMove
<1>3. StTyped /\ stRoot \in StRoots /\ stDone.restores \in Nat BY DEF StInv, StTyped, StCounts
<1>4. /\ stWorker[w].id \in Nat /\ state \in StWorks
      /\ state = [at |-> "rename", id |-> stWorker[w].id]
    BY <1>1, <1>2, <1>3, StUploading
<1>5. state.at = "rename" /\ state.id = stWorker[w].id BY <1>4
<1>6. root = [there |-> TRUE, objects |-> stRoot.objects, temps |-> stRoot.temps \cup {stWorker[w].id}]
  <2>1. PICK b \in BOOLEAN, o \in SUBSET Nat, t \in SUBSET Nat : stRoot = [there |-> b, objects |-> o, temps |-> t]
    BY <1>3 DEF StRoots
  <2>2. root = [x \in DOMAIN stRoot |-> IF x = "there" THEN TRUE ELSE IF x = "temps" THEN stRoot.temps \cup {stWorker[w].id}
                                        ELSE stRoot[x]]
    BY <1>1
  <2>3. stRoot.objects = o /\ stRoot.temps = t BY <2>1
  <2> QED BY <2>1, <2>2, <2>3
<1>7. root.objects = stRoot.objects /\ root.there = TRUE BY <1>6
<1>8. root \in StRoots BY <1>3, <1>4, <1>6 DEF StRoots
<1>9. StKept' = StKept BY <1>2, <1>7 DEF StKept, StHeld
<1>10. StOk(stWorker[w], stRoot.objects, stRows.all, stLock, stDone.restores, StKept) BY DEF StInv, StRequestsOk
<1>11. StOk(state, stRoot'.objects, stRows'.all, stLock', stDone'.restores, StKept')
    BY <1>2, <1>5, <1>10 DEF StOk
<1>12. /\ StTyped' /\ StRequestsOk' /\ StNumbered'
    BY <1>2, <1>3, <1>4, <1>5, <1>7, <1>8, <1>9, <1>11, StCalm DEF StTyped
<1>13. stRoot'.there # FALSE
  <2>1. stRoot'.there = TRUE BY <1>2, <1>7
  <2> QED BY <2>1
<1>14. StIsPut' /\ StNamesNothing' BY <1>13 DEF StIsPut, StNamesNothing
<1>15. StPointOk' /\ StStoredOk' /\ StRowsOk' /\ StLockOk'
    BY <1>2, <1>7, <1>9 DEF StInv, StPointOk, StStoredOk, StRowsOk, StLockOk
<1> QED BY <1>12, <1>14, <1>15 DEF StInv

\* The temporary file gets its name: the directory and what is stored grow by the same object.
LEMMA StRenameStep == ASSUME StInv, NEW w \in StWorkers, StRename(w) PROVE StInv'
<1>1. PICK id, root, state, done :
          /\ id = stWorker[w].id
          /\ root = [stRoot EXCEPT !.temps = stRoot.temps \ {id}, !.objects = stRoot.objects \cup {id}]
          /\ state = [stWorker[w] EXCEPT !.at = "row"]
          /\ done = [stDone EXCEPT !.stored = stDone.stored \cup {id}]
    OBVIOUS
<1>2. /\ stWorker[w].at = "rename" /\ id \in stRoot.temps /\ stRoot' = root /\ StGo(w, state) /\ stDone' = done
      /\ UNCHANGED <<stAside, stRows, stPoint, stLock>>
    BY <1>1 DEF StRename, StAt, StMove
<1>3. StTyped /\ stRoot \in StRoots /\ stDone \in StCounts /\ stDone.restores \in Nat BY DEF StInv, StTyped, StCounts
<1>4. id \in Nat /\ state \in StWorks /\ state = [at |-> "row", id |-> id] BY <1>1, <1>2, <1>3, StUploading
<1>5. state.at = "row" /\ state.id = id BY <1>4
<1>6. root = [there |-> stRoot.there, objects |-> stRoot.objects \cup {id}, temps |-> stRoot.temps \ {id}]
  <2>1. PICK b \in BOOLEAN, o \in SUBSET Nat, t \in SUBSET Nat : stRoot = [there |-> b, objects |-> o, temps |-> t]
    BY <1>3 DEF StRoots
  <2>2. root = [x \in DOMAIN stRoot |-> IF x = "temps" THEN stRoot.temps \ {id}
                                        ELSE IF x = "objects" THEN stRoot.objects \cup {id} ELSE stRoot[x]]
    BY <1>1
  <2>3. stRoot.objects = o /\ stRoot.temps = t /\ stRoot.there = b BY <2>1
  <2> QED BY <2>1, <2>2, <2>3
<1>7. root.objects = stRoot.objects \cup {id} /\ root.there = stRoot.there BY <1>6
<1>8. root \in StRoots BY <1>3, <1>4, <1>6 DEF StRoots
<1>9. /\ done \in StCounts /\ done.stored = stDone.stored \cup {id} /\ done.replaced = stDone.replaced
      /\ done.restores = stDone.restores /\ done.stops = stDone.stops
    BY <1>1, <1>3, <1>4 DEF StCounts
<1>10. StKept \subseteq StKept' /\ id \in StKept' BY <1>2, <1>7, <1>9 DEF StKept, StHeld
<1>11. StOk(stWorker[w], stRoot.objects, stRows.all, stLock, stDone.restores, StKept) BY DEF StInv, StRequestsOk
<1>12. StOk(state, stRoot'.objects, stRows'.all, stLock', stDone'.restores, StKept') BY <1>2, <1>5, <1>7 DEF StOk
<1>13. /\ StTyped' /\ StRequestsOk' /\ StNumbered'
       /\ \A v \in StWorkers : stWorker'[v] = IF v = w THEN state ELSE stWorker[v]
  <2>1. stRoot' \in StRoots /\ stRoot.objects \subseteq stRoot'.objects BY <1>2, <1>7, <1>8
  <2>2. stDone' \in StCounts /\ stDone.restores <= stDone'.restores BY <1>2, <1>3, <1>9
  <2>3. /\ stAside' \subseteq StAsides /\ stRows' \in [all : SUBSET Nat, used : SUBSET Nat]
        /\ stPoint' \in StPoints /\ stLock' = stLock /\ stRows.all \subseteq stRows'.all
    BY <1>2, <1>3 DEF StTyped
  <2>4. state.at \notin {"away", "in", "drop"} BY <1>5
  <2> QED BY <1>2, <1>4, <1>10, <1>12, <2>1, <2>2, <2>3, <2>4, StCalm
<1>14. StIsPut' BY <1>2, <1>7, <1>9, <1>13, StIsPutStays DEF StInv
<1>15. StNamesNothing'
  <2>1. stRoot.there # FALSE
    <3>1. SUFFICES ASSUME stRoot.there = FALSE PROVE FALSE OBVIOUS
    <3>2. stWorker[w].at = "rename" /\ stRoot.temps = {} BY <1>2, <3>1 DEF StInv, StNamesNothing
    <3> QED BY <1>2, <3>2
  <2> QED BY <1>2, <1>7, <2>1 DEF StNamesNothing
<1>16. StPointOk' BY <1>2 DEF StInv, StPointOk
<1>17. StStoredOk' BY <1>2, <1>9, <1>10 DEF StInv, StStoredOk
<1>18. StRowsOk' BY <1>2, <1>7, <1>9 DEF StInv, StRowsOk
<1>19. StLockOk'
  <2>1. stLock.on = TRUE => id \in stLock.late BY <1>1, <1>2, <1>11 DEF StOk
  <2> QED BY <1>2, <1>7, <1>9, <2>1 DEF StInv, StLockOk
<1> QED BY <1>13, <1>14, <1>15, <1>16, <1>17, <1>18, <1>19 DEF StInv

\* The upload fails, and its temporary file is removed.
LEMMA StUploadFailsStep == ASSUME StInv, NEW w \in StWorkers, StUploadFails(w) PROVE StInv'
<1>1. PICK root : root = [stRoot EXCEPT !.temps = stRoot.temps \ {stWorker[w].id}] OBVIOUS
<1>2. /\ stWorker[w].at \in {"open", "rename"} /\ stRoot' = root /\ StGo(w, StIdle)
      /\ UNCHANGED <<stAside, stRows, stPoint, stLock, stDone>>
    BY <1>1 DEF StUploadFails
<1>3. StTyped /\ stRoot \in StRoots /\ stDone.restores \in Nat BY DEF StInv, StTyped, StCounts
<1>4. root = [there |-> stRoot.there, objects |-> stRoot.objects, temps |-> stRoot.temps \ {stWorker[w].id}]
  <2>1. PICK b \in BOOLEAN, o \in SUBSET Nat, t \in SUBSET Nat : stRoot = [there |-> b, objects |-> o, temps |-> t]
    BY <1>3 DEF StRoots
  <2>2. root = [x \in DOMAIN stRoot |-> IF x = "temps" THEN stRoot.temps \ {stWorker[w].id} ELSE stRoot[x]]
    BY <1>1
  <2>3. stRoot.objects = o /\ stRoot.temps = t /\ stRoot.there = b BY <2>1
  <2> QED BY <2>1, <2>2, <2>3
<1>5. root.objects = stRoot.objects /\ root.there = stRoot.there /\ root.temps \subseteq stRoot.temps BY <1>4
<1>6. root \in StRoots BY <1>3, <1>4 DEF StRoots
<1>7. StKept' = StKept BY <1>2, <1>5 DEF StKept, StHeld
<1>8. /\ StIdle \in StWorks /\ StIdle.at = "idle"
      /\ StOk(StIdle, stRoot'.objects, stRows'.all, stLock', stDone'.restores, StKept')
    BY StRests
<1>9. /\ StTyped' /\ StRequestsOk' /\ StNumbered'
      /\ \A v \in StWorkers : stWorker'[v] = IF v = w THEN StIdle ELSE stWorker[v]
    BY <1>2, <1>3, <1>5, <1>6, <1>7, <1>8, StCalm DEF StTyped
<1>10. StIsPut' BY <1>2, <1>5, <1>9, StIsPutStays DEF StInv
<1>11. StNamesNothing' /\ StPointOk' /\ StStoredOk' /\ StRowsOk' /\ StLockOk'
    BY <1>2, <1>5, <1>7 DEF StInv, StNamesNothing, StPointOk, StStoredOk, StRowsOk, StLockOk
<1> QED BY <1>9, <1>10, <1>11 DEF StInv

\* Evidence is recorded with a file that is stored, unless something was restored since.
LEMMA StRowStep == ASSUME StInv, NEW w \in StWorkers, StRow(w) PROVE StInv'
<1>1. PICK id, rows : id = stWorker[w].id /\ rows = [stRows EXCEPT !.all = stRows.all \cup {id}] OBVIOUS
<1>2. /\ stWorker[w].at = "row" /\ stRows' \in {stRows, rows} /\ StGo(w, StIdle)
      /\ UNCHANGED <<stRoot, stAside, stPoint, stLock, stDone>>
    BY <1>1 DEF StRow, StAt
<1>3. StTyped /\ stRows \in [all : SUBSET Nat, used : SUBSET Nat] /\ stDone.restores \in Nat
    BY DEF StInv, StTyped, StCounts
<1>4. id \in Nat BY <1>1, <1>2, <1>3, StUploading
<1>5. /\ rows \in [all : SUBSET Nat, used : SUBSET Nat] /\ rows.all = stRows.all \cup {id} /\ rows.used = stRows.used
    BY <1>1, <1>3, <1>4
<1>6. /\ stRows' \in [all : SUBSET Nat, used : SUBSET Nat] /\ stRows.all \subseteq stRows'.all
      /\ stRows'.all \subseteq stRows.all \cup {id} /\ stRows'.used = stRows.used
    BY <1>2, <1>3, <1>5
<1>7. StKept' = StKept BY <1>2 DEF StKept, StHeld
<1>8. /\ StIdle \in StWorks /\ StIdle.at = "idle"
      /\ StOk(StIdle, stRoot'.objects, stRows'.all, stLock', stDone'.restores, StKept')
    BY StRests
<1>9. /\ StTyped' /\ StRequestsOk' /\ StNumbered'
      /\ \A v \in StWorkers : stWorker'[v] = IF v = w THEN StIdle ELSE stWorker[v]
    BY <1>2, <1>3, <1>6, <1>7, <1>8, StCalm DEF StTyped
<1>10. StIsPut' BY <1>2, <1>9, StIsPutStays DEF StInv
<1>11. stDone.restores = 0 => id \in stRoot.objects
  <2>1. StOk(stWorker[w], stRoot.objects, stRows.all, stLock, stDone.restores, StKept) BY DEF StInv, StRequestsOk
  <2> QED BY <1>1, <1>2, <2>1 DEF StOk
<1>12. StRowsOk' BY <1>2, <1>6, <1>11 DEF StInv, StRowsOk
<1>13. StNamesNothing' /\ StPointOk' /\ StStoredOk' /\ StLockOk'
    BY <1>2, <1>7 DEF StInv, StNamesNothing, StPointOk, StStoredOk, StLockOk
<1> QED BY <1>9, <1>10, <1>12, <1>13 DEF StInv

\* A commercial document asks for its evidence, which has its row.
LEMMA StAskStep == ASSUME StInv, NEW w \in StWorkers, NEW id \in stRows.all, StAsk(w, id) PROVE StInv'
<1>1. PICK state : state = [at |-> "use", id |-> id] OBVIOUS
<1>2. /\ stWorker[w].at = "idle" /\ StGo(w, state) /\ UNCHANGED <<stRoot, stAside, stRows, stPoint, stLock, stDone>>
    BY <1>1 DEF StAsk, StAt
<1>3. StTyped /\ id \in Nat BY DEF StInv, StTyped
<1>4. state \in StWorks /\ state.at = "use" /\ state.id = id BY <1>1, <1>3 DEF StWorks
<1>5. StOk(state, stRoot.objects, stRows.all, stLock, stDone.restores, StKept) BY <1>4 DEF StOk
<1>6. stPoint' \in StPoints /\ StPointOk' /\ stDone' \in StCounts BY <1>2, <1>3 DEF StInv, StTyped, StPointOk
<1> QED BY <1>2, <1>4, <1>5, <1>6, StQuietStep

\* ... and is registered with it.
LEMMA StUseStep == ASSUME StInv, NEW w \in StWorkers, StUse(w) PROVE StInv'
<1>1. PICK id, rows : id = stWorker[w].id /\ rows = [stRows EXCEPT !.used = stRows.used \cup {id}] OBVIOUS
<1>2. /\ stWorker[w].at = "use" /\ stRows' = rows /\ StGo(w, StIdle)
      /\ UNCHANGED <<stRoot, stAside, stPoint, stLock, stDone>>
    BY <1>1 DEF StUse, StAt
<1>3. StTyped /\ stRows \in [all : SUBSET Nat, used : SUBSET Nat] /\ stDone.restores \in Nat
    BY DEF StInv, StTyped, StCounts
<1>4. id \in Nat BY <1>1, <1>2, <1>3, StUploading
<1>5. /\ rows \in [all : SUBSET Nat, used : SUBSET Nat] /\ rows.used = stRows.used \cup {id} /\ rows.all = stRows.all
    BY <1>1, <1>3, <1>4
<1>6. StKept' = StKept BY <1>2 DEF StKept, StHeld
<1>7. /\ StIdle \in StWorks /\ StIdle.at = "idle"
      /\ StOk(StIdle, stRoot'.objects, stRows'.all, stLock', stDone'.restores, StKept')
    BY StRests
<1>8. /\ StTyped' /\ StRequestsOk' /\ StNumbered'
      /\ \A v \in StWorkers : stWorker'[v] = IF v = w THEN StIdle ELSE stWorker[v]
    BY <1>2, <1>3, <1>5, <1>6, <1>7, StCalm DEF StTyped
<1>9. StIsPut' BY <1>2, <1>8, StIsPutStays DEF StInv
<1>10. id \in stRows.all
  <2>1. StOk(stWorker[w], stRoot.objects, stRows.all, stLock, stDone.restores, StKept) BY DEF StInv, StRequestsOk
  <2> QED BY <1>1, <1>2, <2>1 DEF StOk
<1>11. StRowsOk' BY <1>2, <1>5, <1>10 DEF StInv, StRowsOk
<1>12. StNamesNothing' /\ StPointOk' /\ StStoredOk' /\ StLockOk'
    BY <1>2, <1>6 DEF StInv, StNamesNothing, StPointOk, StStoredOk, StLockOk
<1> QED BY <1>8, <1>9, <1>11, <1>12 DEF StInv

\* What an archive that is being read found, and where it is.
StRead(l, f, h, u, c, q) == [at |-> "read", listed |-> l, left |-> f, has |-> h, temps |-> u, copied |-> c, quiet |-> q]

\* The fields of such a record.
LEMMA StReadFields ==
    ASSUME NEW l, NEW f, NEW h, NEW u, NEW c, NEW q, NEW r, r = StRead(l, f, h, u, c, q)
    PROVE  r.at = "read" /\ r.listed = l /\ r.left = f /\ r.has = h /\ r.temps = u /\ r.copied = c /\ r.quiet = q
BY DEF StRead

\* What a disturbance makes of it.
LEMMA StReadDisturbed ==
    ASSUME NEW l, NEW f, NEW h, NEW u, NEW c, NEW q, NEW s
    PROVE  [StRead(l, f, h, u, c, q) EXCEPT !.quiet = s] = StRead(l, f, h, u, c, s)
<1>1. PICK r : r = StRead(l, f, h, u, c, q) OBVIOUS
<1>2. r = [at |-> "read", listed |-> l, left |-> f, has |-> h, temps |-> u, copied |-> c, quiet |-> q] BY <1>1 DEF StRead
<1>3. [r EXCEPT !.quiet = s] = [x \in DOMAIN r |-> IF x = "quiet" THEN s ELSE r[x]]
    OBVIOUS
<1>4. [r EXCEPT !.quiet = s] = StRead(l, f, h, u, c, s) BY <1>2, <1>3 DEF StRead
<1> QED BY <1>1, <1>4

\* Such a record is a state of a request.
LEMMA StReadWork ==
    ASSUME NEW l \in SUBSET Nat, NEW f \in SUBSET Nat, NEW h \in SUBSET Nat, NEW u \in SUBSET Nat,
           NEW c \in SUBSET Nat, NEW q \in BOOLEAN
    PROVE  StRead(l, f, h, u, c, q) \in StWorks
BY DEF StWorks, StRead

\* Every member of a set of such records is one.
LEMMA StReadIs ==
    ASSUME NEW S, NEW B,
           NEW r \in [at : {"read"}, listed : S, left : S, has : S, temps : S, copied : S, quiet : B]
    PROVE  /\ r.listed \in S /\ r.left \in S /\ r.has \in S /\ r.temps \in S /\ r.copied \in S /\ r.quiet \in B
           /\ r = StRead(r.listed, r.left, r.has, r.temps, r.copied, r.quiet)
BY DEF StRead

\* The fields of an archive that is being read.
LEMMA StReading ==
    ASSUME StTyped, NEW w \in StWorkers, stWorker[w].at = "read"
    PROVE  \E l \in SUBSET Nat, f \in SUBSET Nat, h \in SUBSET Nat, u \in SUBSET Nat, c \in SUBSET Nat, q \in BOOLEAN :
               stWorker[w] = StRead(l, f, h, u, c, q)
<1>1. stWorker[w] \in StWorks BY DEF StTyped
<1>2. stWorker[w] \in [at : {"read"}, listed : SUBSET Nat, left : SUBSET Nat, has : SUBSET Nat,
                       temps : SUBSET Nat, copied : SUBSET Nat, quiet : BOOLEAN]
    BY <1>1 DEF StWorks, StIdle
<1>3. PICK B, S : B = BOOLEAN /\ S = SUBSET Nat OBVIOUS
<1>4. PICK r : r = stWorker[w] OBVIOUS
<1>5. r \in [at : {"read"}, listed : S, left : S, has : S, temps : S, copied : S, quiet : B] BY <1>2, <1>3, <1>4, Zenon
<1>6. /\ r.listed \in S /\ r.left \in S /\ r.has \in S /\ r.temps \in S /\ r.copied \in S /\ r.quiet \in B
      /\ r = StRead(r.listed, r.left, r.has, r.temps, r.copied, r.quiet)
    BY <1>5, StReadIs
<1>7. PICK l, f, h, u, c, q : /\ l = r.listed /\ f = r.left /\ h = r.has /\ u = r.temps /\ c = r.copied /\ q = r.quiet
    OBVIOUS
<1>8. /\ l \in SUBSET Nat /\ f \in SUBSET Nat /\ h \in SUBSET Nat /\ u \in SUBSET Nat /\ c \in SUBSET Nat
    BY <1>3, <1>6, <1>7
<1>9. q \in BOOLEAN BY <1>3, <1>6, <1>7, Zenon
<1>10. stWorker[w] = StRead(l, f, h, u, c, q) BY <1>4, <1>6, <1>7
<1> QED BY <1>8, <1>9, <1>10

\* The files are listed, all of them there.
LEMMA StListStep == ASSUME StInv, NEW w \in StWorkers, StList(w) PROVE StInv'
<1>1. PICK q : q = (stRoot.temps = {}) OBVIOUS
<1>2. q \in BOOLEAN /\ (q = TRUE => stRoot.temps = {}) BY <1>1, Zenon
<1>3. PICK done, state :
          /\ done = [stDone EXCEPT !.archives = stDone.archives + 1]
          /\ state = StRead(stRoot.objects, stRoot.objects, {}, stRoot.temps, {}, q)
    OBVIOUS
<1>4. /\ stWorker[w].at = "idle" /\ stDone' = done /\ UNCHANGED <<stRoot, stAside, stRows, stPoint, stLock>>
    BY <1>3 DEF StList, StAt
<1>5. StGo(w, state) BY <1>1, <1>3, Zenon DEF StList, StRead
<1>6. StTyped /\ stDone \in StCounts /\ stRoot.objects \in SUBSET Nat /\ stRoot.temps \in SUBSET Nat
    BY DEF StInv, StTyped, StRoots
<1>7. /\ done \in StCounts /\ done.stored = stDone.stored /\ done.replaced = stDone.replaced
      /\ done.restores = stDone.restores /\ done.stops = stDone.stops
    BY <1>3, <1>6 DEF StCounts
<1>8. state \in StWorks BY <1>2, <1>3, <1>6, StReadWork
<1>9. /\ state.at = "read" /\ state.listed = stRoot.objects /\ state.left = stRoot.objects /\ state.has = {}
      /\ state.temps = stRoot.temps /\ state.quiet = q
    BY <1>3, StReadFields
<1>10. StOk(state, stRoot.objects, stRows.all, stLock, stDone.restores, StKept) BY <1>2, <1>9 DEF StOk
<1>11. stPoint' \in StPoints /\ StPointOk' BY <1>4, <1>6 DEF StInv, StTyped, StPointOk
<1> QED BY <1>4, <1>5, <1>7, <1>8, <1>9, <1>10, <1>11, StQuietStep

\* An archive that ends is whole if it says so.
LEMMA StArchivedStep ==
    ASSUME StInv, NEW w \in StWorkers, stWorker[w].at = "read", StArchived(w, stWorker[w]),
           UNCHANGED <<stRoot, stAside, stRows, stLock, stDone>>,
           stWorker[w].quiet = TRUE => stWorker[w].has = stWorker[w].listed
    PROVE  StInv'
<1>1. StTyped /\ stDone' \in StCounts BY DEF StInv, StTyped
<1>2. PICK l \in SUBSET Nat, f \in SUBSET Nat, h \in SUBSET Nat, u \in SUBSET Nat, c \in SUBSET Nat, q \in BOOLEAN :
          stWorker[w] = StRead(l, f, h, u, c, q)
    BY <1>1, StReading
<1>3. h = stWorker[w].has /\ c = stWorker[w].copied /\ l = stWorker[w].listed /\ q = stWorker[w].quiet
    BY <1>2, StReadFields
<1>4. /\ stPoint' = [taken |-> TRUE, has |-> h, temps |-> c, listed |-> l, quiet |-> q]
      /\ StGo(w, StIdle)
    BY <1>3 DEF StArchived
<1>5. stPoint' \in StPoints BY <1>2, <1>4 DEF StPoints
<1>6. stPoint'.has = h /\ stPoint'.listed = l /\ stPoint'.quiet = q BY <1>4
<1>7. StPointOk' BY <1>3, <1>6 DEF StPointOk
<1>8. /\ StIdle \in StWorks /\ StIdle.at = "idle"
      /\ StOk(StIdle, stRoot.objects, stRows.all, stLock, stDone.restores, StKept)
    BY StRests
<1> QED BY <1>1, <1>4, <1>5, <1>7, <1>8, StQuietStep

\* A temporary file is read, or is gone: an archive that lists one is not quiet.
LEMMA StReadTempStep == ASSUME StInv, NEW w \in StWorkers, StReadTemp(w) PROVE StInv'
<1>1. stWorker[w].at = "read" /\ stWorker[w].temps # {} /\ UNCHANGED <<stRoot, stAside, stRows, stLock, stDone>>
    BY DEF StReadTemp, StAt
<1>2. StTyped /\ stDone' \in StCounts /\ stPoint \in StPoints BY <1>1 DEF StInv, StTyped
<1>3. StOk(stWorker[w], stRoot.objects, stRows.all, stLock, stDone.restores, StKept) BY DEF StInv, StRequestsOk
<1>4. stWorker[w].quiet # TRUE /\ stWorker[w].listed = stWorker[w].left \cup stWorker[w].has BY <1>1, <1>3 DEF StOk
<1>5. PICK t \in stWorker[w].temps :
          \/ /\ StGo(w, [stWorker[w] EXCEPT !.temps = stWorker[w].temps \ {t}, !.copied = stWorker[w].copied \cup {t}])
             /\ stPoint' = stPoint
          \/ StArchived(w, stWorker[w])
    BY DEF StReadTemp
<1>6. CASE StArchived(w, stWorker[w]) BY <1>1, <1>4, <1>6, StArchivedStep
<1>7. CASE /\ StGo(w, [stWorker[w] EXCEPT !.temps = stWorker[w].temps \ {t}, !.copied = stWorker[w].copied \cup {t}])
           /\ stPoint' = stPoint
  <2>1. PICK l \in SUBSET Nat, f \in SUBSET Nat, h \in SUBSET Nat, u \in SUBSET Nat, c \in SUBSET Nat, q \in BOOLEAN :
            stWorker[w] = StRead(l, f, h, u, c, q)
    BY <1>1, <1>2, StReading
  <2>2. /\ l = stWorker[w].listed /\ f = stWorker[w].left /\ h = stWorker[w].has /\ u = stWorker[w].temps
        /\ c = stWorker[w].copied /\ q = stWorker[w].quiet
    BY <2>1, StReadFields
  <2>3. PICK s, d : s = u \ {t} /\ d = c \cup {t} OBVIOUS
  <2>4. s \in SUBSET Nat /\ d \in SUBSET Nat
    <3>1. t \in Nat BY <2>2
    <3> QED BY <2>3, <3>1
  <2>5. PICK state : state = StRead(l, f, h, s, d, q) OBVIOUS
  <2>6. /\ state.at = "read" /\ state.listed = l /\ state.left = f /\ state.has = h /\ state.quiet = q
    BY <2>5, StReadFields
  <2>7. state \in StWorks BY <2>4, <2>5, StReadWork
  <2>8. StOk(state, stRoot.objects, stRows.all, stLock, stDone.restores, StKept) BY <1>4, <2>2, <2>6 DEF StOk
  <2>9. StGo(w, state)
    <3>1. PICK r : r = stWorker[w] OBVIOUS
    <3>2. r = [at |-> "read", listed |-> l, left |-> f, has |-> h, temps |-> u, copied |-> c, quiet |-> q]
      BY <2>1, <3>1 DEF StRead
    <3>3. [r EXCEPT !.temps = s, !.copied = d] = [x \in DOMAIN r |-> IF x = "temps" THEN s ELSE IF x = "copied" THEN d ELSE r[x]]
      OBVIOUS
    <3>4. [r EXCEPT !.temps = s, !.copied = d] = state BY <2>5, <3>2, <3>3 DEF StRead
    <3>5. [stWorker[w] EXCEPT !.temps = s, !.copied = d] = state BY <3>1, <3>4
    <3> QED BY <1>7, <2>2, <2>3, <3>5
  <2>10. stPoint' \in StPoints /\ StPointOk' BY <1>2, <1>7 DEF StInv, StPointOk
  <2> QED BY <1>1, <1>2, <2>6, <2>7, <2>8, <2>9, <2>10, StQuietStep
<1> QED BY <1>5, <1>6, <1>7

\* An object is read, or is gone: then something was restored, and the archive is not quiet.
LEMMA StReadObjectStep == ASSUME StInv, NEW w \in StWorkers, StReadObject(w) PROVE StInv'
<1>1. stWorker[w].at = "read" /\ UNCHANGED <<stRoot, stAside, stRows, stLock, stDone>>
    BY DEF StReadObject, StAt
<1>2. StTyped /\ stDone' \in StCounts /\ stPoint \in StPoints BY <1>1 DEF StInv, StTyped
<1>3. StOk(stWorker[w], stRoot.objects, stRows.all, stLock, stDone.restores, StKept) BY DEF StInv, StRequestsOk
<1>4. /\ stWorker[w].listed = stWorker[w].left \cup stWorker[w].has
      /\ stWorker[w].quiet = TRUE => stWorker[w].temps = {} /\ stWorker[w].left \subseteq stRoot.objects
    BY <1>1, <1>3 DEF StOk
<1>5. PICK o \in stWorker[w].left :
          \/ /\ StGo(w, [stWorker[w] EXCEPT !.left = stWorker[w].left \ {o}, !.has = stWorker[w].has \cup {o}])
             /\ stPoint' = stPoint
          \/ o \notin stRoot.objects /\ StArchived(w, stWorker[w])
    BY DEF StReadObject
<1>6. CASE o \notin stRoot.objects /\ StArchived(w, stWorker[w]) BY <1>1, <1>4, <1>6, StArchivedStep
<1>7. CASE /\ StGo(w, [stWorker[w] EXCEPT !.left = stWorker[w].left \ {o}, !.has = stWorker[w].has \cup {o}])
           /\ stPoint' = stPoint
  <2>1. PICK l \in SUBSET Nat, f \in SUBSET Nat, h \in SUBSET Nat, u \in SUBSET Nat, c \in SUBSET Nat, q \in BOOLEAN :
            stWorker[w] = StRead(l, f, h, u, c, q)
    BY <1>1, <1>2, StReading
  <2>2. /\ l = stWorker[w].listed /\ f = stWorker[w].left /\ h = stWorker[w].has /\ u = stWorker[w].temps
        /\ c = stWorker[w].copied /\ q = stWorker[w].quiet
    BY <2>1, StReadFields
  <2>3. PICK s, d : s = f \ {o} /\ d = h \cup {o} OBVIOUS
  <2>4. s \in SUBSET Nat /\ d \in SUBSET Nat
    <3>1. o \in Nat BY <2>2
    <3> QED BY <2>3, <3>1
  <2>5. PICK state : state = StRead(l, s, d, u, c, q) OBVIOUS
  <2>6. /\ state.at = "read" /\ state.listed = l /\ state.left = s /\ state.has = d
        /\ state.temps = u /\ state.quiet = q
    BY <2>5, StReadFields
  <2>7. state \in StWorks BY <2>4, <2>5, StReadWork
  <2>8. StOk(state, stRoot.objects, stRows.all, stLock, stDone.restores, StKept) BY <1>4, <2>2, <2>3, <2>6 DEF StOk
  <2>9. StGo(w, state)
    <3>1. PICK r : r = stWorker[w] OBVIOUS
    <3>2. r = [at |-> "read", listed |-> l, left |-> f, has |-> h, temps |-> u, copied |-> c, quiet |-> q]
      BY <2>1, <3>1 DEF StRead
    <3>3. [r EXCEPT !.left = s, !.has = d] = [x \in DOMAIN r |-> IF x = "left" THEN s ELSE IF x = "has" THEN d ELSE r[x]]
      OBVIOUS
    <3>4. [r EXCEPT !.left = s, !.has = d] = state BY <2>5, <3>2, <3>3 DEF StRead
    <3>5. [stWorker[w] EXCEPT !.left = s, !.has = d] = state BY <3>1, <3>4
    <3> QED BY <1>7, <2>2, <2>3, <3>5
  <2>10. stPoint' \in StPoints /\ StPointOk' BY <1>2, <1>7 DEF StInv, StPointOk
  <2> QED BY <1>1, <1>2, <2>6, <2>7, <2>8, <2>9, <2>10, StQuietStep
<1> QED BY <1>5, <1>6, <1>7

\* Everything is read.
LEMMA StReadAllStep == ASSUME StInv, NEW w \in StWorkers, StReadAll(w) PROVE StInv'
<1>1. /\ stWorker[w].at = "read" /\ stWorker[w].left = {} /\ StArchived(w, stWorker[w])
      /\ UNCHANGED <<stRoot, stAside, stRows, stLock, stDone>>
    BY DEF StReadAll, StAt
<1>2. StOk(stWorker[w], stRoot.objects, stRows.all, stLock, stDone.restores, StKept) BY DEF StInv, StRequestsOk
<1>3. stWorker[w].has = stWorker[w].listed BY <1>1, <1>2 DEF StOk
<1> QED BY <1>1, <1>3, StArchivedStep

\* The fields of a restore.
LEMMA StRestoring ==
    ASSUME StTyped, NEW w \in StWorkers, stWorker[w].at \in {"away", "in", "drop"}, NEW at \in {"away", "in", "drop"}
    PROVE  /\ stWorker[w].new \in SUBSET Nat /\ stWorker[w].temps \in SUBSET Nat /\ stWorker[w].n \in Nat
           /\ [stWorker[w] EXCEPT !.at = at] =
                 [at |-> at, new |-> stWorker[w].new, temps |-> stWorker[w].temps, n |-> stWorker[w].n]
           /\ [stWorker[w] EXCEPT !.at = at] \in StWorks
<1>1. stWorker[w] \in StWorks BY DEF StTyped
<1>2. PICK a \in {"away", "in", "drop"}, new \in SUBSET Nat, t \in SUBSET Nat, n \in Nat :
          stWorker[w] = [at |-> a, new |-> new, temps |-> t, n |-> n]
  <2>1. stWorker[w] \in [at : {"away", "in", "drop"}, new : SUBSET Nat, temps : SUBSET Nat, n : Nat]
    BY <1>1 DEF StWorks, StIdle
  <2> QED BY <2>1
<1>3. stWorker[w].new = new /\ stWorker[w].temps = t /\ stWorker[w].n = n BY <1>2
<1>4. [stWorker[w] EXCEPT !.at = at] = [at |-> at, new |-> new, temps |-> t, n |-> n] BY <1>2
<1> QED BY <1>3, <1>4 DEF StWorks

\* A move of the directory leaves the other requests where they are; archives only learn of it.
LEMMA StDisturbs ==
    ASSUME StTyped, NEW w \in StWorkers, NEW state \in StWorks, state.at # "read",
           stWorker' = StDisturbed([stWorker EXCEPT ![w] = state])
    PROVE  /\ stWorker' \in [StWorkers -> StWorks] /\ stWorker'[w] = state
           /\ \A v \in StWorkers : v # w => stWorker'[v].at = stWorker[v].at
           /\ \A v \in StWorkers : v # w /\ stWorker[v].at # "read" => stWorker'[v] = stWorker[v]
           /\ \A v \in StWorkers : v # w /\ stWorker[v].at = "read" =>
                 /\ stWorker'[v].listed = stWorker[v].listed /\ stWorker'[v].left = stWorker[v].left
                 /\ stWorker'[v].has = stWorker[v].has /\ stWorker'[v].quiet = FALSE
<1>1. PICK ws : ws = [stWorker EXCEPT ![w] = state] OBVIOUS
<1>2. ws \in [StWorkers -> StWorks] /\ \A v \in StWorkers : ws[v] = IF v = w THEN state ELSE stWorker[v]
    BY <1>1 DEF StTyped
<1>3. stWorker' = [v \in StWorkers |-> IF ws[v].at = "read" THEN [ws[v] EXCEPT !.quiet = FALSE] ELSE ws[v]]
    BY <1>1 DEF StDisturbed
<1>4. stWorker'[w] = state BY <1>2, <1>3
<1>5. ASSUME NEW v \in StWorkers, v # w, stWorker[v].at # "read" PROVE stWorker'[v] = stWorker[v]
    BY <1>2, <1>3, <1>5
<1>6. ASSUME NEW v \in StWorkers, v # w, stWorker[v].at = "read"
      PROVE  /\ stWorker'[v] \in StWorks /\ stWorker'[v].at = "read"
             /\ stWorker'[v].listed = stWorker[v].listed /\ stWorker'[v].left = stWorker[v].left
             /\ stWorker'[v].has = stWorker[v].has /\ stWorker'[v].quiet = FALSE
  <2>1. PICK l \in SUBSET Nat, f \in SUBSET Nat, h \in SUBSET Nat, u \in SUBSET Nat, c \in SUBSET Nat, q \in BOOLEAN :
            stWorker[v] = StRead(l, f, h, u, c, q)
    BY <1>6, StReading
  <2>2. PICK r : r = stWorker[v] OBVIOUS
  <2>3. ws[v] = r BY <1>2, <1>6, <2>2
  <2>4. stWorker'[v] = [r EXCEPT !.quiet = FALSE]
    <3>1. stWorker'[v] = IF ws[v].at = "read" THEN [ws[v] EXCEPT !.quiet = FALSE] ELSE ws[v] BY <1>3, Zenon
    <3>2. ws[v].at = "read" BY <1>6, <2>2, <2>3
    <3>3. stWorker'[v] = [ws[v] EXCEPT !.quiet = FALSE] BY <3>1, <3>2, Zenon
    <3> QED BY <2>3, <3>3, Zenon
  <2>5. PICK b : b = FALSE OBVIOUS
  <2>6. r = [at |-> "read", listed |-> l, left |-> f, has |-> h, temps |-> u, copied |-> c, quiet |-> q]
    BY <2>1, <2>2 DEF StRead
  <2>7. [r EXCEPT !.quiet = b] = [x \in DOMAIN r |-> IF x = "quiet" THEN b ELSE r[x]] OBVIOUS
  <2>8. [r EXCEPT !.quiet = b] = StRead(l, f, h, u, c, b) BY <2>6, <2>7 DEF StRead
  <2>9. stWorker'[v] = StRead(l, f, h, u, c, b) BY <2>4, <2>5, <2>8, Zenon
  <2>10. PICK r2 : r2 = stWorker'[v] OBVIOUS
  <2>11. r2.at = "read" /\ r2.listed = l /\ r2.left = f /\ r2.has = h /\ r2.quiet = b
    BY <2>9, <2>10, StReadFields
  <2>12. r.listed = l /\ r.left = f /\ r.has = h BY <2>6
  <2>13. b \in BOOLEAN BY <2>5
  <2>14. stWorker'[v] \in StWorks BY <2>9, <2>13, StReadWork
  <2>15. r2.quiet = FALSE BY <2>5, <2>11, Zenon
  <2> QED BY <2>2, <2>10, <2>11, <2>12, <2>14, <2>15
<1>7. stWorker' \in [StWorkers -> StWorks]
  <2>1. \A v \in StWorkers : stWorker'[v] \in StWorks
    <3>1. TAKE v \in StWorkers
    <3>2. CASE v = w BY <1>4, <3>2
    <3>3. CASE v # w /\ stWorker[v].at = "read" BY <1>6, <3>3
    <3>4. CASE v # w /\ stWorker[v].at # "read"
      <4>1. stWorker[v] \in StWorks BY DEF StTyped
      <4> QED BY <1>5, <3>4, <4>1
    <3> QED BY <3>2, <3>3, <3>4
  <2>2. PICK f : f = [v \in StWorkers |-> IF ws[v].at = "read" THEN [ws[v] EXCEPT !.quiet = FALSE] ELSE ws[v]] OBVIOUS
  <2>3. stWorker' = f BY <1>3, <2>2
  <2>4. f = [v \in StWorkers |-> f[v]] BY <2>2
  <2>5. \A v \in StWorkers : f[v] \in StWorks BY <2>1, <2>3
  <2> QED BY <2>3, <2>4, <2>5
<1> QED BY <1>4, <1>5, <1>6, <1>7

\* A move of the directory keeps what the requests rely on, if everything is kept.
LEMMA StMoveStep ==
    ASSUME StInv, NEW w \in StWorkers, NEW state \in StWorks, state.at # "read",
           stWorker' = StDisturbed([stWorker EXCEPT ![w] = state]),
           stWorker[w].at \in {"away", "in"}, stRoot' \in StRoots, stAside' \subseteq StAsides,
           UNCHANGED <<stRows, stPoint, stLock, stDone>>, StKept \subseteq StKept',
           StOk(state, stRoot'.objects, stRows.all, stLock, stDone.restores, StKept'),
           state.at \in {"away", "in", "drop"} => state.n = stWorker[w].n
    PROVE  /\ StTyped' /\ StRequestsOk' /\ StNumbered' /\ StPointOk' /\ StStoredOk' /\ StRowsOk' /\ StLockOk'
           /\ stWorker'[w] = state
           /\ \A v \in StWorkers : v # w /\ stWorker[v].at # "read" => stWorker'[v] = stWorker[v]
<1>1. /\ StTyped /\ StRequestsOk /\ StNumbered /\ stDone.restores \in Nat
    BY DEF StInv, StTyped, StCounts
<1>2. /\ stWorker' \in [StWorkers -> StWorks] /\ stWorker'[w] = state
      /\ \A v \in StWorkers : v # w => stWorker'[v].at = stWorker[v].at
      /\ \A v \in StWorkers : v # w /\ stWorker[v].at # "read" => stWorker'[v] = stWorker[v]
      /\ \A v \in StWorkers : v # w /\ stWorker[v].at = "read" =>
            /\ stWorker'[v].listed = stWorker[v].listed /\ stWorker'[v].left = stWorker[v].left
            /\ stWorker'[v].has = stWorker[v].has /\ stWorker'[v].quiet = FALSE
    BY <1>1, StDisturbs
<1>3. stDone.restores # 0
  <2>1. StOk(stWorker[w], stRoot.objects, stRows.all, stLock, stDone.restores, StKept) BY <1>1 DEF StRequestsOk
  <2>2. stWorker[w].n < stDone.restores /\ stWorker[w].n \in Nat BY <1>1, <2>1, StRestoring DEF StOk
  <2> QED BY <1>1, <2>2
<1>4. StTyped' BY <1>1, <1>2 DEF StTyped
<1>5. StRequestsOk'
  <2>1. SUFFICES ASSUME NEW v \in StWorkers
                 PROVE  StOk(stWorker'[v], stRoot'.objects, stRows.all, stLock, stDone.restores, StKept')
    BY DEF StRequestsOk
  <2>2. CASE v = w
    <3>1. stWorker'[v] = state BY <1>2, <2>2
    <3> QED BY <3>1
  <2>3. CASE v # w /\ stWorker[v].at = "read"
    <3>1. StOk(stWorker[v], stRoot.objects, stRows.all, stLock, stDone.restores, StKept) BY <1>1 DEF StRequestsOk
    <3>2. stWorker[v].listed = stWorker[v].left \cup stWorker[v].has BY <2>3, <3>1 DEF StOk
    <3>3. PICK r : r = stWorker'[v] OBVIOUS
    <3>4. r.at = "read" /\ r.listed = r.left \cup r.has /\ r.quiet = FALSE BY <1>2, <2>3, <3>2, <3>3
    <3>5. r.quiet # TRUE BY <3>4, Zenon
    <3>6. StOk(r, stRoot'.objects, stRows.all, stLock, stDone.restores, StKept') BY <3>4, <3>5 DEF StOk
    <3> QED BY <3>3, <3>6
  <2>4. CASE v # w /\ stWorker[v].at # "read"
    <3>1. StOk(stWorker[v], stRoot.objects, stRows.all, stLock, stDone.restores, StKept) BY <1>1 DEF StRequestsOk
    <3>2. StOk(stWorker[v], stRoot'.objects, stRows.all, stLock, stDone.restores, StKept') BY <1>3, <2>4, <3>1 DEF StOk
    <3> QED BY <1>2, <2>4, <3>2
  <2> QED BY <2>2, <2>3, <2>4
<1>6. StNumbered'
  <2>1. \A v \in StWorkers : stWorker'[v].at \in {"away", "in", "drop"} =>
            stWorker[v].at \in {"away", "in", "drop"} /\ stWorker'[v].n = stWorker[v].n
    <3>1. TAKE v \in StWorkers
    <3>2. CASE v = w BY <1>2, <3>2
    <3>3. CASE v # w
      <4>1. stWorker'[v].at = stWorker[v].at BY <1>2, <3>3
      <4>2. stWorker[v].at \in {"away", "in", "drop"} => stWorker'[v] = stWorker[v] BY <1>2, <3>3
      <4> QED BY <4>1, <4>2
    <3> QED BY <3>2, <3>3
  <2>2. ASSUME NEW u \in StWorkers, NEW v \in StWorkers, stWorker'[u].at \in {"away", "in", "drop"},
               stWorker'[v].at \in {"away", "in", "drop"}, stWorker'[u].n = stWorker'[v].n
        PROVE  u = v
    <3>1. stWorker[u].at \in {"away", "in", "drop"} /\ stWorker'[u].n = stWorker[u].n BY <2>1, <2>2
    <3>2. stWorker[v].at \in {"away", "in", "drop"} /\ stWorker'[v].n = stWorker[v].n BY <2>1, <2>2
    <3> QED BY <1>1, <2>2, <3>1, <3>2 DEF StNumbered
  <2> QED BY <2>2 DEF StNumbered
<1>7. StPointOk' /\ StStoredOk' /\ StRowsOk' /\ StLockOk'
    BY <1>3 DEF StInv, StPointOk, StStoredOk, StRowsOk, StLockOk
<1> QED BY <1>2, <1>4, <1>5, <1>6, <1>7

\* A restore begins: whatever is restored from here on, its number is new.
LEMMA StRestoreStep == ASSUME StInv, NEW w \in StWorkers, StRestore(w) PROVE StInv'
<1>1. PICK done, state :
          /\ done = [stDone EXCEPT !.restores = stDone.restores + 1]
          /\ state = [at |-> "away", new |-> stPoint.has, temps |-> stPoint.temps, n |-> stDone.restores]
    OBVIOUS
<1>2. /\ stWorker[w].at = "idle" /\ stDone' = done /\ StGo(w, state)
      /\ UNCHANGED <<stRoot, stAside, stRows, stPoint, stLock>>
    BY <1>1 DEF StRestore, StAt
<1>3. /\ StTyped /\ stDone \in StCounts /\ stDone.restores \in Nat
      /\ stPoint.has \in SUBSET Nat /\ stPoint.temps \in SUBSET Nat
    BY DEF StInv, StTyped, StCounts, StPoints
<1>4. /\ done \in StCounts /\ done.stored = stDone.stored /\ done.replaced = stDone.replaced
      /\ done.restores = stDone.restores + 1 /\ done.stops = stDone.stops
    BY <1>1, <1>3 DEF StCounts
<1>5. state \in StWorks
  <2>1. state \in [at : {"away", "in", "drop"}, new : SUBSET Nat, temps : SUBSET Nat, n : Nat] BY <1>1, <1>3
  <2> QED BY <2>1 DEF StWorks
<1>6. state.at = "away" /\ state.n = stDone.restores BY <1>1
<1>7. StKept' = StKept BY <1>2, <1>4 DEF StKept, StHeld
<1>8. StOk(state, stRoot'.objects, stRows'.all, stLock', stDone'.restores, StKept')
    BY <1>2, <1>3, <1>4, <1>6 DEF StOk
<1>9. /\ StTyped' /\ StRequestsOk' /\ StNumbered'
      /\ \A v \in StWorkers : stWorker'[v] = IF v = w THEN state ELSE stWorker[v]
  <2>1. /\ stRoot' \in StRoots /\ stAside' \subseteq StAsides /\ stRows' \in [all : SUBSET Nat, used : SUBSET Nat]
        /\ stPoint' \in StPoints /\ stLock' = stLock /\ stRows.all \subseteq stRows'.all
        /\ stRoot.objects \subseteq stRoot'.objects
    BY <1>2, <1>3 DEF StTyped
  <2>2. stDone' \in StCounts /\ stDone.restores <= stDone'.restores BY <1>2, <1>3, <1>4
  <2> QED BY <1>2, <1>5, <1>6, <1>7, <1>8, <2>1, <2>2, StCalm
<1>10. StIsPut' BY <1>2, <1>4, <1>9, StIsPutStays DEF StInv
<1>11. stDone'.restores # 0 BY <1>2, <1>3, <1>4
<1>12. StNamesNothing' /\ StPointOk' /\ StStoredOk' /\ StRowsOk' /\ StLockOk'
    BY <1>2, <1>4, <1>7, <1>11 DEF StInv, StNamesNothing, StPointOk, StStoredOk, StRowsOk, StLockOk
<1> QED BY <1>9, <1>10, <1>12 DEF StInv

\* The directory is renamed away: whoever did it holds it.
LEMMA StAwayStep == ASSUME StInv, NEW w \in StWorkers, StAway(w) PROVE StInv'
<1>1. PICK state, d : /\ state = [stWorker[w] EXCEPT !.at = "in"]
                      /\ d = [by |-> stWorker[w].n, objects |-> stRoot.objects, temps |-> stRoot.temps]
    OBVIOUS
<1>2. /\ stWorker[w].at = "away" /\ stAside' = stAside \cup (IF stRoot.there THEN {d} ELSE {})
      /\ stRoot' = StGone /\ stWorker' = StDisturbed([stWorker EXCEPT ![w] = state])
      /\ UNCHANGED <<stRows, stPoint, stLock, stDone>>
    BY <1>1 DEF StAway, StAt
<1>3. /\ StTyped /\ stRoot \in StRoots /\ stAside \subseteq StAsides /\ stRoot.there \in BOOLEAN
      /\ stRoot.objects \in SUBSET Nat /\ stRoot.temps \in SUBSET Nat
    BY DEF StInv, StTyped, StRoots
<1>4. /\ stWorker[w].n \in Nat /\ state \in StWorks
      /\ state = [at |-> "in", new |-> stWorker[w].new, temps |-> stWorker[w].temps, n |-> stWorker[w].n]
    BY <1>1, <1>2, <1>3, StRestoring
<1>5. state.at = "in" /\ state.n = stWorker[w].n BY <1>4
<1>6. d \in StAsides /\ d.by = stWorker[w].n /\ d.objects = stRoot.objects BY <1>1, <1>3, <1>4 DEF StAsides
<1>7. stRoot' = [there |-> FALSE, objects |-> {}, temps |-> {}] BY <1>2 DEF StGone
<1>8. stRoot' \in StRoots /\ stRoot'.objects = {} /\ stRoot'.temps = {} BY <1>7 DEF StRoots
<1>9. \/ stRoot.there = TRUE /\ stAside' = stAside \cup {d}
      \/ stRoot.there = FALSE /\ stAside' = stAside
  <2>1. stAside \cup {} = stAside OBVIOUS
  <2> QED BY <1>2, <1>3, <2>1, Zenon
<1>10. stAside' \subseteq StAsides /\ stAside \subseteq stAside' BY <1>3, <1>6, <1>9
<1>11. StKept' = StKept
  <2>1. StKept' = StHas({}, stAside', stDone.replaced) BY <1>2, <1>8 DEF StKept, StHeld, StHas
  <2>2. CASE stRoot.there = TRUE /\ stAside' = stAside \cup {d}
    <3>1. StHas(stRoot.objects, stAside, stDone.replaced) = StHas({}, stAside \cup {d}, stDone.replaced)
      BY <1>6, StHasAside
    <3> QED BY <2>1, <2>2, <3>1, StKeptIs
  <2>3. CASE stRoot.there = FALSE /\ stAside' = stAside
    <3>1. stRoot.objects = {} BY <2>3 DEF StInv, StNamesNothing
    <3> QED BY <2>1, <2>3, <3>1, StKeptIs
  <2> QED BY <1>9, <2>2, <2>3
<1>12. StOk(state, stRoot'.objects, stRows.all, stLock, stDone.restores, StKept')
  <2>1. StOk(stWorker[w], stRoot.objects, stRows.all, stLock, stDone.restores, StKept) BY DEF StInv, StRequestsOk
  <2> QED BY <1>2, <1>5, <2>1 DEF StOk
<1>13. /\ StTyped' /\ StRequestsOk' /\ StNumbered' /\ StPointOk' /\ StStoredOk' /\ StRowsOk' /\ StLockOk'
       /\ stWorker'[w] = state
       /\ \A v \in StWorkers : v # w /\ stWorker[v].at # "read" => stWorker'[v] = stWorker[v]
  <2>1. StKept \subseteq StKept' BY <1>11
  <2>2. state.at # "read" BY <1>5
  <2> QED BY <1>2, <1>4, <1>5, <1>8, <1>10, <1>12, <2>1, <2>2, StMoveStep
<1>14. StNamesNothing' BY <1>8 DEF StNamesNothing
<1>15. StIsPut'
  <2>1. CASE stRoot.there = TRUE /\ stAside' = stAside \cup {d}
    <3>1. d \in {e \in stAside' : e.by = stWorker'[w].n} BY <1>5, <1>6, <1>13, <2>1
    <3>2. stWorker'[w].at = "in" BY <1>5, <1>13
    <3> QED BY <3>1, <3>2 DEF StIsPut, StMine
  <2>2. CASE stRoot.there = FALSE /\ stAside' = stAside
    <3>1. StIsPut BY DEF StInv
    <3>2. \A v \in StWorkers : v # w /\ stWorker[v].at = "in" => stWorker'[v].at = "in" /\ stWorker'[v].n = stWorker[v].n
      BY <1>13
    <3> QED BY <1>2, <2>2, <3>1, <3>2, StIsPutStays
  <2> QED BY <1>9, <2>1, <2>2
<1> QED BY <1>13, <1>14, <1>15 DEF StInv

\* A restore ends before it has moved anything.
LEMMA StAwayFailsStep == ASSUME StInv, NEW w \in StWorkers, StAwayFails(w) PROVE StInv'
<1>1. /\ stWorker[w].at = "away" /\ StGo(w, StIdle)
      /\ UNCHANGED <<stRoot, stAside, stRows, stPoint, stLock, stDone>>
    BY DEF StAwayFails, StAt
<1>2. stDone' \in StCounts /\ stPoint' \in StPoints /\ StPointOk' BY <1>1 DEF StInv, StTyped, StPointOk
<1>3. /\ StIdle \in StWorks /\ StIdle.at = "idle"
      /\ StOk(StIdle, stRoot.objects, stRows.all, stLock, stDone.restores, StKept)
    BY StRests
<1> QED BY <1>1, <1>2, <1>3, StQuietStep

\* The restored directory is put into its place, where there is none.
LEMMA StInStep == ASSUME StInv, NEW w \in StWorkers, StIn(w) PROVE StInv'
<1>1. PICK state : state = [stWorker[w] EXCEPT !.at = "drop"] OBVIOUS
<1>2. /\ stWorker[w].at = "in" /\ ~stRoot.there
      /\ stRoot' = [there |-> TRUE, objects |-> stWorker[w].new, temps |-> stWorker[w].temps]
      /\ stWorker' = StDisturbed([stWorker EXCEPT ![w] = state])
      /\ UNCHANGED <<stAside, stRows, stPoint, stLock, stDone>>
    BY <1>1 DEF StIn, StAt
<1>3. StTyped /\ stRoot \in StRoots /\ stRoot.there \in BOOLEAN /\ stAside \subseteq StAsides
    BY DEF StInv, StTyped, StRoots
<1>4. stRoot.there = FALSE BY <1>2, <1>3, Zenon
<1>5. stRoot.objects = {} BY <1>4 DEF StInv, StNamesNothing
<1>6. /\ stWorker[w].new \in SUBSET Nat /\ stWorker[w].temps \in SUBSET Nat /\ state \in StWorks
      /\ state = [at |-> "drop", new |-> stWorker[w].new, temps |-> stWorker[w].temps, n |-> stWorker[w].n]
    BY <1>1, <1>2, <1>3, StRestoring
<1>7. state.at = "drop" /\ state.n = stWorker[w].n /\ state.new = stWorker[w].new BY <1>6
<1>8. stRoot' \in StRoots /\ stRoot'.objects = stWorker[w].new BY <1>2, <1>6 DEF StRoots
<1>9. stRoot'.there # FALSE
  <2>1. stRoot'.there = TRUE BY <1>2
  <2> QED BY <2>1
<1>10. StKept \subseteq StKept' /\ stWorker[w].new \subseteq StKept' BY <1>2, <1>5, <1>8 DEF StKept, StHeld
<1>11. StOk(state, stRoot'.objects, stRows.all, stLock, stDone.restores, StKept')
  <2>1. StOk(stWorker[w], stRoot.objects, stRows.all, stLock, stDone.restores, StKept) BY DEF StInv, StRequestsOk
  <2> QED BY <1>2, <1>7, <1>10, <2>1 DEF StOk
<1>12. /\ StTyped' /\ StRequestsOk' /\ StNumbered' /\ StPointOk' /\ StStoredOk' /\ StRowsOk' /\ StLockOk'
  <2>1. state.at # "read" BY <1>7
  <2> QED BY <1>2, <1>3, <1>6, <1>7, <1>8, <1>10, <1>11, <2>1, StMoveStep
<1>13. StIsPut' /\ StNamesNothing' BY <1>9 DEF StIsPut, StNamesNothing
<1> QED BY <1>12, <1>13 DEF StInv

\* It cannot be put there: the former one is put back, if there is room and it was taken.
LEMMA StInFailsStep == ASSUME StInv, NEW w \in StWorkers, StInFails(w) PROVE StInv'
<1>1. /\ stWorker[w].at = "in" /\ stWorker' = StDisturbed([stWorker EXCEPT ![w] = StIdle])
      /\ UNCHANGED <<stRows, stPoint, stLock, stDone>>
    BY DEF StInFails, StAt
<1>2. StTyped /\ stRoot \in StRoots /\ stRoot.there \in BOOLEAN /\ stAside \subseteq StAsides /\ StIsPut /\ StNumbered
    BY DEF StInv, StTyped, StRoots
<1>3. /\ StIdle \in StWorks /\ StIdle.at = "idle" /\ StIdle.at # "read" /\ StIdle.at \notin {"away", "in", "drop"}
      /\ StOk(StIdle, stRoot'.objects, stRows.all, stLock, stDone.restores, StKept')
    BY StRests
<1>4. \/ (stRoot.there \/ StMine(w) = {}) /\ UNCHANGED <<stRoot, stAside>>
      \/ ~stRoot.there /\ \E d \in StMine(w) : /\ stRoot' = [there |-> TRUE, objects |-> d.objects, temps |-> d.temps]
                                               /\ stAside' = stAside \ {d}
    BY DEF StInFails
<1>5. CASE (stRoot.there \/ StMine(w) = {}) /\ UNCHANGED <<stRoot, stAside>>
  <2>1. StKept \subseteq StKept' BY <1>1, <1>5 DEF StKept, StHeld
  <2>2. /\ StTyped' /\ StRequestsOk' /\ StNumbered' /\ StPointOk' /\ StStoredOk' /\ StRowsOk' /\ StLockOk'
        /\ \A v \in StWorkers : v # w /\ stWorker[v].at # "read" => stWorker'[v] = stWorker[v]
    BY <1>1, <1>2, <1>3, <1>5, <2>1, StMoveStep
  <2>3. StNamesNothing' BY <1>5 DEF StInv, StNamesNothing
  <2>4. StIsPut'
    <3>1. SUFFICES ASSUME stDone'.stops = 0, stRoot'.there = FALSE
                   PROVE  \E v \in StWorkers : stWorker'[v].at = "in" /\ {d \in stAside' : d.by = stWorker'[v].n} # {}
      BY DEF StIsPut, StMine
    <3>2. stRoot.there = FALSE /\ stDone.stops = 0 BY <1>1, <1>5, <3>1
    <3>3. StMine(w) = {} BY <1>5, <3>2, Zenon
    <3>4. PICK v \in StWorkers : stWorker[v].at = "in" /\ StMine(v) # {} BY <1>2, <3>2 DEF StIsPut
    <3>5. v # w BY <3>3, <3>4
    <3>6. stWorker'[v] = stWorker[v] BY <2>2, <3>4, <3>5
    <3> QED BY <1>5, <3>4, <3>6 DEF StMine
  <2> QED BY <2>2, <2>3, <2>4 DEF StInv
<1>6. ASSUME ~stRoot.there, NEW d \in StMine(w),
             stRoot' = [there |-> TRUE, objects |-> d.objects, temps |-> d.temps], stAside' = stAside \ {d}
      PROVE  StInv'
  <2>1. d \in stAside /\ d \in StAsides BY <1>2, <1>6 DEF StMine
  <2>2. stRoot.there = FALSE BY <1>2, <1>6, Zenon
  <2>3. stRoot.objects = {} BY <2>2 DEF StInv, StNamesNothing
  <2>4. d.objects \in SUBSET Nat /\ d.temps \in SUBSET Nat BY <2>1 DEF StAsides
  <2>5. stRoot' \in StRoots /\ stRoot'.objects = d.objects BY <1>6, <2>4 DEF StRoots
  <2>6. stRoot'.there # FALSE
    <3>1. stRoot'.there = TRUE BY <1>6
    <3> QED BY <3>1
  <2>7. stAside' \subseteq StAsides BY <1>2, <1>6
  <2>8. StKept' = StKept
    <3>1. StKept' = StHas(d.objects, stAside \ {d}, stDone.replaced) BY <1>1, <1>6, <2>5 DEF StKept, StHeld, StHas
    <3>2. StHas({}, stAside, stDone.replaced) = StHas(d.objects, stAside \ {d}, stDone.replaced) BY <2>1, StHasBack
    <3> QED BY <2>3, <3>1, <3>2, StKeptIs
  <2>9. /\ StTyped' /\ StRequestsOk' /\ StNumbered' /\ StPointOk' /\ StStoredOk' /\ StRowsOk' /\ StLockOk'
    <3>1. StKept \subseteq StKept' BY <2>8
    <3> QED BY <1>1, <1>3, <2>5, <2>7, <3>1, StMoveStep
  <2>10. StIsPut' /\ StNamesNothing' BY <2>6 DEF StIsPut, StNamesNothing
  <2> QED BY <2>9, <2>10 DEF StInv
<1> QED BY <1>4, <1>5, <1>6

\* The former directory is removed: what it held counts as replaced.
LEMMA StDropStep == ASSUME StInv, NEW w \in StWorkers, StDrop(w) PROVE StInv'
<1>1. PICK gone, mine, done :
          /\ mine = StMine(w) /\ gone = UNION {d.objects : d \in mine}
          /\ done = [stDone EXCEPT !.replaced = stDone.replaced \cup gone]
    OBVIOUS
<1>2. /\ stWorker[w].at = "drop" /\ stDone' = done /\ stAside' = stAside \ mine /\ StGo(w, StIdle)
      /\ UNCHANGED <<stRoot, stRows, stPoint, stLock>>
    BY <1>1 DEF StDrop, StAt
<1>3. /\ StTyped /\ stDone \in StCounts /\ stDone.restores \in Nat /\ stAside \subseteq StAsides /\ StNumbered /\ StIsPut
    BY DEF StInv, StTyped, StCounts
<1>4. mine \subseteq stAside /\ \A d \in stAside : d \in mine <=> d.by = stWorker[w].n BY <1>1 DEF StMine
<1>5. gone \in SUBSET Nat
  <2>1. \A d \in mine : d.objects \in SUBSET Nat BY <1>3, <1>4 DEF StAsides
  <2> QED BY <1>1, <2>1
<1>6. /\ done \in StCounts /\ done.stored = stDone.stored /\ done.replaced = stDone.replaced \cup gone
      /\ done.restores = stDone.restores /\ done.stops = stDone.stops
    BY <1>1, <1>3, <1>5 DEF StCounts
<1>7. StKept' = StKept
  <2>1. StKept' = StHas(stRoot.objects, stAside \ mine, stDone.replaced \cup gone) BY <1>2, <1>6 DEF StKept, StHeld, StHas
  <2>2. StHas(stRoot.objects, stAside, stDone.replaced) = StHas(stRoot.objects, stAside \ mine, stDone.replaced \cup gone)
    <3>1. UNION {d.objects : d \in stAside} = (UNION {d.objects : d \in stAside \ mine}) \cup gone BY <1>1, <1>4
    <3> QED BY <3>1 DEF StHas
  <2> QED BY <2>1, <2>2, StKeptIs
<1>8. /\ StIdle \in StWorks /\ StIdle.at = "idle"
      /\ StOk(StIdle, stRoot'.objects, stRows'.all, stLock', stDone'.restores, StKept')
    BY StRests
<1>9. /\ StTyped' /\ StRequestsOk' /\ StNumbered'
      /\ \A v \in StWorkers : stWorker'[v] = IF v = w THEN StIdle ELSE stWorker[v]
  <2>1. /\ stRoot' \in StRoots /\ stAside' \subseteq StAsides /\ stRows' \in [all : SUBSET Nat, used : SUBSET Nat]
        /\ stPoint' \in StPoints /\ stLock' = stLock /\ stRows.all \subseteq stRows'.all
        /\ stRoot.objects \subseteq stRoot'.objects
    BY <1>2, <1>3 DEF StTyped
  <2>2. stDone' \in StCounts /\ stDone.restores <= stDone'.restores BY <1>2, <1>3, <1>6
  <2>3. StKept \subseteq StKept' /\ StIdle.at \notin {"away", "in", "drop"} BY <1>7, <1>8
  <2> QED BY <1>2, <1>8, <2>1, <2>2, <2>3, StCalm
<1>10. StIsPut'
  <2>1. \A v \in StWorkers, d \in stAside : v # w /\ stWorker[v].at = "in" /\ d.by = stWorker[v].n => d \in stAside'
    <3>1. SUFFICES ASSUME NEW v \in StWorkers, NEW d \in stAside, v # w, stWorker[v].at = "in", d.by = stWorker[v].n
                   PROVE  d \notin mine
      BY <1>2
    <3>2. stWorker[v].n # stWorker[w].n BY <1>2, <1>3, <3>1 DEF StNumbered
    <3> QED BY <1>4, <3>1, <3>2
  <2>2. /\ \A v \in StWorkers : v # w /\ stWorker[v].at = "in" => stWorker'[v].at = "in" /\ stWorker'[v].n = stWorker[v].n
        /\ stWorker[w].at # "in" /\ stDone'.stops = stDone.stops /\ (stRoot'.there = FALSE => stRoot.there = FALSE)
    BY <1>2, <1>6, <1>9
  <2> QED BY <1>3, <2>1, <2>2, StIsPutStays
<1>11. StNamesNothing' /\ StPointOk' /\ StStoredOk' /\ StRowsOk' /\ StLockOk'
    BY <1>2, <1>6, <1>7 DEF StInv, StNamesNothing, StPointOk, StStoredOk, StRowsOk, StLockOk
<1> QED BY <1>9, <1>10, <1>11 DEF StInv

\* The partner is archived: the uploads that have passed the check are the late ones.
LEMMA StArchivePartnerStep == ASSUME StInv, StArchivePartner PROVE StInv'
<1>1. PICK late : late = {stWorker[w].id : w \in {v \in StWorkers : StPast(v)}} OBVIOUS
<1>2. /\ ~stLock.on /\ stLock' = [on |-> TRUE, objects |-> stRoot.objects, late |-> late]
      /\ UNCHANGED <<stRoot, stAside, stRows, stPoint, stWorker, stDone>>
    BY <1>1 DEF StArchivePartner
<1>3. StTyped /\ StRequestsOk /\ stRoot.objects \in SUBSET Nat BY DEF StInv, StTyped, StRoots
<1>4. \A v \in StWorkers : stWorker[v].at \in {"open", "rename"} => stWorker[v].id \in late /\ stWorker[v].id \in Nat
    BY <1>1, <1>3, StUploading DEF StPast
<1>5. late \in SUBSET Nat
  <2>1. \A i \in late : \E v \in StWorkers : i = stWorker[v].id /\ stWorker[v].at \in {"open", "rename"}
    BY <1>1 DEF StPast
  <2> QED BY <1>4, <2>1
<1>6. stLock' \in StLocks /\ stLock'.objects = stRoot.objects /\ stLock'.late = late BY <1>2, <1>3, <1>5 DEF StLocks
<1>7. StKept' = StKept BY <1>2 DEF StKept, StHeld
<1>8. StTyped' BY <1>2, <1>3, <1>6 DEF StTyped
<1>9. StRequestsOk'
  <2>1. SUFFICES ASSUME NEW v \in StWorkers
                 PROVE  StOk(stWorker[v], stRoot.objects, stRows.all, stLock', stDone.restores, StKept)
    BY <1>2, <1>7 DEF StRequestsOk
  <2>2. StOk(stWorker[v], stRoot.objects, stRows.all, stLock, stDone.restores, StKept) BY <1>3 DEF StRequestsOk
  <2> QED BY <1>4, <1>6, <2>2 DEF StOk
<1>10. StNumbered' BY <1>2 DEF StInv, StNumbered
<1>11. StIsPut' BY <1>2 DEF StInv, StIsPut, StMine
<1>12. StNamesNothing' /\ StPointOk' /\ StStoredOk' /\ StRowsOk'
    BY <1>2, <1>7 DEF StInv, StNamesNothing, StPointOk, StStoredOk, StRowsOk
<1>13. StLockOk' BY <1>2, <1>6 DEF StLockOk
<1> QED BY <1>8, <1>9, <1>10, <1>11, <1>12, <1>13 DEF StInv

\* The storage process dies: nobody relies on anything that was in progress.
LEMMA StStopStep == ASSUME StInv, StStop PROVE StInv'
<1>1. PICK done : done = [stDone EXCEPT !.stops = stDone.stops + 1] OBVIOUS
<1>2. /\ stDone' = done /\ stWorker' = [w \in StWorkers |-> IF StBusy(w) THEN StIdle ELSE stWorker[w]]
      /\ UNCHANGED <<stRoot, stAside, stRows, stPoint, stLock>>
    BY <1>1 DEF StStop
<1>3. StTyped /\ StRequestsOk /\ StNumbered /\ stDone \in StCounts /\ stDone.stops \in Nat BY DEF StInv, StTyped, StCounts
<1>4. /\ done \in StCounts /\ done.stored = stDone.stored /\ done.replaced = stDone.replaced
      /\ done.restores = stDone.restores /\ done.stops = stDone.stops + 1
    BY <1>1, <1>3 DEF StCounts
<1>5. \A v \in StWorkers : stWorker'[v] = StIdle \/ stWorker'[v] = stWorker[v] BY <1>2
<1>6. StIdle \in StWorks /\ StIdle.at = "idle" BY DEF StIdle, StWorks
<1>7. StTyped' BY <1>2, <1>3, <1>4, <1>6 DEF StTyped
<1>8. StKept' = StKept BY <1>2, <1>4 DEF StKept, StHeld
<1>9. StRequestsOk'
  <2>1. SUFFICES ASSUME NEW v \in StWorkers
                 PROVE  StOk(stWorker'[v], stRoot.objects, stRows.all, stLock, stDone.restores, StKept)
    BY <1>2, <1>4, <1>8 DEF StRequestsOk
  <2>2. StOk(stWorker[v], stRoot.objects, stRows.all, stLock, stDone.restores, StKept) BY <1>3 DEF StRequestsOk
  <2>3. StOk(StIdle, stRoot.objects, stRows.all, stLock, stDone.restores, StKept) BY StRests
  <2> QED BY <1>5, <2>2, <2>3
<1>10. StNumbered'
  <2>1. \A v \in StWorkers : stWorker'[v].at \in {"away", "in", "drop"} => stWorker'[v] = stWorker[v] BY <1>5, <1>6
  <2>2. ASSUME NEW u \in StWorkers, NEW v \in StWorkers, stWorker'[u].at \in {"away", "in", "drop"},
               stWorker'[v].at \in {"away", "in", "drop"}, stWorker'[u].n = stWorker'[v].n
        PROVE  u = v
    <3>1. stWorker'[u] = stWorker[u] /\ stWorker'[v] = stWorker[v] BY <2>1, <2>2
    <3> QED BY <1>3, <2>2, <3>1 DEF StNumbered
  <2> QED BY <2>2 DEF StNumbered
<1>11. StIsPut'
  <2>1. stDone'.stops # 0 BY <1>2, <1>3, <1>4
  <2> QED BY <2>1 DEF StIsPut
<1>12. StNamesNothing' /\ StPointOk' /\ StStoredOk' /\ StRowsOk' /\ StLockOk'
    BY <1>2, <1>4, <1>8 DEF StInv, StNamesNothing, StPointOk, StStoredOk, StRowsOk, StLockOk
<1> QED BY <1>7, <1>9, <1>10, <1>11, <1>12 DEF StInv

\* Every step keeps the invariant.
LEMMA StInvStep == StInv /\ [StNext]_stVars => StInv'
<1>1. SUFFICES ASSUME StInv, [StNext]_stVars PROVE StInv' OBVIOUS
<1>2. CASE UNCHANGED stVars
  <2>1. UNCHANGED <<stRoot, stAside, stRows, stPoint, stLock, stWorker, stDone>> BY <1>2 DEF stVars
  <2>2. StKept' = StKept BY <2>1 DEF StKept, StHeld
  <2>3. StTyped' BY <1>1, <2>1 DEF StInv, StTyped
  <2>4. StRequestsOk' BY <1>1, <2>1, <2>2 DEF StInv, StRequestsOk
  <2>5. StNumbered' BY <1>1, <2>1 DEF StInv, StNumbered
  <2>6. StIsPut' BY <1>1, <2>1 DEF StInv, StIsPut, StMine
  <2>7. StNamesNothing' /\ StPointOk' /\ StStoredOk' /\ StRowsOk' /\ StLockOk'
    BY <1>1, <2>1, <2>2 DEF StInv, StNamesNothing, StPointOk, StStoredOk, StRowsOk, StLockOk
  <2> QED BY <2>3, <2>4, <2>5, <2>6, <2>7 DEF StInv
<1>3. CASE StArchivePartner \/ StStop BY <1>1, <1>3, StArchivePartnerStep, StStopStep
<1>4. ASSUME NEW w \in StWorkers,
             \/ StUpload(w) \/ StOpen(w) \/ StRename(w) \/ StUploadFails(w) \/ StRow(w)
             \/ \E id \in stRows.all : StAsk(w, id)
             \/ StUse(w) \/ StList(w) \/ StReadTemp(w) \/ StReadObject(w) \/ StReadAll(w)
             \/ StRestore(w) \/ StAway(w) \/ StAwayFails(w) \/ StIn(w) \/ StInFails(w) \/ StDrop(w)
      PROVE  StInv'
  <2>1. CASE StUpload(w) \/ StOpen(w) \/ StRename(w) \/ StUploadFails(w) \/ StRow(w)
    BY <1>1, <2>1, StUploadStep, StOpenStep, StRenameStep, StUploadFailsStep, StRowStep
  <2>2. CASE StUse(w) \/ \E id \in stRows.all : StAsk(w, id) BY <1>1, <2>2, StUseStep, StAskStep
  <2>3. CASE StList(w) \/ StReadTemp(w) \/ StReadObject(w) \/ StReadAll(w)
    BY <1>1, <2>3, StListStep, StReadTempStep, StReadObjectStep, StReadAllStep
  <2>4. CASE StRestore(w) \/ StAway(w) \/ StAwayFails(w) \/ StIn(w) \/ StInFails(w) \/ StDrop(w)
    BY <1>1, <2>4, StRestoreStep, StAwayStep, StAwayFailsStep, StInStep, StInFailsStep, StDropStep
  <2> QED BY <1>4, <2>1, <2>2, <2>3, <2>4
<1> QED BY <1>1, <1>2, <1>3, <1>4 DEF StNext

-----------------------------------------------------------------------------
(* A report and its document: Reports. *)

RpSnapshots == [n : Nat, evidence : SUBSET Nat]
RpJobs == [status : {"QUEUED", "RUNNING", "READY", "FAILED"}, snapshot : RpSnapshots, pdf : RpSnapshots]
RpWorks ==
    {RpIdle}
    \cup [at : {"build", "store", "put", "ready", "link", "fail"}, for : {"process", "regenerate"},
          snapshot : RpSnapshots]
RpTyped ==
    /\ rpJob \in RpJobs /\ rpObject \in RpSnapshots
    /\ rpEvidence \in Nat /\ rpTaken \in Nat /\ rpAlone \in BOOLEAN
    /\ rpWorker \in [RpWorkers -> RpWorks]

\* What a maker works with, given the row j and the stored document o: what it needs is there.
RpHas(r, j, o) ==
    /\ r.at \in {"store", "put", "ready", "link"} => r.snapshot # RpNone
    /\ r.at \in {"put", "ready"} => j.snapshot # RpNone
    /\ r.at = "ready" => o # RpNone
\* The same for a maker that has always been alone, with the links l.
RpOwns(r, j, o, l) ==
    /\ r.at \in {"build", "store"} => r.for = "process" /\ j.status # "READY"
    /\ r.at \in {"build", "store", "put", "ready", "fail"} /\ r.for = "process" => l = {}
    /\ r.at \in {"put", "ready", "link"} => r.snapshot = j.snapshot
    /\ r.at = "ready" => o = j.snapshot
    /\ r.at = "link" => j.status = "READY"

RpStoredOk(j, o) == j.status = "READY" => j.snapshot # RpNone /\ j.pdf # RpNone /\ o # RpNone
\* Nothing is linked before the report is READY, and READY it then stays.
RpWholeOk(j, o, l) ==
    /\ j.status = "READY" => j.pdf = j.snapshot /\ o = j.snapshot
    /\ l \in {{}, j.snapshot.evidence}
    /\ l # {} => j.status = "READY"
RpAloneOk ==
    /\ \A v, w \in RpWorkers : rpWorker[v].at # "idle" /\ rpWorker[w].at # "idle" => v = w
    /\ \A w \in RpWorkers : RpOwns(rpWorker[w], rpJob, rpObject, rpLinks)
    /\ RpWholeOk(rpJob, rpObject, rpLinks)
RpInv ==
    /\ RpTyped
    /\ RpStoredOk(rpJob, rpObject)
    /\ \A w \in RpWorkers : RpHas(rpWorker[w], rpJob, rpObject)
    /\ rpAlone = TRUE => RpAloneOk

\* The invariant says more than the property.
LEMMA RpInvIsSafe == RpInv => ReportsSafe
<1>1. SUFFICES ASSUME RpInv PROVE ReportsSafe OBVIOUS
<1>2. RpReadyIsStored BY <1>1 DEF RpInv, RpStoredOk, RpReadyIsStored
<1>3. RpReadyIsOneSnapshot
  <2>1. SUFFICES ASSUME rpAlone
                 PROVE  /\ rpJob.status = "READY" => rpJob.pdf = rpJob.snapshot /\ rpObject = rpJob.snapshot
                        /\ rpLinks \in {{}, rpJob.snapshot.evidence}
    BY DEF RpReadyIsOneSnapshot
  <2>2. rpAlone \in BOOLEAN BY <1>1 DEF RpInv, RpTyped
  <2>3. rpAlone = TRUE BY <2>1, <2>2, Zenon
  <2> QED BY <1>1, <2>3 DEF RpInv, RpAloneOk, RpWholeOk
<1> QED BY <1>2, <1>3 DEF ReportsSafe

\* At the start the report is queued and nobody makes it.
LEMMA RpInvInit == RpInit => RpInv
<1>1. SUFFICES ASSUME RpInit PROVE RpInv OBVIOUS
<1>2. RpNone \in RpSnapshots BY DEF RpNone, RpSnapshots
<1>3. rpWorker \in [RpWorkers -> RpWorks] /\ \A w \in RpWorkers : rpWorker[w].at = "idle"
    BY <1>1 DEF RpInit, RpWorks, RpIdle
<1>4. rpJob = [status |-> "QUEUED", snapshot |-> RpNone, pdf |-> RpNone] BY <1>1 DEF RpInit
<1>5. RpTyped
  <2>1. rpJob \in RpJobs BY <1>2, <1>4 DEF RpJobs
  <2>2. rpAlone \in BOOLEAN BY <1>1 DEF RpInit
  <2> QED BY <1>1, <1>2, <1>3, <2>1, <2>2 DEF RpInit, RpTyped
<1>6. RpStoredOk(rpJob, rpObject) BY <1>4 DEF RpStoredOk
<1>7. \A w \in RpWorkers : RpHas(rpWorker[w], rpJob, rpObject) BY <1>3 DEF RpHas
<1>8. RpAloneOk
  <2>1. \A w \in RpWorkers : RpOwns(rpWorker[w], rpJob, rpObject, rpLinks) BY <1>3 DEF RpOwns
  <2>2. RpWholeOk(rpJob, rpObject, rpLinks) BY <1>1, <1>4 DEF RpInit, RpWholeOk
  <2> QED BY <1>3, <2>1, <2>2 DEF RpAloneOk
<1> QED BY <1>5, <1>6, <1>7, <1>8 DEF RpInv

\* Setting a field of the row leaves a row.
LEMMA RpJobSet ==
    ASSUME NEW j \in RpJobs, NEW s \in RpSnapshots, NEW st \in {"QUEUED", "RUNNING", "READY", "FAILED"}
    PROVE  /\ [j EXCEPT !.status = st] = [status |-> st, snapshot |-> j.snapshot, pdf |-> j.pdf]
           /\ [j EXCEPT !.snapshot = s] = [status |-> j.status, snapshot |-> s, pdf |-> j.pdf]
           /\ [j EXCEPT !.status = st, !.pdf = s] = [status |-> st, snapshot |-> j.snapshot, pdf |-> s]
           /\ [j EXCEPT !.status = st] \in RpJobs /\ [j EXCEPT !.snapshot = s] \in RpJobs
           /\ [j EXCEPT !.status = st, !.pdf = s] \in RpJobs
<1>1. PICK a \in {"QUEUED", "RUNNING", "READY", "FAILED"}, b \in RpSnapshots, c \in RpSnapshots :
          j = [status |-> a, snapshot |-> b, pdf |-> c]
    BY DEF RpJobs
<1>2. j.status = a /\ j.snapshot = b /\ j.pdf = c BY <1>1
<1>3. [j EXCEPT !.status = st] = [status |-> st, snapshot |-> b, pdf |-> c] BY <1>1
<1>4. [j EXCEPT !.snapshot = s] = [status |-> a, snapshot |-> s, pdf |-> c] BY <1>1
<1>5. [j EXCEPT !.status = st, !.pdf = s] = [status |-> st, snapshot |-> b, pdf |-> s]
  <2>1. [j EXCEPT !.status = st, !.pdf = s]
            = [x \in DOMAIN j |-> IF x = "status" THEN st ELSE IF x = "pdf" THEN s ELSE j[x]]
    OBVIOUS
  <2> QED BY <1>1, <2>1
<1> QED BY <1>2, <1>3, <1>4, <1>5 DEF RpJobs

\* A maker that goes somewhere is there, and the others are where they were.
LEMMA RpGoes ==
    ASSUME RpTyped, NEW w \in RpWorkers, NEW state \in RpWorks, RpGo(w, state)
    PROVE  /\ rpWorker' \in [RpWorkers -> RpWorks]
           /\ \A v \in RpWorkers : rpWorker'[v] = IF v = w THEN state ELSE rpWorker[v]
BY DEF RpTyped, RpGo

\* A maker at work has the fields of one, and where it moves is another state of one.
LEMMA RpBusy ==
    ASSUME RpTyped, NEW w \in RpWorkers, rpWorker[w].at # "idle",
           NEW at \in {"build", "store", "put", "ready", "link", "fail"}
    PROVE  /\ rpWorker[w].for \in {"process", "regenerate"} /\ rpWorker[w].snapshot \in RpSnapshots
           /\ [rpWorker[w] EXCEPT !.at = at] =
                 [at |-> at, for |-> rpWorker[w].for, snapshot |-> rpWorker[w].snapshot]
           /\ [rpWorker[w] EXCEPT !.at = at] \in RpWorks
           /\ \A s \in RpSnapshots :
                 /\ [rpWorker[w] EXCEPT !.at = at, !.snapshot = s] = [at |-> at, for |-> rpWorker[w].for, snapshot |-> s]
                 /\ [rpWorker[w] EXCEPT !.at = at, !.snapshot = s] \in RpWorks
<1>1. rpWorker[w] \in RpWorks BY DEF RpTyped
<1>2. PICK a \in {"build", "store", "put", "ready", "link", "fail"}, f \in {"process", "regenerate"},
           n \in RpSnapshots : rpWorker[w] = [at |-> a, for |-> f, snapshot |-> n]
    BY <1>1 DEF RpWorks, RpIdle
<1>3. rpWorker[w].for = f /\ rpWorker[w].snapshot = n BY <1>2
<1>4. [rpWorker[w] EXCEPT !.at = at] = [at |-> at, for |-> f, snapshot |-> n] BY <1>2
<1>5. \A s \in RpSnapshots :
          [rpWorker[w] EXCEPT !.at = at, !.snapshot = s] = [at |-> at, for |-> f, snapshot |-> s]
  <2>1. TAKE s \in RpSnapshots
  <2>2. PICK r : r = rpWorker[w] OBVIOUS
  <2>3. [r EXCEPT !.at = at, !.snapshot = s]
            = [x \in DOMAIN r |-> IF x = "at" THEN at ELSE IF x = "snapshot" THEN s ELSE r[x]]
    OBVIOUS
  <2> QED BY <1>2, <2>2, <2>3
<1> QED BY <1>3, <1>4, <1>5 DEF RpWorks

\* A maker that works is the only one, if there was never another.
LEMMA RpOthersRest ==
    ASSUME RpInv, NEW w \in RpWorkers, rpWorker[w].at # "idle", rpAlone = TRUE
    PROVE  /\ \A v \in RpWorkers : v # w => rpWorker[v].at = "idle"
           /\ RpOwns(rpWorker[w], rpJob, rpObject, rpLinks) /\ RpWholeOk(rpJob, rpObject, rpLinks)
BY DEF RpInv, RpAloneOk

\* A step of one maker keeps the invariant if what it leaves is well and the maker has what it
\* needs where it goes: the others keep what they need, and rest if there was never another.
LEMMA RpStepOk ==
    ASSUME RpInv, NEW w \in RpWorkers, NEW state \in RpWorks, RpGo(w, state),
           rpJob' \in RpJobs, rpObject' \in RpSnapshots, rpEvidence' \in Nat, rpTaken' \in Nat, rpAlone' \in BOOLEAN,
           rpJob.snapshot # RpNone => rpJob'.snapshot # RpNone, rpObject # RpNone => rpObject' # RpNone,
           RpStoredOk(rpJob', rpObject'), RpHas(state, rpJob', rpObject'),
           rpAlone' = TRUE => /\ \A v \in RpWorkers : v # w => rpWorker[v].at = "idle"
                              /\ RpOwns(state, rpJob', rpObject', rpLinks')
                              /\ RpWholeOk(rpJob', rpObject', rpLinks')
    PROVE  RpInv'
<1>1. /\ rpWorker' \in [RpWorkers -> RpWorks]
      /\ \A v \in RpWorkers : rpWorker'[v] = IF v = w THEN state ELSE rpWorker[v]
    BY RpGoes DEF RpInv
<1>2. RpTyped' BY <1>1 DEF RpTyped
<1>3. RpStoredOk(rpJob, rpObject)' OBVIOUS
<1>4. ASSUME NEW v \in RpWorkers PROVE RpHas(rpWorker[v], rpJob, rpObject)'
  <2>1. CASE v = w
    <3>1. rpWorker'[v] = state BY <1>1, <2>1
    <3> QED BY <3>1
  <2>2. CASE v # w
    <3>1. rpWorker'[v] = rpWorker[v] BY <1>1, <2>2
    <3>2. RpHas(rpWorker[v], rpJob, rpObject) BY DEF RpInv
    <3> QED BY <3>1, <3>2 DEF RpHas
  <2> QED BY <2>1, <2>2
<1>5. ASSUME rpAlone' = TRUE PROVE RpAloneOk'
  <2>1. \A v \in RpWorkers : v # w => rpWorker'[v].at = "idle" BY <1>1, <1>5
  <2>2. ASSUME NEW v \in RpWorkers PROVE RpOwns(rpWorker[v], rpJob, rpObject, rpLinks)'
    <3>1. CASE v = w
      <4>1. rpWorker'[v] = state BY <1>1, <3>1
      <4> QED BY <1>5, <4>1
    <3>2. CASE v # w
      <4>1. rpWorker'[v].at = "idle" BY <2>1, <3>2
      <4> QED BY <4>1 DEF RpOwns
    <3> QED BY <3>1, <3>2
  <2>3. \A u, v \in RpWorkers : rpWorker'[u].at # "idle" /\ rpWorker'[v].at # "idle" => u = v BY <2>1
  <2>4. RpWholeOk(rpJob, rpObject, rpLinks)' BY <1>5
  <2> QED BY <2>2, <2>3, <2>4 DEF RpAloneOk
<1> QED BY <1>2, <1>3, <1>4, <1>5 DEF RpInv

\* A maker that rests needs nothing.
LEMMA RpRests ==
    ASSUME NEW j, NEW o, NEW l
    PROVE  RpIdle \in RpWorks /\ RpHas(RpIdle, j, o) /\ RpOwns(RpIdle, j, o, l)
BY DEF RpIdle, RpWorks, RpHas, RpOwns

\* Whoever begins is alone only if everybody rests.
LEMMA RpBeginIs ==
    ASSUME RpInv, NEW w \in RpWorkers, NEW state, RpBegin(w, state)
    PROVE  /\ RpGo(w, state) /\ rpAlone' \in BOOLEAN
           /\ rpAlone' = TRUE => rpAlone = TRUE /\ \A v \in RpWorkers : rpWorker[v].at = "idle"
<1>1. RpGo(w, state) BY DEF RpBegin
<1>2. rpAlone' = (rpAlone /\ \A v \in RpWorkers : RpAt(v, "idle")) BY DEF RpBegin
<1>3. rpAlone \in BOOLEAN BY DEF RpInv, RpTyped
<1>4. PICK B : B = (rpAlone /\ \A v \in RpWorkers : RpAt(v, "idle")) OBVIOUS
<1>5. B \in BOOLEAN BY <1>4, Zenon
<1>6. B = TRUE => rpAlone = TRUE /\ \A v \in RpWorkers : rpWorker[v].at = "idle"
    BY <1>3, <1>4, Zenon DEF RpAt
<1> QED BY <1>1, <1>2, <1>4, <1>5, <1>6

\* Claiming the row.
LEMMA RpClaimStep == ASSUME RpInv, NEW w \in RpWorkers, RpClaim(w) PROVE RpInv'
<1> DEFINE state == [at |-> "build", for |-> "process", snapshot |-> RpNone]
           job   == [rpJob EXCEPT !.status = "RUNNING"]
<1>0. /\ rpJob.status = "QUEUED" /\ rpJob' = job /\ RpBegin(w, state) /\ RpTyped
      /\ UNCHANGED <<rpObject, rpLinks, rpEvidence, rpTaken>>
    BY DEF RpClaim, RpInv
<1>1. state \in RpWorks BY DEF RpWorks, RpNone, RpSnapshots
<1>2. /\ RpGo(w, state) /\ rpAlone' \in BOOLEAN
      /\ rpAlone' = TRUE => rpAlone = TRUE /\ \A v \in RpWorkers : rpWorker[v].at = "idle"
    BY <1>0, RpBeginIs
<1>3. rpJob \in RpJobs BY <1>0 DEF RpTyped
<1>4. RpNone \in RpSnapshots BY DEF RpNone, RpSnapshots
<1>5. /\ job = [status |-> "RUNNING", snapshot |-> rpJob.snapshot, pdf |-> rpJob.pdf] /\ job \in RpJobs
    BY <1>3, <1>4, RpJobSet
<1>6. job.status = "RUNNING" /\ job.snapshot = rpJob.snapshot BY <1>5
<1>7. RpStoredOk(job, rpObject) BY <1>6 DEF RpStoredOk
<1>8. RpHas(state, job, rpObject) BY DEF RpHas
<1>9. ASSUME rpAlone' = TRUE
      PROVE  RpOwns(state, job, rpObject, rpLinks) /\ RpWholeOk(job, rpObject, rpLinks)
  <2>1. RpWholeOk(rpJob, rpObject, rpLinks) BY <1>2, <1>9 DEF RpInv, RpAloneOk
  <2>2. rpLinks = {} BY <1>0, <2>1 DEF RpWholeOk
  <2> QED BY <1>6, <2>2 DEF RpOwns, RpWholeOk
<1> HIDE DEF state, job
<1> QED BY <1>0, <1>1, <1>2, <1>5, <1>6, <1>7, <1>8, <1>9, RpStepOk DEF RpTyped

\* What is known of a maker that works, and of what a step of it leaves alone.
LEMMA RpWorking ==
    ASSUME RpInv, NEW w \in RpWorkers, rpWorker[w].at # "idle"
    PROVE  /\ RpTyped /\ rpJob \in RpJobs /\ rpObject \in RpSnapshots /\ rpAlone \in BOOLEAN
           /\ rpWorker[w].snapshot \in RpSnapshots /\ rpWorker[w].for \in {"process", "regenerate"}
           /\ RpStoredOk(rpJob, rpObject) /\ RpHas(rpWorker[w], rpJob, rpObject)
           /\ rpAlone = TRUE => /\ \A v \in RpWorkers : v # w => rpWorker[v].at = "idle"
                                /\ RpOwns(rpWorker[w], rpJob, rpObject, rpLinks)
                                /\ RpWholeOk(rpJob, rpObject, rpLinks)
<1>1. RpTyped BY DEF RpInv
<1>2. rpWorker[w].snapshot \in RpSnapshots /\ rpWorker[w].for \in {"process", "regenerate"}
    BY <1>1, RpBusy
<1> QED BY <1>1, <1>2, RpOthersRest DEF RpInv, RpTyped

\* Drawing the snapshot, or failing to.
LEMMA RpBuildStep == ASSUME RpInv, NEW w \in RpWorkers, RpBuild(w) PROVE RpInv'
<1>0. /\ rpWorker[w].at = "build" /\ UNCHANGED <<rpJob, rpObject, rpLinks, rpEvidence, rpAlone>>
    BY DEF RpBuild, RpAt
<1>1. rpWorker[w].at # "idle" BY <1>0
<1>2. RpTyped BY DEF RpInv
<1>3. CASE RpMove(w, "fail") /\ rpTaken' = rpTaken
  <2>1. PICK state : state = [rpWorker[w] EXCEPT !.at = "fail"] OBVIOUS
  <2>2. state = [at |-> "fail", for |-> rpWorker[w].for, snapshot |-> rpWorker[w].snapshot] /\ state \in RpWorks
    BY <1>1, <1>2, <2>1, RpBusy
  <2>3. state.at = "fail" /\ state.for = rpWorker[w].for BY <2>2
  <2>4. RpHas(state, rpJob, rpObject) BY <2>3 DEF RpHas
  <2>5. RpOwns(rpWorker[w], rpJob, rpObject, rpLinks) => RpOwns(state, rpJob, rpObject, rpLinks)
    BY <1>0, <2>3 DEF RpOwns
  <2>6. RpGo(w, state) BY <1>3, <2>1 DEF RpMove
  <2> QED BY <1>0, <1>1, <1>2, <1>3, <2>2, <2>4, <2>5, <2>6, RpWorking, RpStepOk DEF RpTyped
<1>4. ASSUME rpTaken' = rpTaken + 1, NEW evidence \in {RpNewest, {}},
             RpGo(w, [rpWorker[w] EXCEPT !.at = "store", !.snapshot = [n |-> rpTaken + 1, evidence |-> evidence]])
      PROVE  RpInv'
  <2>1. PICK s : s = [n |-> rpTaken + 1, evidence |-> evidence] OBVIOUS
  <2>2. rpTaken \in Nat /\ rpTaken' \in Nat BY <1>2, <1>4 DEF RpTyped
  <2>3. evidence \in SUBSET Nat BY DEF RpNewest
  <2>4. s \in RpSnapshots BY <2>1, <2>2, <2>3 DEF RpSnapshots
  <2>5. s # RpNone
    <3>1. s.n = rpTaken + 1 BY <2>1
    <3>2. RpNone.n = 0 BY DEF RpNone
    <3> QED BY <2>2, <3>1, <3>2
  <2>6. PICK state : state = [rpWorker[w] EXCEPT !.at = "store", !.snapshot = s] OBVIOUS
  <2>7. state = [at |-> "store", for |-> rpWorker[w].for, snapshot |-> s] /\ state \in RpWorks
    BY <1>1, <1>2, <2>4, <2>6, RpBusy
  <2>8. state.at = "store" /\ state.for = rpWorker[w].for /\ state.snapshot = s BY <2>7
  <2>9. RpHas(state, rpJob, rpObject) BY <2>5, <2>8 DEF RpHas
  <2>10. RpOwns(rpWorker[w], rpJob, rpObject, rpLinks) => RpOwns(state, rpJob, rpObject, rpLinks)
    BY <1>0, <2>8 DEF RpOwns
  <2>11. RpGo(w, state) BY <1>4, <2>1, <2>6
  <2> QED BY <1>0, <1>1, <1>2, <2>2, <2>7, <2>9, <2>10, <2>11, RpWorking, RpStepOk DEF RpTyped
<1> QED BY <1>3, <1>4 DEF RpBuild

\* Freezing the snapshot in the row, or failing to, or failing to hear of it.
LEMMA RpStoreStep == ASSUME RpInv, NEW w \in RpWorkers, RpStore(w) PROVE RpInv'
<1>0. PICK stored : /\ stored = [rpJob EXCEPT !.snapshot = rpWorker[w].snapshot]
                    /\ \/ rpJob' = stored /\ RpMove(w, "put")
                       \/ rpJob' \in {rpJob, stored} /\ RpMove(w, "fail")
    BY DEF RpStore
<1>1. /\ rpWorker[w].at = "store" /\ rpWorker[w].at # "idle"
      /\ UNCHANGED <<rpObject, rpLinks, rpEvidence, rpTaken, rpAlone>>
    BY DEF RpStore, RpAt
<1>2. /\ RpTyped /\ rpJob \in RpJobs /\ rpObject \in RpSnapshots /\ rpAlone \in BOOLEAN
      /\ rpWorker[w].snapshot \in RpSnapshots /\ rpWorker[w].for \in {"process", "regenerate"}
      /\ RpStoredOk(rpJob, rpObject) /\ RpHas(rpWorker[w], rpJob, rpObject)
    BY <1>1, RpWorking
<1>3. /\ stored = [status |-> rpJob.status, snapshot |-> rpWorker[w].snapshot, pdf |-> rpJob.pdf]
      /\ stored \in RpJobs
    BY <1>0, <1>2, RpJobSet
<1>4. stored.status = rpJob.status /\ stored.snapshot = rpWorker[w].snapshot /\ stored.pdf = rpJob.pdf BY <1>3
<1>5. rpWorker[w].snapshot # RpNone BY <1>1, <1>2 DEF RpHas
<1>6. RpStoredOk(stored, rpObject) BY <1>2, <1>4, <1>5 DEF RpStoredOk
<1>7. ASSUME rpAlone = TRUE
      PROVE  /\ \A v \in RpWorkers : v # w => rpWorker[v].at = "idle"
             /\ rpWorker[w].for = "process" /\ rpLinks = {} /\ rpJob.status # "READY"
             /\ RpWholeOk(stored, rpObject, rpLinks) /\ RpWholeOk(rpJob, rpObject, rpLinks)
  <2>1. /\ \A v \in RpWorkers : v # w => rpWorker[v].at = "idle"
        /\ RpOwns(rpWorker[w], rpJob, rpObject, rpLinks) /\ RpWholeOk(rpJob, rpObject, rpLinks)
    BY <1>1, <1>7, RpWorking
  <2>2. rpWorker[w].for = "process" /\ rpLinks = {} /\ rpJob.status # "READY" BY <1>1, <2>1 DEF RpOwns
  <2>3. RpWholeOk(stored, rpObject, rpLinks) BY <1>4, <2>2 DEF RpWholeOk
  <2> QED BY <2>1, <2>2, <2>3
<1>8. CASE rpJob' = stored /\ RpMove(w, "put")
  <2>1. PICK state : state = [rpWorker[w] EXCEPT !.at = "put"] OBVIOUS
  <2>2. state = [at |-> "put", for |-> rpWorker[w].for, snapshot |-> rpWorker[w].snapshot] /\ state \in RpWorks
    BY <1>1, <1>2, <2>1, RpBusy
  <2>3. state.at = "put" /\ state.for = rpWorker[w].for /\ state.snapshot = rpWorker[w].snapshot BY <2>2
  <2>4. RpHas(state, stored, rpObject) BY <1>4, <1>5, <2>3 DEF RpHas
  <2>5. rpAlone = TRUE => RpOwns(state, stored, rpObject, rpLinks) BY <1>4, <1>7, <2>3 DEF RpOwns
  <2>6. RpGo(w, state) BY <1>8, <2>1 DEF RpMove
  <2>7. stored.snapshot # RpNone BY <1>4, <1>5
  <2> QED BY <1>1, <1>2, <1>3, <1>6, <1>7, <1>8, <2>2, <2>4, <2>5, <2>6, <2>7, RpStepOk DEF RpTyped
<1>9. CASE rpJob' \in {rpJob, stored} /\ RpMove(w, "fail")
  <2>1. PICK state : state = [rpWorker[w] EXCEPT !.at = "fail"] OBVIOUS
  <2>2. state = [at |-> "fail", for |-> rpWorker[w].for, snapshot |-> rpWorker[w].snapshot] /\ state \in RpWorks
    BY <1>1, <1>2, <2>1, RpBusy
  <2>3. state.at = "fail" /\ state.for = rpWorker[w].for BY <2>2
  <2>4. RpHas(state, rpJob', rpObject) BY <2>3 DEF RpHas
  <2>5. rpAlone = TRUE => RpOwns(state, rpJob', rpObject, rpLinks) BY <1>7, <2>3 DEF RpOwns
  <2>6. RpGo(w, state) BY <1>9, <2>1 DEF RpMove
  <2>7. stored.snapshot # RpNone BY <1>4, <1>5
  <2>8. rpJob' \in RpJobs /\ (rpJob.snapshot # RpNone => rpJob'.snapshot # RpNone) BY <1>2, <1>3, <1>9, <2>7
  <2>9. RpStoredOk(rpJob', rpObject) BY <1>2, <1>6, <1>9
  <2>10. rpAlone = TRUE => RpWholeOk(rpJob', rpObject, rpLinks) BY <1>7, <1>9
  <2> QED BY <1>1, <1>2, <1>7, <2>2, <2>4, <2>5, <2>6, <2>8, <2>9, <2>10, RpStepOk DEF RpTyped
<1> QED BY <1>0, <1>8, <1>9

\* Storing the document.
LEMMA RpPutStep == ASSUME RpInv, NEW w \in RpWorkers, RpPut(w) PROVE RpInv'
<1>1. /\ rpWorker[w].at = "put" /\ rpWorker[w].at # "idle"
      /\ UNCHANGED <<rpJob, rpLinks, rpEvidence, rpTaken, rpAlone>>
    BY DEF RpPut, RpAt
<1>2. /\ RpTyped /\ rpJob \in RpJobs /\ rpObject \in RpSnapshots /\ rpAlone \in BOOLEAN
      /\ rpWorker[w].snapshot \in RpSnapshots /\ rpWorker[w].for \in {"process", "regenerate"}
      /\ RpStoredOk(rpJob, rpObject) /\ RpHas(rpWorker[w], rpJob, rpObject)
    BY <1>1, RpWorking
<1>3. rpWorker[w].snapshot # RpNone /\ rpJob.snapshot # RpNone BY <1>1, <1>2 DEF RpHas
<1>4. PICK at \in {"ready", "fail"} : /\ RpMove(w, at) /\ rpObject' \in {rpObject, rpWorker[w].snapshot}
                                      /\ at = "ready" => rpObject' = rpWorker[w].snapshot
    BY DEF RpPut
<1>5. rpObject' \in RpSnapshots /\ (rpObject # RpNone => rpObject' # RpNone) BY <1>2, <1>3, <1>4
<1>6. RpStoredOk(rpJob, rpObject') BY <1>2, <1>5 DEF RpStoredOk
<1>7. PICK state : state = [rpWorker[w] EXCEPT !.at = at] OBVIOUS
<1>8. state = [at |-> at, for |-> rpWorker[w].for, snapshot |-> rpWorker[w].snapshot] /\ state \in RpWorks
    BY <1>1, <1>2, <1>7, RpBusy
<1>9. state.at = at /\ state.for = rpWorker[w].for /\ state.snapshot = rpWorker[w].snapshot BY <1>8
<1>10. RpHas(state, rpJob, rpObject') BY <1>3, <1>4, <1>9 DEF RpHas
<1>11. ASSUME rpAlone = TRUE
       PROVE  /\ \A v \in RpWorkers : v # w => rpWorker[v].at = "idle"
              /\ RpOwns(state, rpJob, rpObject', rpLinks) /\ RpWholeOk(rpJob, rpObject', rpLinks)
  <2>1. /\ \A v \in RpWorkers : v # w => rpWorker[v].at = "idle"
        /\ RpOwns(rpWorker[w], rpJob, rpObject, rpLinks) /\ RpWholeOk(rpJob, rpObject, rpLinks)
    BY <1>1, <1>11, RpWorking
  <2>2. rpWorker[w].snapshot = rpJob.snapshot BY <1>1, <2>1 DEF RpOwns
  <2>3. RpOwns(state, rpJob, rpObject', rpLinks) BY <1>1, <1>4, <1>9, <2>1, <2>2 DEF RpOwns
  <2>4. RpWholeOk(rpJob, rpObject', rpLinks) BY <1>4, <2>1, <2>2 DEF RpWholeOk
  <2> QED BY <2>1, <2>3, <2>4
<1>12. RpGo(w, state) BY <1>4, <1>7 DEF RpMove
<1> QED BY <1>1, <1>2, <1>5, <1>6, <1>8, <1>10, <1>11, <1>12, RpStepOk DEF RpTyped

\* Declaring the report READY, or failing to, or failing to hear of it.
LEMMA RpReadyStep == ASSUME RpInv, NEW w \in RpWorkers, RpReady(w) PROVE RpInv'
<1>0. PICK ready : /\ ready = [rpJob EXCEPT !.status = "READY", !.pdf = rpWorker[w].snapshot]
                   /\ \/ /\ rpJob' = ready
                         /\ IF rpWorker[w].for = "process" THEN RpMove(w, "link") ELSE RpGo(w, RpIdle)
                      \/ rpJob' \in {rpJob, ready} /\ RpMove(w, "fail")
    BY DEF RpReady
<1>1. /\ rpWorker[w].at = "ready" /\ rpWorker[w].at # "idle"
      /\ UNCHANGED <<rpObject, rpLinks, rpEvidence, rpTaken, rpAlone>>
    BY DEF RpReady, RpAt
<1>2. /\ RpTyped /\ rpJob \in RpJobs /\ rpObject \in RpSnapshots /\ rpAlone \in BOOLEAN
      /\ rpWorker[w].snapshot \in RpSnapshots /\ rpWorker[w].for \in {"process", "regenerate"}
      /\ RpStoredOk(rpJob, rpObject) /\ RpHas(rpWorker[w], rpJob, rpObject)
    BY <1>1, RpWorking
<1>3. /\ ready = [status |-> "READY", snapshot |-> rpJob.snapshot, pdf |-> rpWorker[w].snapshot]
      /\ ready \in RpJobs
    BY <1>0, <1>2, RpJobSet
<1>4. ready.status = "READY" /\ ready.snapshot = rpJob.snapshot /\ ready.pdf = rpWorker[w].snapshot BY <1>3
<1>5. rpWorker[w].snapshot # RpNone /\ rpJob.snapshot # RpNone /\ rpObject # RpNone BY <1>1, <1>2 DEF RpHas
<1>6. RpStoredOk(ready, rpObject) BY <1>4, <1>5 DEF RpStoredOk
<1>7. ASSUME rpAlone = TRUE
      PROVE  /\ \A v \in RpWorkers : v # w => rpWorker[v].at = "idle"
             /\ rpWorker[w].for = "process" => rpLinks = {}
             /\ rpWorker[w].snapshot = rpJob.snapshot
             /\ RpWholeOk(ready, rpObject, rpLinks) /\ RpWholeOk(rpJob, rpObject, rpLinks)
  <2>1. /\ \A v \in RpWorkers : v # w => rpWorker[v].at = "idle"
        /\ RpOwns(rpWorker[w], rpJob, rpObject, rpLinks) /\ RpWholeOk(rpJob, rpObject, rpLinks)
    BY <1>1, <1>7, RpWorking
  <2>2. /\ rpWorker[w].for = "process" => rpLinks = {}
        /\ rpWorker[w].snapshot = rpJob.snapshot /\ rpObject = rpJob.snapshot
    BY <1>1, <2>1 DEF RpOwns
  <2>3. RpWholeOk(ready, rpObject, rpLinks) BY <1>4, <2>1, <2>2 DEF RpWholeOk
  <2> QED BY <2>1, <2>2, <2>3
<1>8. CASE rpJob' = ready /\ rpWorker[w].for = "process" /\ RpMove(w, "link")
  <2>1. PICK state : state = [rpWorker[w] EXCEPT !.at = "link"] OBVIOUS
  <2>2. state = [at |-> "link", for |-> rpWorker[w].for, snapshot |-> rpWorker[w].snapshot] /\ state \in RpWorks
    BY <1>1, <1>2, <2>1, RpBusy
  <2>3. state.at = "link" /\ state.for = rpWorker[w].for /\ state.snapshot = rpWorker[w].snapshot BY <2>2
  <2>4. RpHas(state, ready, rpObject) BY <1>5, <2>3 DEF RpHas
  <2>5. rpAlone = TRUE => RpOwns(state, ready, rpObject, rpLinks) BY <1>4, <1>7, <2>3 DEF RpOwns
  <2>6. RpGo(w, state) BY <1>8, <2>1 DEF RpMove
  <2>7. ready.snapshot # RpNone BY <1>4, <1>5
  <2> QED BY <1>1, <1>2, <1>3, <1>6, <1>7, <1>8, <2>2, <2>4, <2>5, <2>6, <2>7, RpStepOk DEF RpTyped
<1>9. CASE rpJob' = ready /\ RpGo(w, RpIdle)
  <2>1. ready.snapshot # RpNone BY <1>4, <1>5
  <2>2. RpIdle \in RpWorks /\ RpHas(RpIdle, ready, rpObject) /\ RpOwns(RpIdle, ready, rpObject, rpLinks) BY RpRests
  <2> QED BY <1>1, <1>2, <1>3, <1>6, <1>7, <1>9, <2>1, <2>2, RpStepOk DEF RpTyped
<1>10. CASE rpJob' \in {rpJob, ready} /\ RpMove(w, "fail")
  <2>1. PICK state : state = [rpWorker[w] EXCEPT !.at = "fail"] OBVIOUS
  <2>2. state = [at |-> "fail", for |-> rpWorker[w].for, snapshot |-> rpWorker[w].snapshot] /\ state \in RpWorks
    BY <1>1, <1>2, <2>1, RpBusy
  <2>3. state.at = "fail" /\ state.for = rpWorker[w].for BY <2>2
  <2>4. RpHas(state, rpJob', rpObject) BY <2>3 DEF RpHas
  <2>5. rpAlone = TRUE => RpOwns(state, rpJob', rpObject, rpLinks) BY <1>7, <2>3 DEF RpOwns
  <2>6. RpGo(w, state) BY <1>10, <2>1 DEF RpMove
  <2>7. ready.snapshot # RpNone BY <1>4, <1>5
  <2>8. rpJob' \in RpJobs /\ (rpJob.snapshot # RpNone => rpJob'.snapshot # RpNone) BY <1>2, <1>3, <1>10, <2>7
  <2>9. RpStoredOk(rpJob', rpObject) BY <1>2, <1>6, <1>10
  <2>10. rpAlone = TRUE => RpWholeOk(rpJob', rpObject, rpLinks) BY <1>7, <1>10
  <2> QED BY <1>1, <1>2, <1>7, <2>2, <2>4, <2>5, <2>6, <2>8, <2>9, <2>10, RpStepOk DEF RpTyped
<1> QED BY <1>0, <1>8, <1>9, <1>10

\* Asking for the links, of the snapshot the row has if its maker was always alone.
LEMMA RpLinkStep == ASSUME RpInv, NEW w \in RpWorkers, RpLink(w) PROVE RpInv'
<1>1. /\ rpWorker[w].at = "link" /\ rpWorker[w].at # "idle" /\ RpGo(w, RpIdle)
      /\ rpLinks' \in {rpLinks, rpLinks \cup rpWorker[w].snapshot.evidence}
      /\ UNCHANGED <<rpJob, rpObject, rpEvidence, rpTaken, rpAlone>>
    BY DEF RpLink, RpAt
<1>2. /\ RpTyped /\ rpJob \in RpJobs /\ rpObject \in RpSnapshots /\ rpAlone \in BOOLEAN
      /\ RpStoredOk(rpJob, rpObject)
    BY <1>1, RpWorking
<1>3. /\ RpIdle \in RpWorks /\ RpHas(RpIdle, rpJob, rpObject) /\ RpOwns(RpIdle, rpJob, rpObject, rpLinks') BY RpRests
<1>4. ASSUME rpAlone = TRUE
      PROVE  /\ \A v \in RpWorkers : v # w => rpWorker[v].at = "idle"
             /\ RpWholeOk(rpJob, rpObject, rpLinks')
  <2>1. /\ \A v \in RpWorkers : v # w => rpWorker[v].at = "idle"
        /\ RpOwns(rpWorker[w], rpJob, rpObject, rpLinks) /\ RpWholeOk(rpJob, rpObject, rpLinks)
    BY <1>1, <1>4, RpWorking
  <2>2. rpWorker[w].snapshot = rpJob.snapshot /\ rpJob.status = "READY" BY <1>1, <2>1 DEF RpOwns
  <2>3. rpLinks' \in {{}, rpJob.snapshot.evidence} BY <1>1, <2>1, <2>2 DEF RpWholeOk
  <2> QED BY <2>1, <2>2, <2>3 DEF RpWholeOk
<1> QED BY <1>1, <1>2, <1>3, <1>4, RpStepOk DEF RpTyped

\* Giving the report up: nothing was linked to one that is given up, unless makers overlapped.
LEMMA RpFailStep == ASSUME RpInv, NEW w \in RpWorkers, RpFail(w) PROVE RpInv'
<1>0. PICK failed : failed = [rpJob EXCEPT !.status = "FAILED"] OBVIOUS
<1>1. /\ rpWorker[w].at = "fail" /\ rpWorker[w].at # "idle" /\ RpGo(w, RpIdle)
      /\ (rpWorker[w].for = "process" /\ rpJob' = failed) \/ rpJob' = rpJob
      /\ UNCHANGED <<rpObject, rpLinks, rpEvidence, rpTaken, rpAlone>>
    BY <1>0 DEF RpFail, RpAt
<1>2. /\ RpTyped /\ rpJob \in RpJobs /\ rpObject \in RpSnapshots /\ rpAlone \in BOOLEAN
      /\ RpStoredOk(rpJob, rpObject)
    BY <1>1, RpWorking
<1>3. /\ failed = [status |-> "FAILED", snapshot |-> rpJob.snapshot, pdf |-> rpJob.pdf] /\ failed \in RpJobs
    <2>1. rpJob.snapshot \in RpSnapshots BY <1>2 DEF RpJobs
    <2> QED BY <1>0, <1>2, <2>1, RpJobSet
<1>4. failed.status = "FAILED" /\ failed.snapshot = rpJob.snapshot BY <1>3
<1>5. RpIdle \in RpWorks /\ RpHas(RpIdle, rpJob', rpObject) /\ RpOwns(RpIdle, rpJob', rpObject, rpLinks) BY RpRests
<1>6. rpJob' \in RpJobs /\ rpJob'.snapshot = rpJob.snapshot BY <1>1, <1>2, <1>3, <1>4
<1>7. RpStoredOk(rpJob', rpObject)
  <2>1. RpStoredOk(failed, rpObject) BY <1>4 DEF RpStoredOk
  <2> QED BY <1>1, <1>2, <2>1
<1>8. ASSUME rpAlone = TRUE
      PROVE  /\ \A v \in RpWorkers : v # w => rpWorker[v].at = "idle"
             /\ RpWholeOk(rpJob', rpObject, rpLinks)
  <2>1. /\ \A v \in RpWorkers : v # w => rpWorker[v].at = "idle"
        /\ RpOwns(rpWorker[w], rpJob, rpObject, rpLinks) /\ RpWholeOk(rpJob, rpObject, rpLinks)
    BY <1>1, <1>8, RpWorking
  <2>2. CASE rpWorker[w].for = "process" /\ rpJob' = failed
    <3>1. rpLinks = {} BY <1>1, <2>1, <2>2 DEF RpOwns
    <3>2. RpWholeOk(failed, rpObject, rpLinks) BY <1>4, <3>1 DEF RpWholeOk
    <3> QED BY <2>1, <2>2, <3>2
  <2>3. CASE rpJob' = rpJob BY <2>1, <2>3
  <2> QED BY <1>1, <2>2, <2>3
<1> QED BY <1>1, <1>2, <1>5, <1>6, <1>7, <1>8, RpStepOk DEF RpTyped

\* Rendering the stored snapshot again.
LEMMA RpRegenerateStep == ASSUME RpInv, NEW w \in RpWorkers, RpRegenerate(w) PROVE RpInv'
<1>0. PICK state : state = [at |-> "put", for |-> "regenerate", snapshot |-> rpJob.snapshot] OBVIOUS
<1>1. /\ rpJob.snapshot # RpNone /\ RpBegin(w, state) /\ RpTyped
      /\ UNCHANGED <<rpJob, rpObject, rpLinks, rpEvidence, rpTaken>>
    BY <1>0 DEF RpRegenerate, RpInv
<1>2. /\ RpGo(w, state) /\ rpAlone' \in BOOLEAN
      /\ rpAlone' = TRUE => rpAlone = TRUE /\ \A v \in RpWorkers : rpWorker[v].at = "idle"
    BY <1>1, RpBeginIs
<1>3. rpJob \in RpJobs /\ rpJob.snapshot \in RpSnapshots BY <1>1 DEF RpTyped, RpJobs
<1>4. state \in RpWorks BY <1>0, <1>3 DEF RpWorks
<1>5. state.at = "put" /\ state.for = "regenerate" /\ state.snapshot = rpJob.snapshot BY <1>0
<1>6. RpHas(state, rpJob, rpObject) /\ RpOwns(state, rpJob, rpObject, rpLinks) BY <1>1, <1>5 DEF RpHas, RpOwns
<1>7. RpStoredOk(rpJob, rpObject) /\ (rpAlone = TRUE => RpWholeOk(rpJob, rpObject, rpLinks)) BY DEF RpInv, RpAloneOk
<1> QED BY <1>1, <1>2, <1>3, <1>4, <1>6, <1>7, RpStepOk DEF RpTyped

\* The death of a maker.
LEMMA RpDieStep == ASSUME RpInv, NEW w \in RpWorkers, RpDie(w) PROVE RpInv'
<1>1. /\ rpWorker[w].at # "idle" /\ RpGo(w, RpIdle)
      /\ UNCHANGED <<rpJob, rpObject, rpLinks, rpEvidence, rpTaken, rpAlone>>
    BY DEF RpDie, RpAt
<1>2. /\ RpTyped /\ RpStoredOk(rpJob, rpObject)
      /\ rpAlone = TRUE => /\ \A v \in RpWorkers : v # w => rpWorker[v].at = "idle"
                           /\ RpWholeOk(rpJob, rpObject, rpLinks)
    BY <1>1, RpWorking
<1>3. RpIdle \in RpWorks /\ RpHas(RpIdle, rpJob, rpObject) /\ RpOwns(RpIdle, rpJob, rpObject, rpLinks) BY RpRests
<1> QED BY <1>1, <1>2, <1>3, RpStepOk DEF RpTyped

\* The start of an instance: the RUNNING row is QUEUED, whoever still makes the report.
LEMMA RpStartStep == ASSUME RpInv, RpStart PROVE RpInv'
<1>0. PICK job, st : /\ st = (IF rpJob.status = "RUNNING" THEN "QUEUED" ELSE rpJob.status)
                     /\ job = [rpJob EXCEPT !.status = st]
    OBVIOUS
<1>1. /\ rpJob' = job /\ RpTyped
      /\ UNCHANGED <<rpObject, rpLinks, rpEvidence, rpTaken, rpWorker, rpAlone>>
    BY <1>0 DEF RpStart, RpInv
<1>2. rpJob \in RpJobs /\ rpJob.snapshot \in RpSnapshots BY <1>1 DEF RpTyped, RpJobs
<1>3. st \in {"QUEUED", "RUNNING", "READY", "FAILED"} /\ (st = "READY" <=> rpJob.status = "READY")
    BY <1>0, <1>2 DEF RpJobs
<1>4. job = [status |-> st, snapshot |-> rpJob.snapshot, pdf |-> rpJob.pdf] /\ job \in RpJobs
    BY <1>0, <1>2, <1>3, RpJobSet
<1>5. job.status = st /\ job.snapshot = rpJob.snapshot /\ job.pdf = rpJob.pdf BY <1>4
<1>6. RpTyped' BY <1>1, <1>4 DEF RpTyped
<1>7. RpStoredOk(rpJob, rpObject)'
  <2>1. RpStoredOk(rpJob, rpObject) BY DEF RpInv
  <2>2. RpStoredOk(job, rpObject) BY <1>3, <1>5, <2>1 DEF RpStoredOk
  <2> QED BY <1>1, <2>2
<1>8. ASSUME NEW v \in RpWorkers PROVE RpHas(rpWorker[v], rpJob, rpObject)'
  <2>1. RpHas(rpWorker[v], rpJob, rpObject) BY DEF RpInv
  <2>2. RpHas(rpWorker[v], job, rpObject) BY <1>5, <2>1 DEF RpHas
  <2> QED BY <1>1, <2>2
<1>9. ASSUME rpAlone' = TRUE PROVE RpAloneOk'
  <2>1. RpAloneOk BY <1>1, <1>9 DEF RpInv
  <2>2. \A v, u \in RpWorkers : rpWorker'[v].at # "idle" /\ rpWorker'[u].at # "idle" => v = u
    BY <1>1, <2>1 DEF RpAloneOk
  <2>3. ASSUME NEW v \in RpWorkers PROVE RpOwns(rpWorker[v], rpJob, rpObject, rpLinks)'
    <3>1. RpOwns(rpWorker[v], rpJob, rpObject, rpLinks) BY <2>1 DEF RpAloneOk
    <3>2. RpOwns(rpWorker[v], job, rpObject, rpLinks) BY <1>3, <1>5, <3>1 DEF RpOwns
    <3> QED BY <1>1, <3>2
  <2>4. RpWholeOk(rpJob, rpObject, rpLinks)'
    <3>1. RpWholeOk(rpJob, rpObject, rpLinks) BY <2>1 DEF RpAloneOk
    <3>2. RpWholeOk(job, rpObject, rpLinks) BY <1>3, <1>5, <3>1 DEF RpWholeOk
    <3> QED BY <1>1, <3>2
  <2> QED BY <2>2, <2>3, <2>4 DEF RpAloneOk
<1> QED BY <1>6, <1>7, <1>8, <1>9 DEF RpInv

\* Every step keeps the invariant.
LEMMA RpInvStep == RpInv /\ [RpNext]_rpVars => RpInv'
<1>1. SUFFICES ASSUME RpInv, [RpNext]_rpVars PROVE RpInv' OBVIOUS
<1>2. CASE RpRecorded
  <2>1. RpInv /\ UNCHANGED <<rpJob, rpObject, rpLinks, rpTaken, rpWorker, rpAlone>> /\ rpEvidence' = rpEvidence + 1
    BY <1>1, <1>2 DEF RpRecorded
  <2>2. RpTyped' BY <2>1 DEF RpInv, RpTyped
  <2>3. RpAloneOk => RpAloneOk' BY <2>1 DEF RpAloneOk
  <2> QED BY <2>1, <2>2, <2>3 DEF RpInv
<1>3. CASE UNCHANGED rpVars
  <2>1. RpTyped => RpTyped' BY <1>3 DEF rpVars, RpTyped
  <2>2. RpAloneOk => RpAloneOk' BY <1>3 DEF rpVars, RpAloneOk
  <2> QED BY <1>1, <1>3, <2>1, <2>2 DEF RpInv, rpVars
<1> QED BY <1>1, <1>2, <1>3, RpStartStep, RpClaimStep, RpBuildStep, RpStoreStep, RpPutStep, RpReadyStep,
           RpLinkStep, RpFailStep, RpRegenerateStep, RpDieStep DEF RpNext

-----------------------------------------------------------------------------
(* Files and reports together, as the platform runs them: MCPlatform. *)

PlatformDocuments == StInv /\ RpInv

\* Every step of the platform is one of the files or leaves them alone, and so with the reports.
LEMMA DocumentsStep == PlatformDocuments /\ [PlatformNext]_platformVars => PlatformDocuments'
<1>1. SUFFICES ASSUME PlatformDocuments, [PlatformNext]_platformVars PROVE PlatformDocuments' OBVIOUS
<1>2. StInv /\ RpInv BY <1>1 DEF PlatformDocuments
<1>3. [StNext]_stVars /\ [RpNext]_rpVars BY <1>1 DEF PlatformNext, platformVars
<1> QED BY <1>2, <1>3, StInvStep, RpInvStep DEF PlatformDocuments

\* A partner's files survive restores, reach the archives, back the evidence and stay when the
\* partner is archived, to the extent that overlapping requests leave them; and a report that is
\* READY has its document, of one snapshot unless makers overlapped: for any requests, makers,
\* archives, restores, deaths and starts.
THEOREM DocumentsAreKept == PlatformSpec => []DocumentsSafe
<1>1. PlatformInit => PlatformDocuments BY StInvInit, RpInvInit DEF PlatformInit, PlatformDocuments
<1>2. PlatformDocuments => DocumentsSafe BY StInvIsSafe, RpInvIsSafe DEF PlatformDocuments, DocumentsSafe
<1> QED BY <1>1, <1>2, DocumentsStep, PTL DEF PlatformSpec
=============================================================================
