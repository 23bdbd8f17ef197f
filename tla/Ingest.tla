-------------------------------- MODULE Ingest --------------------------------
(***************************************************************************)
(* services/cmd/connector (START-22 batches and their retention) with the  *)
(* values services/cmd/impact keeps of them, for one partner and one       *)
(* dataset that goes to Impact.                                            *)
(*                                                                         *)
(* A batch is stored in one transaction; its records are then sent to      *)
(* Impact one by one, outside it, and nothing sends a record again.  Holds *)
(* and privacy deletions change Impact first and the connector after.  A   *)
(* request is dropped between any two steps when its process stops or its  *)
(* caller gives up (every statement runs under the request's context).     *)
(*                                                                         *)
(* A record's checksum and its numbers are one value.                      *)
(***************************************************************************)
EXTENDS Naturals, FiniteSets

CONSTANTS
    IgEnvironments, \* environments of the partner that have a credential
    IgBatchIds,     \* batch_id values of the partner's site
    IgContents,     \* what a batch may hold: functions from item keys to values
    IgRequests,     \* requests in progress at once
    IgMaxRecords,   \* bound: records ever stored
    IgMaxBegun      \* bound: requests ever begun

ASSUME IgAssumption ==
    /\ {IgMaxRecords, IgMaxBegun} \subseteq Nat
    /\ \A content \in IgContents : IsFiniteSet(DOMAIN content)

VARIABLES
    igRecords,   \* connector.data_records by id; a deleted one is remembered
    igBatches,   \* connector.data_batches: content of each accepted batch that is on record
    igValues,    \* impact.metric_values
    igRequest,   \* what each request does
    igBegun      \* bound used up

igVars == <<igRecords, igBatches, igValues, igRequest, igBegun>>

IgIdle == [at |-> "idle"]
IgIds == DOMAIN igRecords
IgStored == {i \in IgIds : igRecords[i].stored}
IgBatchKeys == IgEnvironments \X IgBatchIds
NoBatch == <<>>

IgInit ==
    /\ igRecords = <<>> /\ igBatches = [b \in IgBatchKeys |-> NoBatch]
    /\ igValues = {} /\ igRequest = [q \in IgRequests |-> IgIdle] /\ igBegun = 0

IgAt(q, at) == igRequest[q].at = at
IgGo(q, state) == igRequest' = [igRequest EXCEPT ![q] = state]
IgBegin == igBegun < IgMaxBegun /\ igBegun' = igBegun + 1

\* Records a request still has to send, or to hold or delete.
IgWorksOn(q) ==
    CASE igRequest[q].at \in {"send", "mark"} -> igRequest[q].todo
      [] igRequest[q].at \in {"hold impact", "hold", "delete impact", "delete", "purge"} -> {igRequest[q].id}
      [] OTHER -> {}
IgBusy(i) == \E q \in IgRequests : i \in IgWorksOn(q)

-------------------------------------------------------------------------------
\* start22DataBatch: a known batch_id is answered from its row.
IgBatch(q, env, id, content) ==
    /\ IgAt(q, "idle") /\ IgBegin
    /\ igBatches[<<env, id>>] = NoBatch
    /\ IgGo(q, [at |-> "store", env |-> env, id |-> id, content |-> content])
    /\ UNCHANGED <<igRecords, igBatches, igValues>>

\* An item is known under its environment and key.
IgKnown(env, key) == {i \in IgStored : igRecords[i].env = env /\ igRecords[i].key = key}
IgConflict(env, content) ==
    \E key \in DOMAIN content, i \in IgStored :
        i \in IgKnown(env, key) /\ igRecords[i].val # content[key]
IgFresh(env, content) == {key \in DOMAIN content : IgKnown(env, key) = {}}

\* The transaction: all items, the batch row (unique) and the sync state; or none of them.
IgStore(q) ==
    /\ IgAt(q, "store")
    /\ LET r == igRequest[q]
           n == Cardinality(IgIds)
           fresh == IgFresh(r.env, r.content)
       IN  IF igBatches[<<r.env, r.id>>] # NoBatch \/ IgConflict(r.env, r.content)
           THEN IgGo(q, IgIdle) /\ UNCHANGED <<igRecords, igBatches>>
           ELSE /\ n + Cardinality(fresh) <= IgMaxRecords
                /\ \E order \in [fresh -> (n + 1)..(n + Cardinality(fresh))] :
                      /\ \A k, l \in fresh : k # l => order[k] # order[l]
                      /\ igRecords' = [i \in 1..(n + Cardinality(fresh)) |->
                            IF i <= n THEN igRecords[i]
                            ELSE LET key == CHOOSE k \in fresh : order[k] = i
                                 IN  [env |-> r.env, batch |-> r.id, key |-> key, val |-> r.content[key],
                                      route |-> "PENDING", hold |-> FALSE, asked |-> FALSE, old |-> FALSE,
                                      stored |-> TRUE, wiped |-> FALSE, raced |-> FALSE]]
                /\ igBatches' = [igBatches EXCEPT ![<<r.env, r.id>>] = r.content]
                /\ IgGo(q, IF fresh = {} THEN IgIdle
                           ELSE [at |-> "send", todo |-> (n + 1)..(n + Cardinality(fresh))])
    /\ UNCHANGED <<igValues, igBegun>>

\* Impact keeps one value per key; the key names the partner, dataset, item and field.
IgKept(key) == {v \in igValues : v.key = key}
IgAcceptsAnything(i) == TRUE   \* mutation of IgAccepts: a known key answers 200 whatever it holds
IgAccepts(i) == \A v \in IgKept(igRecords[i].key) : v.ref = i /\ v.val = igRecords[i].val

\* start22RouteImpactRecord: the value is stored, refused, or the call or its answer is lost.
IgSend(q) ==
    /\ IgAt(q, "send")
    /\ \E i \in igRequest[q].todo :
          /\ \A j \in igRequest[q].todo : i <= j
          /\ \E stores \in BOOLEAN, answered \in BOOLEAN :
                /\ igValues' = IF stores /\ IgKept(igRecords[i].key) = {}
                               THEN igValues \cup {[key |-> igRecords[i].key, ref |-> i,
                                                    val |-> igRecords[i].val, hold |-> FALSE]}
                               ELSE igValues
                /\ IgGo(q, [at |-> "mark", todo |-> igRequest[q].todo, id |-> i,
                            route |-> IF stores /\ answered /\ IgAccepts(i) THEN "ROUTED" ELSE "ERROR"])
    /\ UNCHANGED <<igRecords, igBatches, igBegun>>
IgMark(q) ==
    /\ IgAt(q, "mark")
    /\ LET i == igRequest[q].id
           rest == igRequest[q].todo \ {i}
       IN  /\ igRecords' = [igRecords EXCEPT ![i].route = igRequest[q].route]
           /\ IgGo(q, IF rest = {} THEN IgIdle ELSE [at |-> "send", todo |-> rest])
    /\ UNCHANGED <<igBatches, igValues, igBegun>>

-------------------------------------------------------------------------------
\* Two requests on one record, or one that is dropped halfway, are remembered.
IgRaced(i, also) == [igRecords EXCEPT ![i].raced = @ \/ IgBusy(i) \/ also]

\* SET_LEGAL_HOLD.
IgHold(q, i, held) ==
    /\ IgAt(q, "idle") /\ IgBegin /\ i \in IgStored
    /\ igRecords' = IgRaced(i, FALSE)
    /\ IgGo(q, [at |-> "hold impact", id |-> i, held |-> held])
    /\ UNCHANGED <<igBatches, igValues>>
IgHoldImpact(q) ==
    /\ IgAt(q, "hold impact")
    /\ LET r == igRequest[q] IN
       /\ igValues' = {IF v.ref = r.id THEN [v EXCEPT !.hold = r.held] ELSE v : v \in igValues}
       /\ IgGo(q, [r EXCEPT !.at = "hold"])
    /\ UNCHANGED <<igRecords, igBatches, igBegun>>
IgHoldRecord(q) ==
    /\ IgAt(q, "hold")
    /\ LET r == igRequest[q] IN
       igRecords' = IF igRecords[r.id].stored THEN [igRecords EXCEPT ![r.id].hold = r.held] ELSE igRecords
    /\ IgGo(q, IgIdle)
    /\ UNCHANGED <<igBatches, igValues, igBegun>>

\* PRIVACY_DELETE of a record without a hold: Impact, the mark, the purge.
IgDelete(q, i) ==
    /\ IgAt(q, "idle") /\ IgBegin /\ i \in IgStored /\ ~igRecords[i].hold
    /\ igRecords' = IgRaced(i, FALSE)
    /\ IgGo(q, [at |-> "delete impact", id |-> i])
    /\ UNCHANGED <<igBatches, igValues>>
IgDeleteImpact(q) ==
    /\ IgAt(q, "delete impact")
    /\ LET i == igRequest[q].id IN
       /\ igValues' = {v \in igValues : v.ref # i \/ v.hold}
       /\ igRecords' = [igRecords EXCEPT ![i].wiped = TRUE]
       /\ IgGo(q, [igRequest[q] EXCEPT !.at = "delete"])
    /\ UNCHANGED <<igBatches, igBegun>>
IgDeleteRecord(q) ==
    /\ IgAt(q, "delete")
    /\ LET i == igRequest[q].id IN
       IF igRecords[i].stored /\ ~igRecords[i].hold
       THEN /\ igRecords' = [igRecords EXCEPT ![i].asked = TRUE]
            /\ IgGo(q, [igRequest[q] EXCEPT !.at = "purge"])
       ELSE igRecords' = igRecords /\ IgGo(q, IgIdle)
    /\ UNCHANGED <<igBatches, igValues, igBegun>>
\* start22PurgeRetention, after a deletion, on request or once a day: records go, and then
\* the rows of batches of the same age that have no record left.
IgPurged ==
    [i \in IgIds |-> [igRecords[i] EXCEPT !.stored = @ /\ ~(~igRecords[i].hold /\ (igRecords[i].asked \/ igRecords[i].old))]]
IgMade(b) == {i \in IgIds : igRecords[i].env = b[1] /\ igRecords[i].batch = b[2]}
IgPurges ==
    /\ igRecords' = IgPurged
    /\ \E over \in SUBSET {b \in IgBatchKeys : \A i \in IgMade(b) : igRecords[i].old /\ ~igRecords[i].hold} :
          igBatches' = [b \in IgBatchKeys |-> IF b \in over THEN NoBatch ELSE igBatches[b]]
IgPurge(q) ==
    /\ IgAt(q, "purge") /\ IgGo(q, IgIdle)
    /\ IgPurges
    /\ UNCHANGED <<igValues, igBegun>>
IgDaily == IgPurges /\ UNCHANGED <<igValues, igRequest, igBegun>>
IgDailyImpact ==
    /\ igValues' = {v \in igValues : v.hold \/ ~igRecords[v.ref].old}
    /\ UNCHANGED <<igRecords, igBatches, igRequest, igBegun>>
\* retain_until passes, the same in both.
IgAges(i) ==
    /\ igRecords' = [igRecords EXCEPT ![i].old = TRUE]
    /\ UNCHANGED <<igBatches, igValues, igRequest, igBegun>>

\* The process stops or the caller gives up.
IgDropped(q) ==
    /\ ~IgAt(q, "idle") /\ IgGo(q, IgIdle)
    /\ igRecords' = [i \in IgIds |-> [igRecords[i] EXCEPT !.raced = @ \/
                        (i \in IgWorksOn(q) /\ igRequest[q].at \notin {"send", "mark"})]]
    /\ UNCHANGED <<igBatches, igValues, igBegun>>

IgNext ==
    \/ IgDaily \/ IgDailyImpact
    \/ \E i \in IgIds : IgAges(i)
    \/ \E q \in IgRequests :
          \/ \E env \in IgEnvironments, id \in IgBatchIds, content \in IgContents : IgBatch(q, env, id, content)
          \/ IgStore(q) \/ IgSend(q) \/ IgMark(q)
          \/ \E i \in IgIds : IgDelete(q, i) \/ \E held \in BOOLEAN : IgHold(q, i, held)
          \/ IgHoldImpact(q) \/ IgHoldRecord(q)
          \/ IgDeleteImpact(q) \/ IgDeleteRecord(q) \/ IgPurge(q) \/ IgDropped(q)

IgSpec == IgInit /\ [][IgNext]_igVars

-------------------------------------------------------------------------------
(* Every item of an accepted batch is kept with the value the batch gave    *)
(* it, under this batch or an earlier one, until it is deleted: a batch_id  *)
(* that is answered as known, and not stored again, hides nothing.          *)
IgAcceptedIsKept ==
    \A b \in IgBatchKeys : igBatches[b] # NoBatch =>
        \A key \in DOMAIN igBatches[b] :
            \E i \in IgIds : /\ igRecords[i].env = b[1] /\ igRecords[i].key = key
                             /\ igRecords[i].val = igBatches[b][key]

(* A record that says ROUTED has its own value in Impact, until its         *)
(* retention is over or a privacy deletion has reached Impact.              *)
IgRoutedIsThere ==
    \A i \in IgIds : igRecords[i].route = "ROUTED" /\ ~igRecords[i].wiped /\ ~igRecords[i].old =>
        \E v \in igValues : v.ref = i /\ v.val = igRecords[i].val

(* The values of a record under legal hold are under hold in Impact too,    *)
(* unless requests on the record overlapped or one was dropped halfway.     *)
IgHeldInBoth ==
    \A i \in IgStored : igRecords[i].hold /\ ~igRecords[i].raced /\ ~IgBusy(i) =>
        \A v \in igValues : v.ref = i => v.hold

(* A record deleted for privacy has left nothing in Impact, under the same  *)
(* condition.                                                               *)
IgDeletedInBoth ==
    \A i \in IgIds \ IgStored : igRecords[i].asked /\ ~igRecords[i].raced => \A v \in igValues : v.ref # i

(* Not guaranteed by the code (start22_ingest.go:436): when no request is   *)
(* in progress every kept record is routed or says why not.  Nothing looks  *)
(* for PENDING records, and the repeated batch is ALREADY_PROCESSED.        *)
IgNothingPending ==
    \A i \in IgStored : ~IgBusy(i) => igRecords[i].route # "PENDING"

(* Not guaranteed by the code (start22_admin.go:211): the Impact value of a *)
(* routed record under hold is there.  The hold may come after the deletion *)
(* has reached Impact and before it reaches the record.                     *)
IgHeldIsThere ==
    \A i \in IgStored : igRecords[i].hold /\ igRecords[i].route = "ROUTED" /\ ~igRecords[i].old => \E v \in igValues : v.ref = i

(* Not guaranteed by the code (start22_ingest.go:540): the environments of  *)
(* a partner do not meet.  Impact's key does not name the environment, so   *)
(* the item sent from STAGING first refuses the one from PRODUCTION.        *)
IgApart ==
    \A i, j \in IgStored : \A v \in igValues :
        v.key = igRecords[i].key /\ igRecords[i].route = "ERROR" /\ igRecords[j].env # igRecords[i].env => v.ref # j

\* The connector and Impact agree about the records that were accepted, sent,
\* held and deleted, although every step between them may be the last or be
\* repeated.
IngestSafe ==
    /\ IgAcceptedIsKept
    /\ IgRoutedIsThere
    /\ IgHeldInBoth
    /\ IgDeletedInBoth
===============================================================================
