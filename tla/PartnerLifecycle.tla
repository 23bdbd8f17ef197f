--------------------------- MODULE PartnerLifecycle ---------------------------
(***************************************************************************)
(* The lifecycle of one partner in services/cmd/partners/main.go: PATCH    *)
(* /partners/{id} and POST /partners/{id}/purge-operational.               *)
(*                                                                         *)
(* Both handlers read the partner, check what they read, and then write    *)
(* the row by its id in a transaction that locks nothing they read.  PATCH *)
(* writes every column back, the lifecycle included, so an edit of another *)
(* column (none is modelled) carries the lifecycle it has read.  Between   *)
(* read and write another handler may run, or the handler may stop (the    *)
(* billing gate refuses, the process dies).                                *)
(***************************************************************************)
EXTENDS Naturals, Sequences

CONSTANTS
    Handlers,     \* requests in progress
    Targets,      \* lifecycles requests ask for
    MaxHistory    \* bound: lifecycle_history rows

Lifecycles == {"PROSPECT", "LICENSE_PENDING", "READY_TO_PROVISION", "PROVISIONING",
               "CONFIGURATION", "TESTING", "READY_FOR_LAUNCH", "LIVE", "SUSPENDED",
               "ARCHIVED"}

ASSUME LifecycleAssumption ==
    /\ Targets \subseteq Lifecycles
    /\ MaxHistory \in Nat

VARIABLES
    row,        \* partners.partners: lifecycle and test_partner
    history,    \* partners.lifecycle_history
    archive,    \* compliance.partner_archives: the history rows in the snapshot,
                \* 0 when there is none
    users,      \* whether the partner has login identities
    handler     \* what each request has read and will write

vars == <<row, history, archive, users, handler>>

Rows == [lifecycle : Lifecycles, test : BOOLEAN]
Idle == [op |-> "idle"]

\* Rows and requests hold what their columns and the code allow.
TypeOK ==
    /\ row \in Rows
    /\ history \in Seq([from : Lifecycles, to : Lifecycles])
    /\ Len(history) <= MaxHistory
    /\ archive \in 0..Len(history)
    /\ users \in BOOLEAN
    /\ handler \in [Handlers -> {Idle}
            \cup [op : {"patch"}, old : Lifecycles, new : Rows]
            \cup [op : {"purge"}, old : {"SUSPENDED", "ARCHIVED"}]]

\* POST /partners: new partners begin in PROSPECT.
Init ==
    /\ row = [lifecycle |-> "PROSPECT", test |-> FALSE]
    /\ history = <<>>
    /\ archive = 0
    /\ users = TRUE
    /\ handler = [h \in Handlers |-> Idle]

-----------------------------------------------------------------------------
\* lifecycleTransitions
Path == <<"PROSPECT", "LICENSE_PENDING", "READY_TO_PROVISION", "PROVISIONING",
          "CONFIGURATION", "TESTING", "READY_FOR_LAUNCH", "LIVE">>

lifecycleTransitions ==
    {<<Path[n], Path[n + 1]>> : n \in 1..7}
        \cup {<<Path[n + 1], Path[n]>> : n \in 1..6}
        \cup {<<Path[n], "SUSPENDED">> : n \in 1..8}
        \cup {<<"SUSPENDED", Path[n]>> : n \in 1..8}
        \cup {<<l, "ARCHIVED">> : l \in {"PROSPECT", "LICENSE_PENDING",
                                         "READY_TO_PROVISION", "LIVE", "SUSPENDED"}}

canTransition(from, to) == from = to \/ <<from, to>> \in lifecycleTransitions

Begin(h, r) ==
    /\ handler[h] = Idle
    /\ handler' = [handler EXCEPT ![h] = r]
    /\ UNCHANGED <<row, history, archive, users>>

\* PATCH reads the row, applies the request to it and checks the transition; a
\* request that names no lifecycle keeps the one it has read.
ReadForPatch(h, to) ==
    /\ canTransition(row.lifecycle, to)
    /\ Begin(h, [op |-> "patch", old |-> row.lifecycle,
                 new |-> [row EXCEPT !.lifecycle = to]])

\* A PATCH that makes the partner the Golden Test Partner sets LIVE unchecked.
ReadForGolden(h) ==
    /\ ~row.test
    /\ Begin(h, [op |-> "patch", old |-> row.lifecycle,
                 new |-> [lifecycle |-> "LIVE", test |-> TRUE]])

\* purge-operational requires a suspended or an archived partner.
ReadForPurge(h) ==
    /\ row.lifecycle \in {"SUSPENDED", "ARCHIVED"}
    /\ Begin(h, [op |-> "purge", old |-> row.lifecycle])

\* A row of lifecycle_history, when the handler's own view changes.
Historize(from, to) ==
    history' = IF from = to THEN history
               ELSE Append(history, [from |-> from, to |-> to])

\* archiveComplianceTx: the snapshot of a partner is taken once.
archiveCompliance == archive' = IF archive = 0 THEN Len(history') ELSE archive

\* Mutation of WritePatch: the snapshot is left to a later job.
WritePatchOnly(h) ==
    /\ handler[h].op = "patch"
    /\ Len(history) < MaxHistory
    /\ row' = handler[h].new
    /\ Historize(handler[h].old, row'.lifecycle)
    /\ handler' = [handler EXCEPT ![h] = Idle]
    /\ UNCHANGED <<users, archive>>

\* One transaction: the row, the history and, on archival, the snapshot.
WritePatch(h) ==
    /\ handler[h].op = "patch"
    /\ Len(history) < MaxHistory
    /\ row' = handler[h].new
    /\ Historize(handler[h].old, row'.lifecycle)
    /\ IF handler[h].old # row'.lifecycle /\ row'.lifecycle = "ARCHIVED"
       THEN archiveCompliance ELSE UNCHANGED archive
    /\ handler' = [handler EXCEPT ![h] = Idle]
    /\ UNCHANGED users

\* One transaction: the identities, the lifecycle unless the partner was read
\* as archived, and the snapshot.
WritePurge(h) ==
    /\ handler[h].op = "purge"
    /\ Len(history) < MaxHistory
    /\ users' = FALSE
    /\ row' = [row EXCEPT !.lifecycle = IF handler[h].old # "ARCHIVED" THEN "ARCHIVED" ELSE @]
    /\ Historize(handler[h].old, "ARCHIVED")
    /\ archiveCompliance
    /\ handler' = [handler EXCEPT ![h] = Idle]

\* The request is refused or dies between its read and its write.
Stop(h) ==
    /\ handler[h] # Idle
    /\ handler' = [handler EXCEPT ![h] = Idle]
    /\ UNCHANGED <<row, history, archive, users>>

Next ==
    \E h \in Handlers :
        \/ \E to \in Targets \cup {row.lifecycle} : ReadForPatch(h, to)
        \/ ReadForGolden(h)
        \/ ReadForPurge(h)
        \/ WritePatch(h)
        \/ WritePurge(h)
        \/ Stop(h)

Spec == Init /\ [][Next]_vars

-----------------------------------------------------------------------------
\* A partner that is archived, or whose identities were purged, has a
\* compliance snapshot, whatever stale rows concurrent edits write back
\* (main.go:785-799, :880-885).
ArchivedIsSecured == row.lifecycle = "ARCHIVED" \/ ~users => archive # 0

\* The snapshot contains the transition that caused it (compliance_archive.go:180-204,
\* called after the history row is inserted).
SnapshotShowsArchival == archive # 0 => history[archive].to = "ARCHIVED"

\* The lifecycle moves only along the permitted transitions, or to LIVE by
\* golden activation.  Violated: an edit that has read an older lifecycle
\* writes it back, so an ARCHIVED partner is live again.
JumpsAreLegal ==
    [][canTransition(row.lifecycle, row'.lifecycle) \/ row'.test # row.test]_vars

\* An archived partner's data are secured, by a snapshot that already shows the
\* archival, whatever edits and purges overlap.
LifecycleSafe ==
    /\ TypeOK
    /\ ArchivedIsSecured
    /\ SnapshotShowsArchival
=============================================================================
