------------------------------ MODULE MediaStore ------------------------------
(***************************************************************************)
(* services/cmd/storage, the directory of one partner's files, with what   *)
(* services/cmd/evidence records of them, the documents billing registers  *)
(* with that evidence, and the archives services/cmd/backups takes and     *)
(* puts back.                                                              *)
(*                                                                         *)
(* Nothing is locked: requests work on paths, and a path names whatever    *)
(* directory is there when it is used.  An upload writes a file of its own *)
(* and renames it; a restore renames the directory away and another into   *)
(* its place; an archive lists the files and then reads them one by one.   *)
(* Every upload has a key of its own, so an object is the upload's number. *)
(***************************************************************************)
EXTENDS Naturals

CONSTANTS
    StWorkers,      \* requests in progress
    StMaxUploads,   \* bound: uploads ever begun
    StMaxRestores,  \* bound: restores ever begun
    StMaxArchives,  \* bound: archives ever begun
    StMaxStops      \* bound: deaths of the storage process

ASSUME StAssumption == {StMaxUploads, StMaxRestores, StMaxArchives, StMaxStops} \subseteq Nat

VARIABLES
    stRoot,     \* what the path names: there, its objects, the temporary files in it
    stAside,    \* directories renamed away (.pre-restore-), and by which restore
    stRows,     \* evidence.items, and which of them billing.documents refer to
    stPoint,    \* the archive of the latest restore point
    stLock,     \* compliance.partner_archives: is there one, and what it found
    stWorker,   \* what each request does
    stDone      \* counts, the uploads finished, and what restores have replaced

stVars == <<stRoot, stAside, stRows, stPoint, stLock, stWorker, stDone>>

StIdle == [at |-> "idle"]
StGone == [there |-> FALSE, objects |-> {}, temps |-> {}]

StInit ==
    /\ stRoot = [StGone EXCEPT !.there = TRUE] /\ stAside = {}
    /\ stRows = [all |-> {}, used |-> {}]
    /\ stPoint = [taken |-> FALSE, has |-> {}, temps |-> {}, listed |-> {}, quiet |-> TRUE]
    /\ stLock = [on |-> FALSE, objects |-> {}, late |-> {}]
    /\ stWorker = [w \in StWorkers |-> StIdle]
    /\ stDone = [begun |-> 0, stored |-> {}, replaced |-> {}, restores |-> 0, archives |-> 0, stops |-> 0]

StAt(w, at) == stWorker[w].at = at
StGo(w, state) == stWorker' = [stWorker EXCEPT ![w] = state]
StMove(w, at) == StGo(w, [stWorker[w] EXCEPT !.at = at])
\* A move of the directory, as the archives being read see it.
StDisturbed(ws) == [w \in StWorkers |-> IF ws[w].at = "read" THEN [ws[w] EXCEPT !.quiet = FALSE] ELSE ws[w]]

-------------------------------------------------------------------------------
\* complianceRetentionLocked: no file changes while the partner's archive is retained.
StUnlocked == ~stLock.on

\* createFileEvidence, objectRoute PUT: the lock is asked for once ...
StUpload(w) ==
    /\ StAt(w, "idle") /\ StUnlocked /\ stDone.begun < StMaxUploads
    /\ stDone' = [stDone EXCEPT !.begun = @ + 1]
    /\ StGo(w, [at |-> "open", id |-> stDone.begun + 1])
    /\ UNCHANGED <<stRoot, stAside, stRows, stPoint, stLock>>
\* ... ensure makes the directory if there is none, and a temporary file is written in it ...
StOpen(w) ==
    /\ StAt(w, "open")
    /\ stRoot' = [stRoot EXCEPT !.there = TRUE, !.temps = @ \cup {stWorker[w].id}]
    /\ StMove(w, "rename")
    /\ UNCHANGED <<stAside, stRows, stPoint, stLock, stDone>>
\* ... which gets its name, if it is still where it was written ...
StRename(w) ==
    /\ StAt(w, "rename") /\ stWorker[w].id \in stRoot.temps
    /\ stRoot' = [stRoot EXCEPT !.temps = @ \ {stWorker[w].id}, !.objects = @ \cup {stWorker[w].id}]
    /\ stDone' = [stDone EXCEPT !.stored = @ \cup {stWorker[w].id}]
    /\ StMove(w, "row")
    /\ UNCHANGED <<stAside, stRows, stPoint, stLock>>
\* ... or is removed, if it is; and the evidence has a row.
StUploadFails(w) ==
    /\ stWorker[w].at \in {"open", "rename"}
    /\ stRoot' = [stRoot EXCEPT !.temps = @ \ {stWorker[w].id}]
    /\ StGo(w, StIdle)
    /\ UNCHANGED <<stAside, stRows, stPoint, stLock, stDone>>
StRow(w) ==
    /\ StAt(w, "row")
    /\ stRows' \in {stRows, [stRows EXCEPT !.all = @ \cup {stWorker[w].id}]}
    /\ StGo(w, StIdle)
    /\ UNCHANGED <<stRoot, stAside, stPoint, stLock, stDone>>

\* validateCommercialEvidenceReference: a commercial document is registered with evidence whose
\* file is intact, after having asked.
StAsk(w, id) ==
    /\ StAt(w, "idle") /\ id \in stRows.all \ stRows.used /\ id \in stRoot.objects
    /\ StGo(w, [at |-> "use", id |-> id])
    /\ UNCHANGED <<stRoot, stAside, stRows, stPoint, stLock, stDone>>
StUse(w) ==
    /\ StAt(w, "use")
    /\ stRows' = [stRows EXCEPT !.used = @ \cup {stWorker[w].id}]
    /\ StGo(w, StIdle)
    /\ UNCHANGED <<stRoot, stAside, stPoint, stLock, stDone>>

-------------------------------------------------------------------------------
\* archiveNamespace: every file of the directory is listed, temporary ones among them ...
StList(w) ==
    /\ StAt(w, "idle") /\ stRoot.there /\ stDone.archives < StMaxArchives
    /\ stDone' = [stDone EXCEPT !.archives = @ + 1]
    /\ StGo(w, [at |-> "read", listed |-> stRoot.objects, left |-> stRoot.objects, has |-> {},
                temps |-> stRoot.temps, copied |-> {}, quiet |-> stRoot.temps = {}])
    /\ UNCHANGED <<stRoot, stAside, stRows, stPoint, stLock>>
StArchived(w, state) ==
    /\ stPoint' = [taken |-> TRUE, has |-> state.has, temps |-> state.copied,
                    listed |-> state.listed, quiet |-> state.quiet]
    /\ StGo(w, StIdle)
\* ... and read in the order of the names, temporary files first.  One that is gone ends the
\* archive, which is then as well formed as a whole one.
StReadTemp(w) ==
    /\ StAt(w, "read") /\ stWorker[w].temps # {}
    /\ \E t \in stWorker[w].temps :
          IF t \in stRoot.temps
          THEN /\ StGo(w, [stWorker[w] EXCEPT !.temps = @ \ {t}, !.copied = @ \cup {t}])
               /\ stPoint' = stPoint
          ELSE StArchived(w, stWorker[w])
    /\ UNCHANGED <<stRoot, stAside, stRows, stLock, stDone>>
StReadObject(w) ==
    /\ StAt(w, "read") /\ stWorker[w].temps = {}
    /\ \E o \in stWorker[w].left :
          IF o \in stRoot.objects
          THEN /\ StGo(w, [stWorker[w] EXCEPT !.left = @ \ {o}, !.has = @ \cup {o}])
               /\ stPoint' = stPoint
          ELSE StArchived(w, stWorker[w])
    /\ UNCHANGED <<stRoot, stAside, stRows, stLock, stDone>>
StReadAll(w) ==
    /\ StAt(w, "read") /\ stWorker[w].temps = {} /\ stWorker[w].left = {}
    /\ StArchived(w, stWorker[w])
    /\ UNCHANGED <<stRoot, stAside, stRows, stLock, stDone>>

-------------------------------------------------------------------------------
\* restoreNamespace: the archive is unpacked beside the directory, nobody asks for the lock ...
StRestore(w) ==
    /\ StAt(w, "idle") /\ stPoint.taken /\ stDone.restores < StMaxRestores
    /\ stDone' = [stDone EXCEPT !.restores = @ + 1]
    /\ StGo(w, [at |-> "away", new |-> stPoint.has, temps |-> stPoint.temps, n |-> stDone.restores])
    /\ UNCHANGED <<stRoot, stAside, stRows, stPoint, stLock>>
\* Mutation of StAway: the directory is removed to make room for the other.
StAwayRemoved(w) ==
    /\ StAt(w, "away")
    /\ stRoot' = StGone
    /\ stWorker' = StDisturbed([stWorker EXCEPT ![w].at = "in"])
    /\ UNCHANGED <<stAside, stRows, stPoint, stLock, stDone>>
\* ... the directory is renamed away, if there is one ...
StAway(w) ==
    /\ StAt(w, "away")
    /\ stAside' = stAside \cup (IF stRoot.there
                                THEN {[by |-> stWorker[w].n, objects |-> stRoot.objects, temps |-> stRoot.temps]}
                                ELSE {})
    /\ stRoot' = StGone
    /\ stWorker' = StDisturbed([stWorker EXCEPT ![w].at = "in"])
    /\ UNCHANGED <<stRows, stPoint, stLock, stDone>>
\* ... which ends the restore, if another one has moved it since it looked ...
StAwayFails(w) ==
    /\ StAt(w, "away") /\ StGo(w, StIdle)
    /\ UNCHANGED <<stRoot, stAside, stRows, stPoint, stLock, stDone>>
\* ... the new one into its place, unless an upload has made one there meanwhile: then neither
\* it nor the former one can be put there ...
StMine(w) == {d \in stAside : d.by = stWorker[w].n}
StIn(w) ==
    /\ StAt(w, "in") /\ ~stRoot.there
    /\ stRoot' = [there |-> TRUE, objects |-> stWorker[w].new, temps |-> stWorker[w].temps]
    /\ stWorker' = StDisturbed([stWorker EXCEPT ![w].at = "drop"])
    /\ UNCHANGED <<stAside, stRows, stPoint, stLock, stDone>>
StInFails(w) ==
    /\ StAt(w, "in")
    /\ IF stRoot.there \/ StMine(w) = {} THEN UNCHANGED <<stRoot, stAside>>
       ELSE \E d \in StMine(w) :
              /\ stRoot' = [there |-> TRUE, objects |-> d.objects, temps |-> d.temps]
              /\ stAside' = stAside \ {d}
    /\ stWorker' = StDisturbed([stWorker EXCEPT ![w] = StIdle])
    /\ UNCHANGED <<stRows, stPoint, stLock, stDone>>
\* ... and only then the former one is removed.
StDrop(w) ==
    /\ StAt(w, "drop")
    /\ stDone' = [stDone EXCEPT !.replaced = @ \cup UNION {d.objects : d \in StMine(w)}]
    /\ stAside' = stAside \ StMine(w)
    /\ StGo(w, StIdle)
    /\ UNCHANGED <<stRoot, stRows, stPoint, stLock>>

-------------------------------------------------------------------------------
\* The partner is archived: compliance_archive.go, once for seven years.
StPast(w) == stWorker[w].at \in {"open", "rename"}
StArchivePartner ==
    /\ ~stLock.on
    /\ stLock' = [on |-> TRUE, objects |-> stRoot.objects,
                  late |-> {stWorker[w].id : w \in {v \in StWorkers : StPast(v)}}]
    /\ UNCHANGED <<stRoot, stAside, stRows, stPoint, stWorker, stDone>>

\* The storage process dies, wherever its requests are; what is on its disk stays.
StBusy(w) == stWorker[w].at \in {"open", "rename", "read", "away", "in", "drop"}
StStop ==
    /\ stDone.stops < StMaxStops /\ \E w \in StWorkers : StBusy(w)
    /\ stDone' = [stDone EXCEPT !.stops = @ + 1]
    /\ stWorker' = [w \in StWorkers |-> IF StBusy(w) THEN StIdle ELSE stWorker[w]]
    /\ UNCHANGED <<stRoot, stAside, stRows, stPoint, stLock>>

StNext ==
    \/ StArchivePartner \/ StStop
    \/ \E w \in StWorkers :
          \/ StUpload(w) \/ StOpen(w) \/ StRename(w) \/ StUploadFails(w) \/ StRow(w)
          \/ \E id \in stRows.all : StAsk(w, id)
          \/ StUse(w) \/ StList(w) \/ StReadTemp(w) \/ StReadObject(w) \/ StReadAll(w)
          \/ StRestore(w) \/ StAway(w) \/ StAwayFails(w) \/ StIn(w) \/ StInFails(w) \/ StDrop(w)

StSpec == StInit /\ [][StNext]_stVars

-------------------------------------------------------------------------------
StHeld == stRoot.objects \cup UNION {d.objects : d \in stAside}

(* Media is never lost by a restore that fails: whatever uploads run into   *)
(* it and wherever the process dies, every object stored is in the          *)
(* directory or in one renamed away, until a restore that is in place       *)
(* removes it; and while it does, what it restored is there.                *)
StNothingIsLost ==
    /\ stDone.stored \subseteq StHeld \cup stDone.replaced
    /\ \A w \in StWorkers : StAt(w, "drop") => stWorker[w].new \subseteq StHeld \cup stDone.replaced

(* As long as the storage process does not die in a restore, a partner has  *)
(* a directory whenever nothing is in progress.                             *)
StDirectoryIsThere ==
    stDone.stops = 0 /\ (\A w \in StWorkers : StAt(w, "idle")) => stRoot.there

(* An archive that began while no upload was open and met no restore has    *)
(* every object that was there when it began, whatever was uploaded since   *)
(* (docs/START-21_ACCEPTANCE.md:6).                                         *)
StQuietArchiveIsWhole ==
    stPoint.taken /\ stPoint.quiet => stPoint.has = stPoint.listed

(* Evidence has its file, and so has what is registered with it, as long as *)
(* nothing is restored.                                                     *)
StEvidenceIsStored ==
    stDone.restores = 0 => stRows.used \subseteq stRows.all /\ stRows.all \subseteq stRoot.objects

(* An archived partner's media stays what it was when it was archived, but  *)
(* for the uploads that had passed the check, as long as nothing is         *)
(* restored (docs/START-23.12_PHASE5_ACCEPTANCE.md:25).                     *)
StArchivedIsKept ==
    stLock.on /\ stDone.restores = 0 =>
        /\ stLock.objects \subseteq stRoot.objects
        /\ stRoot.objects \subseteq stLock.objects \cup stLock.late

\* A partner's files survive restores, reach the archives, back the evidence and stay when
\* the partner is archived, to the extent that overlapping requests leave them.
MediaSafe ==
    /\ StNothingIsLost
    /\ StDirectoryIsThere
    /\ StQuietArchiveIsWhole
    /\ StEvidenceIsStored
    /\ StArchivedIsKept

(* Not guaranteed by the code (main.go:191): an archive has every object    *)
(* that was there when it began.  A temporary file that has got its name    *)
(* since ends it, before every object; backups does not look at the count   *)
(* the answer announces, so that a restore point is READY and passes its    *)
(* test.                                                                    *)
StArchiveIsWhole == stPoint.taken => stPoint.listed \subseteq stPoint.has

(* Not guaranteed by the code (main.go:377): a restore leaves nothing       *)
(* behind.  An upload between the two renames keeps the new directory, so   *)
(* that neither rename works and the partner's media stays aside.           *)
StNothingIsAside ==
    stDone.stops = 0 /\ (\A w \in StWorkers : StAt(w, "idle")) => stAside = {}

(* Not guaranteed by the code (main.go:283): an archived partner's media    *)
(* does not change.  An upload that has passed the check goes on, and a     *)
(* restore does not ask.                                                    *)
StArchivedIsFinal == stLock.on => stRoot.objects = stLock.objects

(* Not guaranteed by the code (evidence/main.go:314): evidence has its      *)
(* file.  Its rows are not part of a restore point.                         *)
StEvidenceHasFile ==
    stDone.stops = 0 /\ (\A w \in StWorkers : StAt(w, "idle")) => stRows.all \subseteq stRoot.objects
===============================================================================
