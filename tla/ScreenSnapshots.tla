---------------------------- MODULE ScreenSnapshots ----------------------------
(***************************************************************************)
(* services/cmd/gateway: one screen of the console, whose data come from   *)
(* other services, as the gateway keeps it in memory and, but for the      *)
(* partner workspace, in identity's tables.                                *)
(*                                                                         *)
(* A refresh reads the services, each of which may fail, and puts the      *)
(* screen together; a change of partners, modules, billing or evidence     *)
(* made through the gateway asks for a refresh, and one of a module is     *)
(* also written into the registry's screen.  Other changes ask for none:   *)
(* those of environments, connectors or the site, those of the partner     *)
(* portal, what services do by themselves, and an activity's record.  The  *)
(* workspace is read on request and kept for a while instead.              *)
(*                                                                         *)
(* A part of a screen is the version of the data it shows; 0 is no data.   *)
(* p stands for the part a screen cannot do without where it has one.  Of  *)
(* the dashboard, in one year, three pairs of blocks are told apart: two   *)
(* that keep their data, one of those with the activity block ("activity"),*)
(* and the partner block with the trend within it ("trend").               *)
(***************************************************************************)
EXTENDS Integers

CONSTANTS
    SsWorkers,    \* refreshes, mutations and requests in progress at once
    SsMaxVersion, \* bound: changes of each part
    SsMaxRuns     \* bound: refreshes, requests and restarts

ASSUME SsAssumption == {SsMaxVersion, SsMaxRuns} \subseteq Nat

VARIABLES
    ssKind,    \* which screen
    ssSource,  \* what the services hold
    ssScreen,  \* the snapshot in memory, or the cached answer
    ssStored,  \* identity.central_screen_snapshots, identity.dashboard_snapshots
    ssSignal,  \* the channel of capacity one
    ssWork,    \* what each worker does
    ssExcuse,  \* a refresh was skipped, failed to read, or was overtaken, or a change asked for none,
               \* and none began since
    ssRuns     \* bound used up

ssVars == <<ssKind, ssSource, ssScreen, ssStored, ssSignal, ssWork, ssExcuse, ssRuns>>

SsParts == {"p", "q"}
SsDashboards == {"dashboard", "activity", "trend"}
SsKinds == {"registry", "plans", "commercial", "partners", "finance", "impact", "workspace"} \cup SsDashboards
SsFailed == -1
SsNone == [p |-> 0, q |-> 0, status |-> "none"]
SsIdle == [at |-> "idle"]
SsVersions == 1..(1 + SsMaxVersion)

SsInit ==
    /\ ssKind \in SsKinds /\ ssSource = [i \in SsParts |-> 1]
    /\ ssScreen = SsNone /\ ssStored = SsNone /\ ssSignal = (ssKind # "workspace")
    /\ ssWork = [w \in SsWorkers |-> SsIdle] /\ ssExcuse = FALSE /\ ssRuns = 0

SsAt(w, at) == ssWork[w].at = at
SsGo(w, state) == ssWork' = [ssWork EXCEPT ![w] = state]
SsRun == ssRuns < SsMaxRuns /\ ssRuns' = ssRuns + 1
SsRefreshing == \E w \in SsWorkers : ssWork[w].at \in {"read", "save", "persist"}

-------------------------------------------------------------------------------
\* What a refresh makes of what it read and of the snapshot it finds.
SsGot(v) == v # SsFailed
SsOr(v, old) == IF SsGot(v) THEN v ELSE old
SsEmpty(p, q) == [p |-> p, q |-> q, status |-> "unavailable"]
SsStatus(p, q) == IF SsGot(p) /\ SsGot(q) THEN "healthy" ELSE "partial"
SsKeep(old) == IF old = SsNone THEN SsEmpty(0, 0) ELSE old

SsRegistry(old, p, q) ==
    IF SsGot(p) /\ SsGot(q) THEN [p |-> p, q |-> q, status |-> "healthy"] ELSE SsKeep(old)
SsPlans(old, p) == IF SsGot(p) THEN [p |-> p, q |-> 0, status |-> "healthy"] ELSE SsKeep(old)
SsCommercial(old, p, q) ==
    IF SsGot(p) THEN [p |-> p, q |-> SsOr(q, old.q), status |-> SsStatus(p, q)] ELSE SsKeep(old)
\* The enrichment of the partners is not kept when its service fails.
SsPartners(old, p, q) ==
    IF SsGot(p) THEN [p |-> p, q |-> SsOr(q, 0), status |-> SsStatus(p, q)] ELSE SsKeep(old)
SsEach(old, p, q) == [p |-> SsOr(p, old.p), q |-> SsOr(q, old.q), status |-> SsStatus(p, q)]
SsFinance(old, p, q) ==
    IF ~SsGot(p) /\ ~SsGot(q) /\ old = SsNone THEN SsEmpty(0, 0) ELSE SsEach(old, p, q)
SsImpact(old, p, q) ==
    IF ~SsGot(p) /\ ~SsGot(q) THEN SsEmpty(old.p, old.q) ELSE SsEach(old, p, q)
\* The dashboard falls back to the stored one when memory is empty.  A block keeps its data
\* when its read fails, but the activity block is emptied, and a fresh partner block has a
\* trend only if the partners' places were read as well.
SsPrevious(old) == IF old = SsNone THEN ssStored ELSE old
SsDashboard(old, p, q) == SsEach(SsPrevious(old), p, q)
SsActivity(old, p, q) == [SsEach(SsPrevious(old), p, q) EXCEPT !.q = SsOr(q, 0)]
SsTrend(old, p, q) ==
    [SsEach(SsPrevious(old), p, q) EXCEPT !.q = IF SsGot(p) THEN SsOr(q, 0) ELSE SsPrevious(old).q]
\* A request answers with the old entry when the partner cannot be read, and keeps only a whole answer.
SsWorkspace(old, p, q) == IF SsGot(p) /\ SsGot(q) THEN [p |-> p, q |-> q, status |-> "healthy"] ELSE old

SsMade(old, p, q) ==
    CASE ssKind = "registry" -> SsRegistry(old, p, q)
      [] ssKind = "plans" -> SsPlans(old, p)
      [] ssKind = "commercial" -> SsCommercial(old, p, q)
      [] ssKind = "partners" -> SsPartners(old, p, q)
      [] ssKind = "finance" -> SsFinance(old, p, q)
      [] ssKind = "impact" -> SsImpact(old, p, q)
      [] ssKind = "dashboard" -> SsDashboard(old, p, q)
      [] ssKind = "activity" -> SsActivity(old, p, q)
      [] ssKind = "trend" -> SsTrend(old, p, q)
      [] OTHER -> SsWorkspace(old, p, q)

-------------------------------------------------------------------------------
SsReading == [at |-> "read", p |-> 0, q |-> 0, dirty |-> FALSE]
SsMayBeginAlways == TRUE   \* mutation of SsMayBegin: a refresh begins while another of the screen runs
SsMayBegin == ~SsRefreshing
SsBegin(w) == SsAt(w, "idle") /\ SsRun /\ SsGo(w, SsReading) /\ ssExcuse' = FALSE

\* A ticker, or a request taken from the channel: skipped while a refresh runs, but for
\* the dashboard, whose one goroutine refreshes between two receptions.
SsTick(w) ==
    /\ ssKind # "workspace" /\ SsMayBegin /\ SsBegin(w)
    /\ UNCHANGED <<ssKind, ssSource, ssScreen, ssStored, ssSignal>>
SsTake(w) ==
    /\ ssSignal /\ ssSignal' = FALSE
    /\ UNCHANGED <<ssKind, ssSource, ssScreen, ssStored>>
    /\ IF SsMayBegin THEN SsBegin(w)
       ELSE ssKind \notin SsDashboards /\ ssExcuse' = TRUE /\ UNCHANGED <<ssWork, ssRuns>>
\* A request for the workspace that finds no entry, or one that is no longer fresh.
SsRequest(w) ==
    /\ ssKind = "workspace" /\ SsAt(w, "idle") /\ SsRun /\ SsGo(w, SsReading)
    /\ UNCHANGED <<ssKind, ssSource, ssScreen, ssStored, ssSignal, ssExcuse>>
\* Ten minutes on, the entry is not even served as a stale one.
SsExpire ==
    /\ ssKind = "workspace" /\ ssScreen' = SsNone
    /\ UNCHANGED <<ssKind, ssSource, ssStored, ssSignal, ssWork, ssExcuse, ssRuns>>

\* The reads are made side by side, except that commercial and partners read the
\* second part of the partners the first one named.  A read fails or times out.
SsAnswer(part, v) == v \in {ssSource[part], SsFailed}
SsInTurn == ssKind \in {"commercial", "partners"}
SsWanted(r) ==
    IF ssKind = "plans" THEN {"p"} \ {part \in SsParts : r[part] # 0}
    ELSE IF SsInTurn /\ r.p = SsFailed THEN {}
    ELSE IF SsInTurn /\ r.p = 0 THEN {"p"}
    ELSE {part \in SsParts : r[part] = 0}
SsRead(w) ==
    /\ SsAt(w, "read")
    /\ \E part \in SsWanted(ssWork[w]), v \in {SsFailed} \cup SsVersions :
          /\ SsAnswer(part, v)
          /\ LET r == [ssWork[w] EXCEPT ![part] = v]
             IN  SsGo(w, IF SsWanted(r) = {} THEN [r EXCEPT !.at = "save"] ELSE r)
          /\ ssExcuse' = (ssExcuse \/ (v = SsFailed /\ ssKind # "workspace"))
    /\ UNCHANGED <<ssKind, ssSource, ssScreen, ssStored, ssSignal, ssRuns>>

\* A writer of the screen marks the others that are at work on it.
SsMark(r) == IF "dirty" \in DOMAIN r THEN [r EXCEPT !.dirty = TRUE] ELSE r
SsMarked(w, state) == [u \in SsWorkers |-> IF u = w THEN state ELSE SsMark(ssWork[u])]

\* The new snapshot replaces the one in memory, and then the stored one.  A snapshot kept
\* for a failed read is not written again.  The dashboard is stored if a service answered,
\* which may be one of those whose block is not told apart here.
SsKept(r) ==
    /\ ssScreen # SsNone
    /\ \/ ssKind \in {"plans", "commercial", "partners"} /\ ~SsGot(r.p)
       \/ ssKind = "registry" /\ ~(SsGot(r.p) /\ SsGot(r.q))
SsStores(r) ==
    CASE ssKind = "workspace" -> FALSE
      [] ssKind \in SsDashboards -> TRUE
      [] OTHER -> ~SsKept(r)
SsSave(w) ==
    /\ SsAt(w, "save")
    /\ LET r == ssWork[w]
           made == SsMade(ssScreen, r.p, r.q)
       IN  /\ ssScreen' = made
           /\ ssWork' = SsMarked(w, IF SsStores(r) THEN [at |-> "persist", made |-> made] ELSE SsIdle)
           /\ ssExcuse' = IF ssKind # "workspace" THEN ssExcuse \/ r.dirty
                          ELSE IF SsGot(r.p) /\ SsGot(r.q) THEN r.dirty ELSE ssExcuse
    /\ UNCHANGED <<ssKind, ssSource, ssStored, ssSignal, ssRuns>>
\* The write may fail, its error dropped, or not be made: a dashboard for which nothing was read.
SsPersist(w) ==
    /\ ssWork[w].at \in {"persist", "write"} /\ SsGo(w, SsIdle)
    /\ \E written \in BOOLEAN : ssStored' = IF written THEN ssWork[w].made ELSE ssStored
    /\ UNCHANGED <<ssKind, ssSource, ssScreen, ssSignal, ssExcuse, ssRuns>>

-------------------------------------------------------------------------------
\* A change of a part through a path of the gateway that names it.  Once it is answered, the
\* caches it concerns are dropped and a refresh is asked for; the new state of a module is
\* merged into the registry.  No path names the activity, recorded after the answer.
SsNewer(part) ==
    /\ ssSource[part] \in SsVersions \ {1 + SsMaxVersion}
    /\ ssSource' = [ssSource EXCEPT ![part] = @ + 1]
SsNamed(part) == ssKind = "activity" => part = "p"
SsChange(w, part) ==
    /\ SsAt(w, "idle") /\ SsNamed(part) /\ SsNewer(part)
    /\ SsGo(w, [at |-> "signal", part |-> part, v |-> ssSource[part] + 1, dirty |-> FALSE])
    /\ UNCHANGED <<ssKind, ssScreen, ssStored, ssSignal, ssExcuse, ssRuns>>
\* A change for which no refresh is asked: a path without a case, the partner portal, a
\* service's own work, the activity.  A request that reads meanwhile is overtaken by it.
SsQuiet(part) ==
    /\ SsNewer(part) /\ ssExcuse' = TRUE
    /\ ssWork' = IF ssKind = "workspace" THEN [u \in SsWorkers |-> SsMark(ssWork[u])] ELSE ssWork
    /\ UNCHANGED <<ssKind, ssScreen, ssStored, ssSignal, ssRuns>>
\* The workspace's entries go with a change of partners, modules or billing, which p stands
\* for, but not with one of environments, evidence, impact or the site: q.
SsDrops(part) == ssKind = "workspace" /\ part = "p"
SsSignal(w) ==
    /\ SsAt(w, "signal")
    /\ LET r == ssWork[w]
           next == IF ssKind = "registry" /\ r.part = "p" THEN [r EXCEPT !.at = "get"] ELSE SsIdle
       IN  /\ ssScreen' = IF SsDrops(r.part) THEN SsNone ELSE ssScreen
           /\ ssWork' = IF SsDrops(r.part) THEN SsMarked(w, next) ELSE [ssWork EXCEPT ![w] = next]
           /\ ssSignal' = (ssSignal \/ ssKind # "workspace")
    /\ UNCHANGED <<ssKind, ssSource, ssStored, ssExcuse, ssRuns>>
SsGet(w) ==
    /\ SsAt(w, "get")
    /\ SsGo(w, IF ssScreen.p = 0 THEN SsIdle
               ELSE [at |-> "merge", base |-> ssScreen, v |-> ssWork[w].v, dirty |-> ssWork[w].dirty])
    /\ UNCHANGED <<ssKind, ssSource, ssScreen, ssStored, ssSignal, ssExcuse, ssRuns>>
SsMerge(w) ==
    /\ SsAt(w, "merge")
    /\ LET made == [ssWork[w].base EXCEPT !.p = ssWork[w].v] IN
       ssScreen' = made /\ ssWork' = SsMarked(w, [at |-> "write", made |-> made])
    /\ ssExcuse' = (ssExcuse \/ ssWork[w].dirty)
    /\ UNCHANGED <<ssKind, ssSource, ssStored, ssSignal, ssRuns>>

\* The gateway starts again with what was stored, if it can read it, and refreshes at once.
SsRestart ==
    /\ SsRun /\ ssWork' = [w \in SsWorkers |-> SsIdle]
    /\ ssScreen' \in {ssStored, SsNone} /\ ssSignal' = (ssKind # "workspace") /\ ssExcuse' = FALSE
    /\ UNCHANGED <<ssKind, ssSource, ssStored>>

SsNext ==
    \/ SsExpire \/ SsRestart \/ \E part \in SsParts : SsQuiet(part)
    \/ \E w \in SsWorkers :
          \/ SsTick(w) \/ SsTake(w) \/ SsRequest(w) \/ SsRead(w) \/ SsSave(w) \/ SsPersist(w)
          \/ \E part \in SsParts : SsChange(w, part)
          \/ SsSignal(w) \/ SsGet(w) \/ SsMerge(w)

SsSpec == SsInit /\ [][SsNext]_ssVars

-------------------------------------------------------------------------------
\* Last-known-good: an outage empties no screen that had data, with the exceptions the code
\* makes: the enrichment of the partners (Step4Partners keeps no portfolio of the snapshot
\* before), the dashboard's activity, and the trend of a partner block read without places.
SsKeepsData ==
    \A part \in SsParts :
        ssScreen[part] # 0 /\ ssScreen'[part] = 0 =>
            \/ SsRestart \/ ssKind = "workspace"
            \/ ssKind \in {"partners", "activity", "trend"} /\ part = "q"

\* Time does not run backwards on a screen: older data replace newer ones only when the
\* module merge, or a request whose entry was dropped or whose data changed meanwhile,
\* overlaps another writer, or the gateway restarts from a stored snapshot.
SsForward ==
    \A part \in SsParts :
        ssScreen'[part] < ssScreen[part] =>
            \/ ssScreen'[part] = 0 \/ SsRestart
            \/ /\ ssKind \in {"registry", "workspace"}
               /\ \E w \in SsWorkers : "dirty" \in DOMAIN ssWork[w] /\ ssWork[w].dirty /\ ssWork'[w] # ssWork[w]

\* A change that asks for a refresh is on the screen once nothing is under way, unless the
\* refresh was skipped because one was running, could not read, or was overtaken; and so is
\* one that asks for none as soon as a refresh has begun after it and those excuses fail.
SsRest == ~ssSignal /\ \A w \in SsWorkers : SsAt(w, "idle")
SsShows(part) == ssScreen[part] = ssSource[part]
SsShownUnlessExcused ==
    SsRest /\ ~ssExcuse =>
        IF ssKind = "workspace" THEN ssScreen.p # 0 => SsShows("p")
        ELSE SsShows("p") /\ (ssKind # "plans" => SsShows("q"))

\* What the console may rely on.
ScreensSafe == [](SsShownUnlessExcused) /\ [][SsKeepsData /\ SsForward]_ssVars

\* Not guaranteed, and violated: a change is shown as soon as the gateway is at rest (a
\* request that meets a running refresh is dropped, some changes ask for none, and the next
\* tick makes up for both).
SsShownAtRest == ssKind # "workspace" /\ SsRest => SsShows("p")
\* Not guaranteed: the workspace shows a change of a part its invalidation does not name.
SsWorkspaceShowsAll == ssKind = "workspace" /\ SsRest /\ ~ssExcuse /\ ssScreen # SsNone => SsShows("q")
\* Not guaranteed: what is stored is what was in memory (two writers, or a failed write).
SsStoredIsShown == SsRest => ssStored = ssScreen
===============================================================================
