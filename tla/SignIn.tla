-------------------------------- MODULE SignIn --------------------------------
(***************************************************************************)
(* services/cmd/gateway: the throttle of sign-in attempts (main.go) and    *)
(* the second factor (security_phase4.go) of one account.                  *)
(*                                                                         *)
(* The throttle is a map in memory under one mutex; an attempt takes the   *)
(* time when it starts and uses it again when its failure is recorded.     *)
(* A sign-in with the right password opens a challenge in three separate   *)
(* statements; a code is checked under the lock of the challenge's row.    *)
(***************************************************************************)
EXTENDS Naturals, FiniteSets

CONSTANTS
    SiKeys,        \* client keys
    SiLimit,       \* failures of a window that block the key
    SiWindow,      \* 10 minutes
    SiBlock,       \* 15 minutes
    SiMaxEntries,  \* entries of the map
    SiWorkers,     \* attempts in progress at once
    SiMaxCodes,    \* wrong codes a challenge bears
    SiMaxClock,    \* bound: time
    SiMaxTries,    \* bound: attempts ever begun
    SiMaxChallenges \* bound: challenges ever opened

ASSUME SiAssumption ==
    /\ {SiLimit, SiMaxEntries, SiMaxCodes} \subseteq Nat \ {0}
    /\ {SiWindow, SiBlock, SiMaxClock, SiMaxTries, SiMaxChallenges} \subseteq Nat

VARIABLES
    siClock,
    siAttempts,   \* loginAttempts: the entry of each key that has one
    siSecret,     \* the enrolled secret: the challenge that set it up, or 0
    siChallenges, \* identity.mfa_challenges, in the order of their rows
    siWork,       \* what each attempt does
    siTries,      \* bound used up
    siOverlapped  \* two sign-ins with the right password overlapped, or one used up no challenge

siVars == <<siClock, siAttempts, siSecret, siChallenges, siWork, siTries, siOverlapped>>

SiIdle == [at |-> "idle"]
SiEntries == DOMAIN siAttempts
SiIds == DOMAIN siChallenges

SiInit ==
    /\ siClock = 0 /\ siAttempts = <<>>
    /\ siSecret = 0 /\ siChallenges = <<>>
    /\ siWork = [w \in SiWorkers |-> SiIdle] /\ siTries = 0 /\ siOverlapped = FALSE

SiAt(w, at) == siWork[w].at = at
SiGo(w, state) == siWork' = [siWork EXCEPT ![w] = state]
SiWithout(map, keys) == [k \in DOMAIN map \ keys |-> map[k]]
SiWith(map, key, entry) == [k \in DOMAIN map \cup {key} |-> IF k = key THEN entry ELSE map[k]]

-------------------------------------------------------------------------------
SiFreshEntry(now) == [fails |-> 0, start |-> now, until |-> 0]
SiStale(e, now) == now > e.start + SiWindow
SiBlocked(e, now) == now < e.until

\* loginAllowed, at the start of a request.
SiTry(w, k) ==
    /\ SiAt(w, "idle") /\ siTries < SiMaxTries /\ siTries' = siTries + 1
    /\ IF k \in SiEntries /\ SiBlocked(siAttempts[k], siClock)
       THEN UNCHANGED <<siAttempts, siWork>>
       ELSE /\ siAttempts' = IF k \in SiEntries /\ SiStale(siAttempts[k], siClock)
                             THEN SiWithout(siAttempts, {k}) ELSE siAttempts
            /\ SiGo(w, [at |-> "tried", key |-> k, now |-> siClock])
    /\ UNCHANGED <<siClock, siSecret, siChallenges, siOverlapped>>

\* pruneLoginAttemptsLocked: what has ended goes; then the oldest, until there is room.
SiLastRelevantStart(e) == e.start   \* mutation of SiLastRelevant: the block is not looked at
SiLastRelevant(e) == IF e.until > e.start THEN e.until ELSE e.start
SiEnded(now) == {k \in SiEntries : SiStale(siAttempts[k], now) /\ ~SiBlocked(siAttempts[k], now)}
SiRoom(kept) == Cardinality(kept) < SiMaxEntries
SiPrunes(now, out) ==
    LET left == SiEntries \ SiEnded(now)
        kept == left \ out
    IN  /\ out \subseteq left /\ SiRoom(kept)
        /\ \A k \in out, j \in kept : SiLastRelevant(siAttempts[k]) <= SiLastRelevant(siAttempts[j])
        /\ \A k \in out : ~SiRoom(kept \cup {k})

\* recordLoginFailure, with the time the request took at its start.
SiCounted(e, now) ==
    LET f == (IF SiStale(e, now) THEN SiFreshEntry(now) ELSE e)
    IN  IF f.fails + 1 < SiLimit THEN [f EXCEPT !.fails = @ + 1]
        ELSE [fails |-> 0, start |-> now, until |-> now + SiBlock]
SiFail(w) ==
    /\ siWork[w].at \in {"tried", "verify"}
    /\ LET k == siWork[w].key
           now == siWork[w].now
       IN  \E out \in SUBSET SiEntries :
              /\ SiPrunes(now, out)
              /\ LET kept == SiWithout(siAttempts, SiEnded(now) \cup out)
                 IN  siAttempts' = SiWith(kept, k, SiCounted(IF k \in DOMAIN kept THEN kept[k] ELSE SiFreshEntry(now), now))
    /\ SiGo(w, SiIdle)
    /\ UNCHANGED <<siClock, siSecret, siChallenges, siTries, siOverlapped>>

SiTick == siClock < SiMaxClock /\ siClock' = siClock + 1
          /\ UNCHANGED <<siAttempts, siSecret, siChallenges, siWork, siTries, siOverlapped>>

-------------------------------------------------------------------------------
\* beginMFAFlow: mfaState, the open challenges are used up, a new one is inserted.
SiSigning == {w \in SiWorkers : siWork[w].at \in {"spend", "open"}}
SiPassword(w) ==
    /\ SiAt(w, "tried")
    /\ SiGo(w, [at |-> "spend", setup |-> siSecret = 0])
    /\ siOverlapped' = (siOverlapped \/ SiSigning # {})
    /\ UNCHANGED <<siClock, siAttempts, siSecret, siChallenges, siTries>>
SiSpend(w) ==
    /\ SiAt(w, "spend")
    /\ siChallenges' = [c \in SiIds |-> [siChallenges[c] EXCEPT !.used = TRUE]]
    /\ SiGo(w, [siWork[w] EXCEPT !.at = "open"])
    /\ UNCHANGED <<siClock, siAttempts, siSecret, siTries, siOverlapped>>
\* That update's error is dropped, and the new challenge is opened beside the old ones.
SiSpendLost(w) ==
    /\ SiAt(w, "spend") /\ siOverlapped' = TRUE
    /\ SiGo(w, [siWork[w] EXCEPT !.at = "open"])
    /\ UNCHANGED <<siClock, siAttempts, siSecret, siChallenges, siTries>>
SiOpen(w) ==
    /\ SiAt(w, "open") /\ Cardinality(SiIds) < SiMaxChallenges
    /\ siChallenges' = [c \in 1..(Cardinality(SiIds) + 1) |->
          IF c \in SiIds THEN siChallenges[c]
          ELSE [setup |-> siWork[w].setup, used |-> FALSE, wrong |-> 0, sessions |-> 0]]
    /\ SiGo(w, SiIdle)
    /\ UNCHANGED <<siClock, siAttempts, siSecret, siTries, siOverlapped>>

\* completeMFAFlow under FOR UPDATE, after loginAllowed.  A challenge that ran out is one nobody answers.
SiUsable(c) == ~siChallenges[c].used /\ siChallenges[c].wrong < SiMaxCodes
SiRightCode(w, c) ==
    /\ SiAt(w, "tried") /\ SiUsable(c)
    /\ siChallenges[c].setup \/ siSecret # 0
    /\ siSecret' = IF siChallenges[c].setup THEN c ELSE siSecret
    /\ siChallenges' = [siChallenges EXCEPT ![c] = [siChallenges[c] EXCEPT !.used = TRUE, !.sessions = @ + 1]]
    /\ siOverlapped' = (siOverlapped \/ SiSigning # {})
    /\ siAttempts' = SiWithout(siAttempts, {siWork[w].key})   \* clearLoginFailures
    /\ SiGo(w, SiIdle)
    /\ UNCHANGED <<siClock, siTries>>
\* The fifth wrong code uses the challenge up; the failure is recorded next.
SiWrongCode(w, c) ==
    /\ SiAt(w, "tried") /\ SiUsable(c)
    /\ siChallenges' = [siChallenges EXCEPT ![c] =
          [siChallenges[c] EXCEPT !.wrong = @ + 1, !.used = @ \/ siChallenges[c].wrong + 1 >= SiMaxCodes]]
    /\ SiGo(w, [siWork[w] EXCEPT !.at = "verify"])
    /\ UNCHANGED <<siClock, siAttempts, siSecret, siTries, siOverlapped>>

SiNext ==
    \/ SiTick
    \/ \E w \in SiWorkers :
          \/ \E k \in SiKeys : SiTry(w, k)
          \/ SiFail(w) \/ SiPassword(w) \/ SiSpend(w) \/ SiSpendLost(w) \/ SiOpen(w)
          \/ \E c \in SiIds : SiRightCode(w, c) \/ SiWrongCode(w, c)

SiSpec == SiInit /\ [][SiNext]_siVars

-------------------------------------------------------------------------------
(* The map never holds more than its limit, whatever fails at once.         *)
SiBounded == Cardinality(SiEntries) <= SiMaxEntries

(* A full map gives a block in force up only when nothing but blocks is     *)
(* left in it: what a key without a block did never frees a blocked one.    *)
SiBlocksLast ==
    [][\A k \in SiEntries : SiBlocked(siAttempts[k], siClock) /\ k \notin SiEntries' =>
          \/ \E w \in SiWorkers, c \in SiIds : SiAt(w, "tried") /\ siWork[w].key = k /\ siChallenges'[c].sessions > siChallenges[c].sessions
          \/ \A j \in SiEntries : siAttempts[j].until > 0]_siVars

(* A challenge gives one session at most, and none once its wrong codes are *)
(* used up.                                                                 *)
SiOneSession ==
    \A c \in SiIds : siChallenges[c].sessions <= 1 /\ (siChallenges[c].wrong >= SiMaxCodes => siChallenges[c].sessions = 0)

(* An enrolled secret is never replaced, unless two sign-ins overlapped or  *)
(* one left the earlier challenges open.                                    *)
SiSecretStays ==
    [][siSecret # 0 /\ ~siOverlapped' => siSecret' = siSecret]_siVars

(* Not guaranteed by the code (security_phase4.go:185): of two sign-ins at  *)
(* once both open a set-up, and the second answer replaces the secret.      *)
SiSecretNeverReplaced == [][siSecret # 0 => siSecret' = siSecret]_siVars

(* Not guaranteed by the code (main.go:87): a failure adds to the failures  *)
(* of its key's window.  In a full map it may evict its own entry first.    *)
SiFailuresAdd ==
    [][\A k \in SiEntries : (\E w \in SiWorkers : siWork[w].at \in {"tried", "verify"} /\ siWork[w].key = k
                                /\ siWork'[w] = SiIdle /\ siAttempts' # siAttempts /\ siChallenges' = siChallenges
                                /\ ~SiStale(siAttempts[k], siWork[w].now))
          => siAttempts'[k].fails # 1 \/ siAttempts[k].fails = 0]_siVars

\* The table of failed attempts stays bounded and forgets no block while a lesser
\* entry is there; a challenge makes one session and the secret stays.
SignInSafe ==
    /\ []SiBounded
    /\ []SiOneSession
    /\ SiBlocksLast
    /\ SiSecretStays
===============================================================================
