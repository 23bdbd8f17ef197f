------------------------------ MODULE Identities ------------------------------
(***************************************************************************)
(* services/cmd/gateway (main.go, partner_portal.go): administrators and   *)
(* the Partner Portal users of one partner, their sessions, the password   *)
(* reset tokens, and one custom role.                                      *)
(*                                                                         *)
(* A change reads the row, checks it and writes the whole row back, with   *)
(* no transaction around the three, so two changes may overlap.  A session *)
(* is a signed cookie that carries the session_version its user had.       *)
(***************************************************************************)
EXTENDS Naturals, FiniteSets

CONSTANTS
    IdRoot,        \* the bootstrap administrator, owner of the system
    IdAdmins,      \* other administrator ids that may be created
    IdPortal,      \* Partner Portal user ids, the partner's first owner included
    IdFirst,       \* that first owner
    IdEmails, IdBootEmail, IdFirstEmail,
    IdWorkers,     \* requests in progress at once
    IdMaxRequests, \* bound: requests ever begun
    IdMaxSessions, \* bound: sessions ever issued
    IdMaxTokens    \* bound: reset tokens ever issued

ASSUME IdAssumption ==
    /\ IdFirst \in IdPortal /\ IdPortal \cap ({IdRoot} \cup IdAdmins) = {}
    /\ {IdBootEmail, IdFirstEmail} \subseteq IdEmails /\ IdBootEmail # IdFirstEmail
    /\ {IdMaxRequests, IdMaxSessions, IdMaxTokens} \subseteq Nat

VARIABLES
    idUsers,      \* identity.users and identity.partner_users
    idRoleActive, \* identity.custom_roles: the role "custom"
    idSessions,   \* cookies issued
    idTokens,     \* identity.password_reset_tokens, in the order of their rows
    idWork,       \* what each request does
    idBegun,      \* bound used up
    idOverlapped  \* a change was written over another one it had not seen

idVars == <<idUsers, idRoleActive, idSessions, idTokens, idWork, idBegun, idOverlapped>>

IdStaff == IdAdmins \cup {IdRoot}
IdAccounts == IdStaff \cup IdPortal
IdNobody == [exists |-> FALSE]
IdIdle == [at |-> "idle"]
IdRow(email, role) ==
    [exists |-> TRUE, email |-> email, role |-> role, active |-> TRUE, version |-> 0,
     era |-> 0,       \* changes of the password, the role or the state
     pw |-> 0]        \* the era in which the password was set
IdUserIds == {a \in IdAccounts : idUsers[a].exists}
IdRoles(a) == IF a \in IdStaff THEN {"ops", "custom"} ELSE {"owner", "viewer"}
IdTableOf(a) == IF a \in IdStaff THEN IdStaff ELSE IdPortal

IdInit ==
    /\ idUsers = [a \in IdAccounts |-> IF a = IdRoot THEN IdRow(IdBootEmail, "platform_admin")
                                      ELSE IF a = IdFirst THEN IdRow(IdFirstEmail, "owner") ELSE IdNobody]
    /\ idRoleActive = TRUE /\ idSessions = {} /\ idTokens = <<>>
    /\ idWork = [w \in IdWorkers |-> IdIdle] /\ idBegun = 0 /\ idOverlapped = FALSE

\* migrate: the bootstrap administrator is inserted unless its e-mail is there.
IdStarts ==
    /\ \A a \in IdUserIds \cap IdPortal : idUsers[a].email # IdBootEmail
    /\ \E a \in IdUserIds \cap IdStaff : idUsers[a].email = IdBootEmail

IdAt(w, at) == idWork[w].at = at
IdBegin(w, job) ==
    /\ IdAt(w, "idle") /\ idBegun < IdMaxRequests /\ idBegun' = idBegun + 1
    /\ idWork' = [idWork EXCEPT ![w] = job]
IdRefused(w) == idWork' = [idWork EXCEPT ![w] = IdIdle]
\* A committed change is one the other requests have not seen.
IdCommitted(w, next) ==
    idWork' = [v \in IdWorkers |-> IF v = w THEN next
                                   ELSE IF IdAt(v, "idle") THEN IdIdle ELSE [idWork[v] EXCEPT !.stale = TRUE]]
IdOverlaps(w) == idOverlapped' = (idOverlapped \/ idWork[w].stale)

-------------------------------------------------------------------------------
\* adminUsers, partnerUsers, validatePartnerUserEmail: the e-mail is free in both tables.
IdUsed(email, but) == \E a \in IdUserIds \ {but} : idUsers[a].email = email
IdUsedInTable(email, but) ==   \* mutation of IdUsed: only the own table is asked
    \E a \in IdUserIds \cap IdTableOf(but) : a # but /\ idUsers[a].email = email
IdTaken(email, but) == IdUsed(email, but)
\* The unique index of the table itself.
IdIndexed(email, but) == \E a \in IdUserIds \cap IdTableOf(but) : a # but /\ idUsers[a].email = email

IdRoleKnown(role) == role = "custom" => idRoleActive
IdCreate(w, a, email, role) ==
    /\ a \in IdAccounts \ IdUserIds /\ ~IdTaken(email, a)
    /\ role \in IdRoles(a) /\ IdRoleKnown(role)
    /\ \A v \in IdWorkers : IdAt(v, "create") => idWork[v].id # a
    /\ IdBegin(w, [at |-> "create", id |-> a, email |-> email, role |-> role, stale |-> FALSE])
    /\ UNCHANGED <<idUsers, idRoleActive, idSessions, idTokens, idOverlapped>>
IdInsert(w) ==
    /\ IdAt(w, "create")
    /\ LET r == idWork[w] IN
       IF IdIndexed(r.email, r.id)
       THEN IdRefused(w) /\ UNCHANGED <<idUsers, idOverlapped>>
       ELSE /\ idUsers' = [idUsers EXCEPT ![r.id] = IdRow(r.email, r.role)]
            /\ IdCommitted(w, IdIdle) /\ IdOverlaps(w)
    /\ UNCHANGED <<idRoleActive, idSessions, idTokens, idBegun>>

\* lastPartnerOwner: no other active owner.
IdLastOwner(a) ==
    \A b \in (IdUserIds \cap IdPortal) \ {a} : idUsers[b].role = "owner" => ~idUsers[b].active
IdOwns(row) == row.role = "owner" /\ row.active
\* adminUser, updatePartnerUserRecord: what is refused of the row they would write.
IdAllowed(a, base, next) ==
    /\ next.email # base.email => ~IdTaken(next.email, a)
    /\ next.role # base.role => IdRoleKnown(next.role)
    /\ a = IdRoot => next.active /\ next.role = "platform_admin"
    /\ a \in IdPortal /\ IdOwns(base) /\ ~IdOwns(next) => ~IdLastOwner(a)

\* The row as read, with one field changed; what proves identity ends the sessions.
IdSignsOut(a, field, base, set) == IF a \in IdStaff THEN field # "name" ELSE set # base
IdNext(a, field, value) ==
    LET base == idUsers[a]
        era == base.era + 1
        set == CASE field = "email" -> [base EXCEPT !.email = value]
                 [] field = "name" -> base
                 [] field = "password" -> [base EXCEPT !.pw = era, !.era = era]
                 [] field = "role" -> [base EXCEPT !.role = value, !.era = IF value = base.role THEN @ ELSE era]
                 [] field = "active" -> [base EXCEPT !.active = value, !.era = IF value = base.active THEN @ ELSE era]
    IN  [set EXCEPT !.version = IF IdSignsOut(a, field, base, set) THEN base.version + 1 ELSE @]
IdPatches(a) ==
    ({"email"} \X IdEmails) \cup ({"role"} \X (IdRoles(a) \cup {idUsers[a].role}))
    \cup ({"active"} \X BOOLEAN) \cup {<<"password", TRUE>>, <<"name", TRUE>>}
IdPatch(w, a, field, value) ==
    /\ a \in IdUserIds
    /\ LET next == IdNext(a, field, value) IN
       /\ IdAllowed(a, idUsers[a], next)
       /\ IdBegin(w, [at |-> "patch", id |-> a, next |-> next, stale |-> FALSE])
    /\ UNCHANGED <<idUsers, idRoleActive, idSessions, idTokens, idOverlapped>>
IdWrite(w) ==
    /\ IdAt(w, "patch")
    /\ LET r == idWork[w] IN
       IF IdIndexed(r.next.email, r.id)
       THEN IdRefused(w) /\ UNCHANGED <<idUsers, idOverlapped>>
       ELSE /\ idUsers' = [idUsers EXCEPT ![r.id] = r.next]
            /\ IdCommitted(w, IdIdle) /\ IdOverlaps(w)
    /\ UNCHANGED <<idRoleActive, idSessions, idTokens, idBegun>>

\* profile: an administrator's own name and e-mail; the sessions stay.
IdProfile(w, a, email) ==
    /\ a \in IdUserIds \cap IdStaff /\ idUsers[a].active
    /\ email # idUsers[a].email => ~IdTaken(email, a)
    /\ IdBegin(w, [at |-> "profile", id |-> a, email |-> email, stale |-> FALSE])
    /\ UNCHANGED <<idUsers, idRoleActive, idSessions, idTokens, idOverlapped>>
IdProfileWrite(w) ==
    /\ IdAt(w, "profile")
    /\ LET r == idWork[w] IN
       IF IdIndexed(r.email, r.id)
       THEN IdRefused(w) /\ UNCHANGED <<idUsers, idOverlapped>>
       ELSE /\ idUsers' = [idUsers EXCEPT ![r.id].email = r.email]
            /\ IdCommitted(w, IdIdle) /\ IdOverlaps(w)
    /\ UNCHANGED <<idRoleActive, idSessions, idTokens, idBegun>>

IdRoleHeld == \E a \in IdUserIds \cap IdStaff : idUsers[a].role = "custom"
\* adminRole: the role is switched off when no administrator has it.
IdRoleSwitch(w, active) ==
    /\ IdRoleHeld => active
    /\ IdBegin(w, [at |-> "role", active |-> active, stale |-> FALSE])
    /\ UNCHANGED <<idUsers, idRoleActive, idSessions, idTokens, idOverlapped>>
IdRoleWrite(w) ==
    /\ IdAt(w, "role")
    /\ idRoleActive' = idWork[w].active
    /\ IdCommitted(w, IdIdle) /\ IdOverlaps(w)
    /\ UNCHANGED <<idUsers, idSessions, idTokens, idBegun>>

-------------------------------------------------------------------------------
IdSession(a) == [id |-> a, version |-> idUsers[a].version, era |-> idUsers[a].era]
\* auth, partnerAuth: the user is active and the version is the current one.
IdAccepted(s) == idUsers[s.id].active /\ idUsers[s.id].version = s.version
IdIssue(a) ==
    /\ Cardinality(idSessions \cup {IdSession(a)}) <= IdMaxSessions
    /\ idSessions' = idSessions \cup {IdSession(a)}
IdSignIn(a) ==
    /\ a \in IdUserIds /\ idUsers[a].active /\ IdIssue(a)
    /\ UNCHANGED <<idUsers, idRoleActive, idTokens, idWork, idBegun, idOverlapped>>

\* A new password is set in the row itself, on top of whatever is there.
IdNewPassword(a) ==
    [idUsers EXCEPT ![a].version = @ + 1, ![a].era = @ + 1, ![a].pw = idUsers[a].era + 1]
\* profilePassword: the caller is given a session of the row it reads back.
IdPassword(w, a) ==
    /\ a \in IdUserIds \cap IdStaff /\ idUsers[a].active
    /\ IdBegin(w, [at |-> "password", id |-> a, stale |-> FALSE])
    /\ UNCHANGED <<idUsers, idRoleActive, idSessions, idTokens, idOverlapped>>
IdPasswordWrite(w) ==
    /\ IdAt(w, "password")
    /\ idUsers' = IdNewPassword(idWork[w].id)
    /\ IdCommitted(w, [at |-> "issue", id |-> idWork[w].id, stale |-> FALSE])
    /\ UNCHANGED <<idRoleActive, idSessions, idTokens, idBegun, idOverlapped>>
IdPasswordIssue(w) ==
    /\ IdAt(w, "issue") /\ IdIssue(idWork[w].id) /\ IdRefused(w)
    /\ UNCHANGED <<idUsers, idRoleActive, idTokens, idBegun, idOverlapped>>

\* passwordResetRequest: the open tokens it finds are used up, one is inserted.
IdResets(a) == Cardinality({t \in DOMAIN idTokens : idTokens[t].id = a /\ idTokens[t].used})
IdOpen(a) == {t \in DOMAIN idTokens : idTokens[t].id = a /\ idTokens[t].open}
IdReset(w, a) ==
    /\ a \in IdUserIds \cap IdStaff /\ idUsers[a].active
    /\ IdBegin(w, [at |-> "reset", id |-> a, spends |-> IdOpen(a), stale |-> FALSE])
    /\ UNCHANGED <<idUsers, idRoleActive, idSessions, idTokens, idOverlapped>>
IdClosed(spent) == [t \in DOMAIN idTokens |-> [idTokens[t] EXCEPT !.open = @ /\ t \notin spent]]
IdResetCommit(w, delivered) ==
    /\ IdAt(w, "reset") /\ Cardinality(DOMAIN idTokens) < IdMaxTokens
    /\ LET r == idWork[w]
           t == [id |-> r.id, open |-> delivered, used |-> FALSE, after |-> IdResets(r.id)]
       IN  idTokens' = [n \in 1..(Cardinality(DOMAIN idTokens) + 1) |->
                           IF n \in DOMAIN idTokens THEN IdClosed(r.spends)[n] ELSE t]
    /\ IdRefused(w)
    /\ UNCHANGED <<idUsers, idRoleActive, idSessions, idBegun, idOverlapped>>
\* passwordResetConfirm, under the lock of the token's row.
IdSpentByConfirm(t) == IdOpen(idTokens[t].id)
IdConfirm(t) ==
    /\ idTokens[t].open /\ idUsers[idTokens[t].id].active
    /\ idUsers' = IdNewPassword(idTokens[t].id)
    /\ idTokens' = [IdClosed(IdSpentByConfirm(t)) EXCEPT ![t].used = TRUE]
    /\ idWork' = [v \in IdWorkers |-> IF IdAt(v, "idle") THEN IdIdle ELSE [idWork[v] EXCEPT !.stale = TRUE]]
    /\ UNCHANGED <<idRoleActive, idSessions, idBegun, idOverlapped>>

IdStep ==
    \/ \E a \in IdAccounts : IdSignIn(a)
    \/ \E t \in DOMAIN idTokens : IdConfirm(t)
    \/ \E w \in IdWorkers :
          \/ \E a \in IdAccounts, email \in IdEmails, role \in {"ops", "custom", "owner", "viewer"} : IdCreate(w, a, email, role)
          \/ \E a \in IdUserIds : \E p \in IdPatches(a) : IdPatch(w, a, p[1], p[2])
          \/ \E a \in IdUserIds, email \in IdEmails : IdProfile(w, a, email)
          \/ \E active \in BOOLEAN : IdRoleSwitch(w, active) \/ IdResetCommit(w, active)
          \/ \E a \in IdUserIds : IdPassword(w, a) \/ IdReset(w, a)
          \/ IdInsert(w) \/ IdWrite(w) \/ IdProfileWrite(w) \/ IdRoleWrite(w)
          \/ IdPasswordWrite(w) \/ IdPasswordIssue(w)

IdSpec == IdInit /\ [][IdStep]_idVars

-------------------------------------------------------------------------------
(* No accepted session is older than the last change of its user's          *)
(* password, role or state, unless two changes overlapped.                  *)
IdOldSessionsEnd ==
    ~idOverlapped => \A s \in idSessions : IdAccepted(s) => s.era = idUsers[s.id].era

(* An e-mail belongs to one identity of the two tables, unless two changes  *)
(* overlapped.                                                              *)
IdEmailOnce ==
    ~idOverlapped => \A a, b \in IdUserIds : idUsers[a].email = idUsers[b].email => a = b

(* The partner keeps an active owner, unless two changes overlapped; and    *)
(* the owner of the system stays an active Platform Admin.                  *)
IdOwnerLeft ==
    /\ ~idOverlapped => \E a \in IdUserIds \cap IdPortal : IdOwns(idUsers[a])
    /\ idUsers[IdRoot].active /\ idUsers[IdRoot].role = "platform_admin"

(* A custom role that an administrator has is active, unless two changes    *)
(* overlapped.                                                              *)
IdRoleUsable ==
    ~idOverlapped /\ ~idRoleActive => ~\E a \in IdUserIds \cap IdStaff : idUsers[a].role = "custom"

(* A reset token issued before a reset of its user's password resets it no  *)
(* more, however many requests issue tokens at once.                        *)
IdResetOnce ==
    \A t \in DOMAIN idTokens : idTokens[t].open => idTokens[t].after = IdResets(idTokens[t].id)

(* Not guaranteed by the code (main.go:2681): the password of a user is the *)
(* one set last.  A change read before writes the old hash back.            *)
IdPasswordStays ==
    [][\A a \in IdUserIds : idUsers'[a].pw >= idUsers[a].pw]_idVars

(* Not guaranteed by the code (main.go:2597, partner_portal.go:917): two    *)
(* requests that check the same e-mail at once, one for each table.         *)
IdEmailAlwaysOnce ==
    \A a, b \in IdUserIds : idUsers[a].email = idUsers[b].email => a = b

(* Not guaranteed by the code (partner_portal.go:983): two owners who are   *)
(* demoted at once each count the other.                                    *)
IdOwnerAlwaysLeft == \E a \in IdUserIds \cap IdPortal : IdOwns(idUsers[a])

(* Not guaranteed by the code (main.go:425): the gateway starts again.  The *)
(* bootstrap administrator may change its e-mail; the next start inserts    *)
(* its id anew, and only an e-mail conflict is ignored.                     *)
IdStartsAgain == IdStarts

\* Who may sign in, under overlapping edits of the two tables of users: sessions
\* end with what they rested on, an e-mail has one user, an owner is left, a role
\* in use stays and a reset link works once - each unless two requests overlap in
\* the one way its part names.
IdentitiesSafe ==
    /\ IdOldSessionsEnd
    /\ IdEmailOnce
    /\ IdOwnerLeft
    /\ IdRoleUsable
    /\ IdResetOnce
===============================================================================
