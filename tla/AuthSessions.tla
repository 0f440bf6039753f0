---------------------------- MODULE AuthSessions ----------------------------
(***************************************************************************)
(* The logins and sessions of one operator account (server/fleet/auth.go,  *)
(* and the password and group operations of admin.go).                     *)
(*                                                                         *)
(* The process keeps accounts and sessions in maps under one mutex, and a  *)
(* row of each in PostgreSQL.  The mutex is never held while a session row *)
(* is written: a request copies its session, releases the mutex, writes    *)
(* the copy and answers by the result, so that any other request, logout,  *)
(* password change or clean-up may run in between.  After a restart the    *)
(* map is empty and sessions come back from their rows, one by one, when   *)
(* their token is presented.                                               *)
(*                                                                         *)
(* A worker is a goroutine that serves a request.  A grant stands for the  *)
(* role and groups of the account.  Every write of a row may fail, before  *)
(* it has an effect or after it.                                           *)
(***************************************************************************)
EXTENDS Integers, FiniteSets

CONSTANTS
    Workers,
    Tokens,         \* session tokens, each given out once
    Preauths,       \* bound: password logins that await their captcha
    Captchas,       \* bound: captchas that await their answer
    Grants,         \* what role and groups allow
    IdleTtl,        \* sessionIdleTTL
    AbsTtl,         \* sessionAbsTTL
    LockAfterFails, \* lockAfterFails
    LockDuration,   \* lockDuration
    MaxTime,        \* bound: the clock
    MaxEvents       \* bound: wrong passwords, changes of the account, failed
                    \* writes and restarts, taken together

(* No token, and no preauth.                                               *)
NoToken == "none"

ASSUME SessionConstants ==
    /\ NoToken \notin Tokens
    /\ IdleTtl \in Nat /\ AbsTtl \in Nat
    /\ LockAfterFails \in Nat \ {0} /\ LockDuration \in Nat \ {0}
    /\ MaxTime \in Nat /\ MaxEvents \in Nat

Time == 0..MaxTime

(* The grant of an account whose groups were blanked in memory.            *)
NoGroups == "no groups"

(* Session, without its token.                                             *)
Sessions == [grant : Grants \cup {NoGroups}, created : Time, lastUse : Time]
NoSession == [grant |-> "none"]

(* A row of auth_sessions.                                                 *)
Rows == [status : {"live", "revoked"}, session : Sessions]
NoRow == [status |-> "none"]

(* No session was opened under this token yet.                             *)
NoBirth == -1

Stages == {"idle", "verified", "entering", "entered", "renewing", "restoring",
           "restored", "putting", "accepted", "revoking", "killing", "refreshing",
           "resaving"}

(* What a worker holds between two critical sections: the token of its     *)
(* request and its copy of the session, the time at which that was found   *)
(* valid, the sessions it has still to write, and for a login its preauth. *)
(* A snapshot is a look at a session that does not renew it.               *)
Idle ==
    [stage |-> "idle", token |-> NoToken, copy |-> NoSession, at |-> 0,
     todo |-> {}, preauth |-> NoToken, snapshot |-> FALSE]

VARIABLES
    now,
    account,        \* a.users[username]
    accountRow,     \* auth_users
    failCount,      \* User.FailCount
    lockedUntil,    \* User.LockedUntil
    preauths,       \* a.preauths: those that are valid
    captchas,       \* a.captchas: those that are valid
    sessions,       \* a.sessions
    rows,           \* auth_sessions
    work,           \* the requests being served
    sweeping,       \* cleanupLoop, between the maps and the table
    born,           \* history: when each session was opened
    ended,          \* history: revoked while no worker held a copy
    astray,         \* history: sessions a change of groups could not reach
    events          \* counts what MaxEvents bounds

people == <<account, accountRow>>
lock == <<failCount, lockedUntil>>
challenges == <<preauths, captchas>>
history == <<born, ended, astray>>
vars == <<now, people, lock, challenges, sessions, rows, work, sweeping, history,
          events>>

Init ==
    \E g \in Grants :
        /\ now = 0
        /\ account = [present |-> TRUE, password |-> 0, grant |-> g]
        /\ accountRow = account
        /\ failCount = 0 /\ lockedUntil = 0
        /\ preauths = {} /\ captchas = {}
        /\ sessions = [t \in Tokens |-> NoSession]
        /\ rows = [t \in Tokens |-> NoRow]
        /\ work = [w \in Workers |-> Idle]
        /\ sweeping = FALSE
        /\ born = [t \in Tokens |-> NoBirth]
        /\ ended = {} /\ astray = {}
        /\ events = 0

(* The outcomes of a write: an error may come before or after its effect.  *)
Outcomes == IF events < MaxEvents THEN {"ok", "failed", "unanswered"} ELSE {"ok"}
Count(o) == events' = IF o = "ok" THEN events ELSE events + 1
Applied(o) == o \in {"ok", "unanswered"}

(* A worker will still write, or put in the map, a copy of session t.      *)
Holds(w, t) ==
    \/ /\ work[w].token = t
       /\ work[w].stage \in {"entering", "entered", "renewing", "restored", "putting"}
    \/ work[w].stage = "resaving" /\ \E c \in work[w].todo : c.token = t

(* A change of groups is saved and has not yet reached every session.      *)
Regrouping == \E w \in Workers : work[w].stage \in {"refreshing", "resaving"}

-----------------------------------------------------------------------------
(* Login                                                                   *)

(* LoginPassword with a wrong password: the last failure allowed locks.    *)
WrongPassword ==
    /\ account.present /\ lockedUntil <= now
    /\ events < MaxEvents /\ events' = events + 1
    /\ IF failCount + 1 >= LockAfterFails
       THEN failCount' = 0 /\ lockedUntil' = now + LockDuration
       ELSE failCount' = failCount + 1 /\ UNCHANGED lockedUntil
    /\ UNCHANGED <<now, people, challenges, sessions, rows, work, sweeping, history>>

Unlock == failCount' = 0 /\ lockedUntil' = 0

(* LoginPassword with the right password.  A token that is not in use      *)
(* stands for a new one.                                                   *)
LoginPassword(p) ==
    /\ account.present /\ lockedUntil <= now
    /\ p \notin preauths /\ \A w \in Workers : work[w].preauth # p
    /\ Unlock
    /\ preauths' = preauths \cup {p}
    /\ UNCHANGED <<now, people, captchas, sessions, rows, work, sweeping, history,
                   events>>

NewCaptcha(c) ==
    /\ c \notin captchas
    /\ captchas' = captchas \cup {c}
    /\ UNCHANGED <<now, people, lock, preauths, sessions, rows, work, sweeping,
                   history, events>>

(* captchaTTL passes, or captchaMaxTries wrong answers.                     *)
PreauthExpires(p) ==
    /\ p \in preauths
    /\ preauths' = preauths \ {p}
    /\ UNCHANGED <<now, people, lock, captchas, sessions, rows, work, sweeping,
                   history, events>>

CaptchaFails(c) ==
    /\ c \in captchas
    /\ captchas' = captchas \ {c}
    /\ UNCHANGED <<now, people, lock, preauths, sessions, rows, work, sweeping,
                   history, events>>

(* checkCaptcha on the right answer, at the start of FinishLogin.          *)
CheckCaptcha(w, p, c) ==
    /\ work[w] = Idle
    /\ c \in captchas
    /\ captchas' = captchas \ {c}
    /\ work' = [work EXCEPT ![w] = [Idle EXCEPT !.stage = "verified", !.preauth = p]]
    /\ UNCHANGED <<now, people, lock, preauths, sessions, rows, sweeping, history,
                   events>>

(* FinishLogin finds no valid preauth, or no account any more.             *)
LoginRefused(w) ==
    LET p == work[w].preauth IN
    /\ work[w].stage = "verified"
    /\ p \notin preauths \/ ~account.present
    /\ preauths' = preauths \ {p}
    /\ work' = [work EXCEPT ![w] = Idle]
    /\ UNCHANGED <<now, people, lock, captchas, sessions, rows, sweeping, history,
                   events>>

(* FinishLogin uses up the preauth and makes a session with a new token.   *)
OpenSession(w, t) ==
    LET p == work[w].preauth IN
    /\ work[w].stage = "verified"
    /\ p \in preauths /\ account.present
    /\ born[t] = NoBirth /\ rows[t] = NoRow /\ \A v \in Workers : work[v].token # t
    /\ preauths' = preauths \ {p}
    /\ work' = [work EXCEPT
                  ![w].stage = "entering", ![w].preauth = NoToken,
                  ![w].token = t, ![w].at = now,
                  ![w].copy = [grant |-> account.grant, created |-> now, lastUse |-> now]]
    /\ UNCHANGED <<now, people, lock, captchas, sessions, rows, sweeping, history,
                   events>>

-----------------------------------------------------------------------------
(* The rows of sessions                                                    *)

(* Otherwise persistSession fails: the row was revoked, or its account is  *)
(* gone and the foreign key refuses it.                                    *)
Persistable(t) ==
    \/ rows[t].status = "live"
    \/ rows[t].status = "none" /\ accountRow.present

(* Mutant: the upsert also writes created_at, from the last use.           *)
PersistedAfresh(t, s) ==
    [status |-> "live", session |-> [s EXCEPT !.created = s.lastUse]]

(* The row persistSession leaves: created_at is never updated.             *)
Persisted(t, s) ==
    [status |-> "live",
     session |-> IF rows[t].status = "live"
                 THEN [s EXCEPT !.created = rows[t].session.created] ELSE s]

(* The WHERE clause of restoreSession.                                     *)
Restorable(t) ==
    /\ rows[t].status = "live"
    /\ now - rows[t].session.lastUse < IdleTtl
    /\ now - rows[t].session.created < AbsTtl

(* The check of SessionByToken and SessionSnapshot on the map.             *)
Expired(s) == now - s.lastUse > IdleTtl \/ now - s.created > AbsTtl

(* persistSession of worker w's copy: it goes on to a stage, or gives up.  *)
Persist(w, o, next) ==
    LET t == work[w].token IN
    /\ o \in Outcomes /\ Count(o)
    /\ rows' = IF Persistable(t) /\ Applied(o)
               THEN [rows EXCEPT ![t] = Persisted(t, work[w].copy)] ELSE rows
    /\ work' = [work EXCEPT ![w] = IF Persistable(t) /\ o = "ok" THEN next ELSE Idle]
    /\ UNCHANGED <<now, people, lock, challenges, sessions, sweeping, history>>

(* The request goes on to its handler.                                     *)
Accepted(w) == [work[w] EXCEPT !.stage = "accepted", !.copy = NoSession]

EnterSession(w, o) == work[w].stage = "entering" /\ Persist(w, o, [work[w] EXCEPT !.stage = "entered"])

(* FinishLogin puts the session in the map and hands out its token.        *)
SessionEntered(w) ==
    LET t == work[w].token IN
    /\ work[w].stage = "entered"
    /\ sessions' = [sessions EXCEPT ![t] = work[w].copy]
    /\ born' = [born EXCEPT ![t] = work[w].at]
    /\ work' = [work EXCEPT ![w] = Idle]
    /\ UNCHANGED <<now, people, lock, challenges, rows, sweeping, ended, astray,
                   events>>

-----------------------------------------------------------------------------
(* Requests with a session: SessionByToken, and SessionSnapshot for a      *)
(* WebSocket                                                               *)

Request(w, t, snapshot) ==
    LET s == sessions[t]
        asked == [Idle EXCEPT !.token = t, !.snapshot = snapshot]
    IN
    /\ work[w] = Idle
    /\ born[t] # NoBirth
    /\ \/ /\ s = NoSession
          /\ work' = [work EXCEPT ![w] = [asked EXCEPT !.stage = "restoring"]]
          /\ UNCHANGED sessions
       \/ /\ s # NoSession /\ Expired(s)
          /\ sessions' = [sessions EXCEPT ![t] = NoSession]
          /\ work' = [work EXCEPT ![w] = [asked EXCEPT !.stage = "revoking", !.todo = {t}]]
       \/ /\ s # NoSession /\ ~Expired(s) /\ ~snapshot
          /\ sessions' = [sessions EXCEPT ![t].lastUse = now]
          /\ work' = [work EXCEPT ![w] = [asked EXCEPT !.stage = "renewing", !.at = now,
                                           !.copy = [s EXCEPT !.lastUse = now]]]
       \/ /\ s # NoSession /\ ~Expired(s) /\ snapshot
          /\ work' = [work EXCEPT ![w] = [asked EXCEPT !.stage = "accepted", !.at = now]]
          /\ UNCHANGED sessions
    /\ UNCHANGED <<now, people, lock, challenges, rows, sweeping, history, events>>

RenewSession(w, o) == work[w].stage = "renewing" /\ Persist(w, o, Accepted(w))

(* restoreSession: the row is read without the mutex, and may be one that  *)
(* a change of groups has yet to write.                                    *)
RestoreSession(w) ==
    LET t == work[w].token  s == rows[t].session IN
    /\ work[w].stage = "restoring"
    /\ work' = [work EXCEPT
                  ![w] = IF ~Restorable(t) THEN Idle
                         ELSE IF @.snapshot
                         THEN [@ EXCEPT !.stage = "putting", !.at = now, !.copy = s]
                         ELSE [@ EXCEPT !.stage = "restored", !.at = now,
                                        !.copy = [s EXCEPT !.lastUse = now]]]
    /\ astray' = IF Regrouping THEN astray \cup {t} ELSE astray
    /\ UNCHANGED <<now, people, lock, challenges, sessions, rows, sweeping, born,
                   ended, events>>

PersistRestored(w, o) == work[w].stage = "restored" /\ Persist(w, o, [work[w] EXCEPT !.stage = "putting"])

PutSession(w) ==
    /\ work[w].stage = "putting"
    /\ sessions' = [sessions EXCEPT ![work[w].token] = work[w].copy]
    /\ work' = [work EXCEPT ![w] = Accepted(w)]
    /\ UNCHANGED <<now, people, lock, challenges, rows, sweeping, history, events>>

(* The handler of the request is done.                                     *)
Respond(w) ==
    /\ work[w].stage = "accepted"
    /\ work' = [work EXCEPT ![w] = Idle]
    /\ UNCHANGED <<now, people, lock, challenges, sessions, rows, sweeping, history,
                   events>>

-----------------------------------------------------------------------------
(* The end of sessions                                                     *)

Logout(w) ==
    LET t == work[w].token IN
    /\ work[w].stage = "accepted" /\ ~work[w].snapshot
    /\ sessions' = [sessions EXCEPT ![t] = NoSession]
    /\ work' = [work EXCEPT ![w] = [Idle EXCEPT !.stage = "revoking", !.todo = {t}]]
    /\ UNCHANGED <<now, people, lock, challenges, rows, sweeping, history, events>>

(* Mutant: the row is left as it is.                                       *)
RevokedNever(t) == rows

Revoked(t) ==
    IF rows[t].status = "live" THEN [rows EXCEPT ![t].status = "revoked"] ELSE rows

(* revokeSession; an error is only logged.                                 *)
RevokeSession(w, t, o) ==
    /\ work[w].stage = "revoking" /\ t \in work[w].todo
    /\ o \in Outcomes /\ Count(o)
    /\ rows' = IF Applied(o) THEN Revoked(t) ELSE rows
    /\ ended' = IF /\ Applied(o)
                   /\ sessions[t] = NoSession
                   /\ \A v \in Workers : ~Holds(v, t)
                THEN ended \cup {t} ELSE ended
    /\ work' = [work EXCEPT ![w] = IF work[w].todo = {t} THEN Idle
                                   ELSE [work[w] EXCEPT !.todo = @ \ {t}]]
    /\ UNCHANGED <<now, people, lock, challenges, sessions, sweeping, born, astray>>

(* killSessions: every session of the account in this map, except one.     *)
KillSessions(w) ==
    LET victims == {t \in Tokens : sessions[t] # NoSession /\ t # work[w].token} IN
    /\ work[w].stage = "killing"
    /\ sessions' = [t \in Tokens |-> IF t \in victims THEN NoSession ELSE sessions[t]]
    /\ work' = [work EXCEPT ![w] = IF victims = {} THEN Idle
                                   ELSE [Idle EXCEPT !.stage = "revoking",
                                                     !.todo = victims]]
    /\ UNCHANGED <<now, people, lock, challenges, rows, sweeping, history, events>>

-----------------------------------------------------------------------------
(* Changes of the account                                                  *)

(* The new password is in memory even when it could not be saved.          *)
SavePassword(w, o, killer) ==
    /\ account.present /\ events < MaxEvents
    /\ o \in Outcomes
    /\ events' = events + 1
    /\ account' = [account EXCEPT !.password = events + 1]
    /\ accountRow' = IF Applied(o) THEN account' ELSE accountRow
    /\ work' = [work EXCEPT ![w] = IF o = "ok" THEN killer ELSE Idle]

(* The operator's own change keeps the session it is made in.              *)
ChangePassword(w, o) ==
    /\ work[w].stage = "accepted" /\ ~work[w].snapshot
    /\ SavePassword(w, o, [Idle EXCEPT !.stage = "killing", !.token = work[w].token])
    /\ UNCHANGED <<now, lock, challenges, sessions, rows, sweeping, history>>

(* An administrator sets a new password and lifts the lock.                *)
ResetPassword(w, o) ==
    /\ work[w] = Idle
    /\ SavePassword(w, o, [Idle EXCEPT !.stage = "killing"])
    /\ Unlock
    /\ UNCHANGED <<now, challenges, sessions, rows, sweeping, history>>

(* The rows of its sessions go with the row of the account.                *)
DeleteUser(w, o) ==
    /\ work[w] = Idle
    /\ account.present /\ events < MaxEvents
    /\ o \in Outcomes
    /\ events' = events + 1
    /\ accountRow' = IF Applied(o) THEN [accountRow EXCEPT !.present = FALSE] ELSE accountRow
    /\ rows' = IF Applied(o) THEN [t \in Tokens |-> NoRow] ELSE rows
    /\ account' = IF o = "ok" THEN [account EXCEPT !.present = FALSE] ELSE account
    /\ work' = IF o = "ok" THEN [work EXCEPT ![w] = [Idle EXCEPT !.stage = "killing"]] ELSE work
    /\ UNCHANGED <<now, lock, challenges, sessions, sweeping, history>>

(* The sessions a walk over the map does not change for good: their row is *)
(* live and they are not in the map, or a worker is about to write a copy. *)
OutOfReach ==
    {t \in Tokens : \/ sessions[t] = NoSession /\ rows[t].status = "live"
                    \/ \E v \in Workers : Holds(v, t)}

(* SetGroups saves the account; memory goes back when that fails.  Two     *)
(* changes that overlap may refresh the sessions in the other order.       *)
SetGroups(w, g, o) ==
    /\ work[w] = Idle
    /\ account.present /\ events < MaxEvents
    /\ o \in Outcomes
    /\ events' = events + 1
    /\ account' = IF o = "ok" THEN [account EXCEPT !.grant = g] ELSE account
    /\ accountRow' = IF Applied(o) THEN [account EXCEPT !.grant = g] ELSE accountRow
    /\ work' = IF o = "ok"
               THEN [work EXCEPT ![w] = [Idle EXCEPT !.stage = "refreshing",
                                                     !.copy = [grant |-> g]]]
               ELSE work
    /\ astray' = IF Regrouping THEN Tokens
                 ELSE astray \cup OutOfReach
    /\ UNCHANGED <<now, lock, challenges, sessions, rows, sweeping, born, ended>>

(* GET /api/admin/users by a group administrator blanks the groups of the  *)
(* accounts it lists: it has pointers to those in the map, not copies.     *)
MembersListed ==
    /\ account.present /\ account.grant # NoGroups
    /\ events < MaxEvents /\ events' = events + 1
    /\ account' = [account EXCEPT !.grant = NoGroups]
    /\ astray' = IF Regrouping THEN Tokens
                 ELSE astray \cup OutOfReach \cup {t \in Tokens : sessions[t] # NoSession}
    /\ UNCHANGED <<now, accountRow, lock, challenges, sessions, rows, work, sweeping,
                   born, ended>>

(* Mutant: only the map is refreshed.                                      *)
RefreshedInMapOnly(g) == {}

(* The copies RefreshSessions writes back.                                 *)
Refreshed(g) ==
    {[token |-> t, session |-> [sessions[t] EXCEPT !.grant = g]] :
        t \in {u \in Tokens : sessions[u] # NoSession}}

RefreshSessions(w) ==
    LET g == work[w].copy.grant IN
    /\ work[w].stage = "refreshing"
    /\ sessions' = [t \in Tokens |-> IF sessions[t] = NoSession THEN NoSession
                                     ELSE [sessions[t] EXCEPT !.grant = g]]
    /\ work' = [work EXCEPT ![w] = IF Refreshed(g) = {} THEN Idle
                                   ELSE [Idle EXCEPT !.stage = "resaving",
                                                     !.todo = Refreshed(g)]]
    /\ astray' = astray \cup OutOfReach
    /\ UNCHANGED <<now, people, lock, challenges, rows, sweeping, born, ended, events>>

ResaveSession(w, c, o) ==
    LET t == c.token IN
    /\ work[w].stage = "resaving" /\ c \in work[w].todo
    /\ o \in Outcomes /\ Count(o)
    /\ rows' = IF Persistable(t) /\ Applied(o)
               THEN [rows EXCEPT ![t] = Persisted(t, c.session)] ELSE rows
    /\ astray' = IF Applied(o) /\ \A v \in Workers \ {w} : ~Holds(v, t)
                 THEN astray ELSE astray \cup {t}
    /\ work' = [work EXCEPT ![w] = IF work[w].todo = {c} THEN Idle
                                   ELSE [work[w] EXCEPT !.todo = @ \ {c}]]
    /\ UNCHANGED <<now, people, lock, challenges, sessions, sweeping, born, ended>>

-----------------------------------------------------------------------------
(* cleanupLoop, restarts and time                                          *)

SweepMaps ==
    /\ ~sweeping
    /\ sweeping' = TRUE
    /\ sessions' = [t \in Tokens |->
                      IF sessions[t] # NoSession /\ now - sessions[t].lastUse > IdleTtl
                      THEN NoSession ELSE sessions[t]]
    /\ UNCHANGED <<now, people, lock, challenges, rows, work, history, events>>

(* The DELETE of cleanupLoop and of loadSessions.                          *)
Swept ==
    [t \in Tokens |-> IF \/ rows[t].status # "live"
                         \/ now - rows[t].session.lastUse >= IdleTtl
                         \/ now - rows[t].session.created >= AbsTtl
                      THEN NoRow ELSE rows[t]]

SweepRows ==
    /\ sweeping
    /\ sweeping' = FALSE
    /\ rows' = Swept
    /\ UNCHANGED <<now, people, lock, challenges, sessions, work, history, events>>

(* A start finds accounts and sessions in the tables, and nothing else.    *)
Restart ==
    /\ events < MaxEvents /\ events' = events + 1
    /\ account' = accountRow
    /\ Unlock
    /\ preauths' = {} /\ captchas' = {}
    /\ sessions' = [t \in Tokens |-> NoSession]
    /\ rows' = Swept
    /\ work' = [w \in Workers |-> Idle]
    /\ sweeping' = FALSE
    /\ astray' = astray \cup {t \in Tokens : /\ rows[t].status = "live"
                                             /\ rows[t].session.grant # accountRow.grant}
    /\ UNCHANGED <<now, accountRow, born, ended>>

Tick ==
    /\ now < MaxTime
    /\ now' = now + 1
    /\ UNCHANGED <<people, lock, challenges, sessions, rows, work, sweeping, history,
                   events>>

Next ==
    \/ WrongPassword
    \/ \E p \in Preauths : LoginPassword(p) \/ PreauthExpires(p)
    \/ \E c \in Captchas : NewCaptcha(c) \/ CaptchaFails(c)
    \/ \E w \in Workers :
        \/ \E p \in Preauths, c \in Captchas : CheckCaptcha(w, p, c)
        \/ \E t \in Tokens : OpenSession(w, t)
        \/ \E t \in Tokens, snapshot \in BOOLEAN : Request(w, t, snapshot)
        \/ LoginRefused(w)
        \/ SessionEntered(w)
        \/ RestoreSession(w)
        \/ PutSession(w)
        \/ Respond(w)
        \/ Logout(w)
        \/ KillSessions(w)
        \/ RefreshSessions(w)
        \/ \E o \in Outcomes :
            \/ EnterSession(w, o)
            \/ RenewSession(w, o)
            \/ PersistRestored(w, o)
            \/ ChangePassword(w, o)
            \/ ResetPassword(w, o)
            \/ DeleteUser(w, o)
            \/ \E g \in Grants : SetGroups(w, g, o)
            \/ \E t \in Tokens : RevokeSession(w, t, o)
            \/ \E c \in work[w].todo : ResaveSession(w, c, o)
    \/ MembersListed
    \/ SweepMaps
    \/ SweepRows
    \/ Restart
    \/ Tick

Spec == Init /\ [][Next]_vars

-----------------------------------------------------------------------------
(* Properties                                                              *)

(* Every variable has its type, and maps and rows hold whole sessions.     *)
TypeOK ==
    /\ now \in Time
    /\ {account, accountRow} \subseteq
          [present : BOOLEAN, password : 0..MaxEvents, grant : Grants \cup {NoGroups}]
    /\ failCount \in 0..LockAfterFails - 1
    /\ lockedUntil \in 0..MaxTime + LockDuration
    /\ preauths \subseteq Preauths /\ captchas \subseteq Captchas
    /\ sessions \in [Tokens -> Sessions \cup {NoSession}]
    /\ rows \in [Tokens -> Rows \cup {NoRow}]
    /\ DOMAIN work = Workers /\ \A w \in Workers : work[w].stage \in Stages
    /\ sweeping \in BOOLEAN
    /\ born \in [Tokens -> Time \cup {NoBirth}]
    /\ ended \subseteq Tokens /\ astray \subseteq Tokens
    /\ events \in 0..MaxEvents

(* No request is admitted more than the absolute lifetime after the login  *)
(* that opened its session, however often it was renewed, written late,    *)
(* swept away and inserted again, or restored by a restarted process.      *)
AbsoluteLifetime ==
    \A w \in Workers :
        work[w].stage = "accepted" =>
            work[w].at - born[work[w].token] <= AbsTtl

(* Once a session is revoked while no worker holds a copy of it, it never  *)
(* comes back: not from its row, not by an insertion after the row was     *)
(* swept, not by a restart, and no request with it is under way.           *)
RevocationIsFinal ==
    \A t \in ended :
        /\ sessions[t] = NoSession
        /\ rows[t].status # "live"
        /\ \A w \in Workers : ~Holds(w, t)

(* When no change of groups is under way, every session in the map that    *)
(* the changes could reach has the role and groups of its account, and so  *)
(* has its row, from which another start would restore it.                 *)
GroupChangesReachSessions ==
    ~Regrouping =>
        \A t \in Tokens \ astray :
            /\ sessions[t] # NoSession => sessions[t].grant = account.grant
            /\ rows[t].status = "live" => rows[t].session.grant = account.grant

=============================================================================
