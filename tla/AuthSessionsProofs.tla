------------------------- MODULE AuthSessionsProofs -------------------------
(***************************************************************************)
(* Proofs about AuthSessions for any number of requests at a time, tokens, *)
(* grants, failures and restarts.                                          *)
(*                                                                         *)
(* The invariant has three parts: where a session is kept, its beginning   *)
(* is the login's (Lifetime); what was ended is kept nowhere (Finality);   *)
(* and what a change of groups could reach has the account's grant, or is  *)
(* about to be written with it (Groups).                                   *)
(***************************************************************************)
EXTENDS AuthSessions, TLAPS

AllGrants == Grants \cup {NoGroups}
Accounts == [present : BOOLEAN, password : Nat, grant : AllGrants]
Saves == [token : Tokens, session : Sessions]
Requests ==
    [stage : Stages, token : Tokens \cup {NoToken},
     copy : Sessions \cup {NoSession} \cup [grant : AllGrants], at : Time,
     todo : SUBSET (Tokens \cup Saves), preauth : Preauths \cup {NoToken},
     snapshot : BOOLEAN]

Typed ==
    /\ now \in Time /\ events \in Nat
    /\ account \in Accounts /\ accountRow \in Accounts
    /\ sessions \in [Tokens -> Sessions \cup {NoSession}]
    /\ rows \in [Tokens -> Rows \cup {NoRow}]
    /\ work \in [Workers -> Requests]
    /\ born \in [Tokens -> Time \cup {NoBirth}]
    /\ ended \subseteq Tokens /\ astray \subseteq Tokens

-----------------------------------------------------------------------------
(* Lifetime                                                                *)

Born(t) == born[t] # NoBirth

Entering(r) == r.stage \in {"entering", "entered"}
Carrying(r) == r.stage \in {"renewing", "restored", "putting"}

(* A request is for a session that was opened, unless it is the login that *)
(* opens it; whatever copy it has begins when the session was opened, and  *)
(* it was found valid within the lifetime.                                 *)
RequestFits(r) ==
    /\ Entering(r) => /\ r.token \in Tokens /\ ~Born(r.token)
                      /\ r.copy \in Sessions /\ r.copy.created = r.at
    /\ r.token \in Tokens /\ ~Entering(r) => Born(r.token)
    /\ r.stage \in {"restoring", "accepted"} \/ Carrying(r) => r.token \in Tokens
    /\ Carrying(r) => r.copy \in Sessions /\ r.copy.created = born[r.token]
    /\ Carrying(r) \/ r.stage = "accepted" => r.at - born[r.token] <= AbsTtl
    /\ r.stage = "revoking" => \A t \in r.todo : t \in Tokens /\ Born(t)
    /\ r.stage = "refreshing" => r.copy \in [grant : AllGrants]
    /\ r.stage = "resaving" =>
          \A c \in r.todo : /\ c \in Saves /\ Born(c.token)
                            /\ c.session.created = born[c.token]

RequestsFit == \A w \in Workers : RequestFits(work[w])

SessionsFit ==
    \A t \in Tokens : sessions[t] # NoSession =>
        Born(t) /\ sessions[t].created = born[t]

RowsFit ==
    \A t \in Tokens : rows[t].status # "none" /\ Born(t) =>
        rows[t].session.created = born[t]

(* A login is alone with its token, and its row is the one it wrote.       *)
LoginsAlone ==
    \A w \in Workers : Entering(work[w]) =>
        /\ \A u \in Workers : work[u].token = work[w].token => u = w
        /\ rows[work[w].token].status # "none" =>
              /\ work[w].stage = "entered"
              /\ rows[work[w].token].session.created = work[w].at

Lifetime == RequestsFit /\ SessionsFit /\ RowsFit /\ LoginsAlone

-----------------------------------------------------------------------------
(* Finality                                                                *)

Carries(w, t) == work[w].token = t /\ (Entering(work[w]) \/ Carrying(work[w]))

(* A session with grant g that can be seen, or a copy that will be.        *)
InPlay(t, g) ==
    \/ sessions[t] # NoSession /\ sessions[t].grant = g
    \/ \E w \in Workers : Carries(w, t) /\ work[w].copy.grant = g

(* A row from which a session with grant g may be restored.                *)
Stored(t, g) == rows[t].status = "live" /\ rows[t].session.grant = g

(* A row that a change of groups will write.                               *)
Pending(t) ==
    \E w \in Workers : work[w].stage = "resaving" /\ \E c \in work[w].todo : c.token = t

Lives(t) == ~Born(t) \/ Pending(t) \/ \E g \in AllGrants : InPlay(t, g) \/ Stored(t, g)

Finality == \A t \in ended : ~Lives(t)

-----------------------------------------------------------------------------
(* Groups                                                                  *)

Regroups(w) == work[w].stage \in {"refreshing", "resaving"}

(* A second change of groups during the first gives up on every session.   *)
OneChange ==
    \A u, w \in Workers : Regroups(u) /\ Regroups(w) => u = w \/ Tokens \subseteq astray

(* What a change of groups will write is the grant of the account.         *)
ChangesCarryGrant ==
    \A w \in Workers :
        /\ work[w].stage = "refreshing" =>
              work[w].copy.grant = account.grant \/ Tokens \subseteq astray
        /\ work[w].stage = "resaving" =>
              \A c \in work[w].todo :
                  c.token \in astray \/ c.session.grant = account.grant

Reached(t) ==
    \A g \in AllGrants :
        /\ InPlay(t, g) => g = account.grant
        /\ Stored(t, g) => g = account.grant \/ Pending(t)

MapRefreshed == \A w \in Workers : work[w].stage # "refreshing"

Groups ==
    /\ OneChange /\ ChangesCarryGrant
    /\ MapRefreshed => \A t \in Tokens \ astray : Reached(t)

IInv == Typed /\ Lifetime /\ Finality /\ Groups

-----------------------------------------------------------------------------
LEMMA Numbers ==
    /\ Time \subseteq Int /\ 0 \in Time /\ AbsTtl \in Nat /\ NoToken \notin Tokens
    /\ NoBirth \in Int /\ NoBirth \notin Time
BY SessionConstants DEF SessionConstants, Time, NoBirth

LEMMA IdleFits == Idle \in Requests /\ Idle.stage = "idle" /\ RequestFits(Idle)
<1>1. Idle \in Requests
  BY Numbers DEF Idle, Requests, Stages
<1>2. Idle.stage = "idle" /\ Idle.token = NoToken
  BY DEF Idle
<1> QED  BY <1>1, <1>2, Numbers DEF RequestFits, Entering, Carrying

LEMMA SessionFacts ==
    ASSUME NEW s \in Sessions
    PROVE  /\ s.grant \in AllGrants /\ s.created \in Time /\ s.lastUse \in Time
           /\ \A n \in Time : /\ [s EXCEPT !.lastUse = n] \in Sessions
                              /\ [s EXCEPT !.lastUse = n].grant = s.grant
                              /\ [s EXCEPT !.lastUse = n].created = s.created
                              /\ [s EXCEPT !.created = n] \in Sessions
                              /\ [s EXCEPT !.created = n].grant = s.grant
                              /\ [s EXCEPT !.created = n].created = n
           /\ \A g \in AllGrants : /\ [s EXCEPT !.grant = g] \in Sessions
                                   /\ [s EXCEPT !.grant = g].grant = g
                                   /\ [s EXCEPT !.grant = g].created = s.created
BY DEF Sessions, AllGrants

LEMMA RowFacts ==
    ASSUME Typed, NEW t \in Tokens
    PROVE  /\ rows[t].status \in {"none", "live", "revoked"}
           /\ rows[t].status # "none" => rows[t] \in Rows /\ rows[t].session \in Sessions
           /\ sessions[t] # NoSession => sessions[t] \in Sessions
<1>1. rows[t] \in Rows \cup {NoRow} /\ sessions[t] \in Sessions \cup {NoSession}
  BY DEF Typed
<1>2. NoRow.status = "none"
  BY DEF NoRow
<1>3. \A r \in Rows : r.status \in {"live", "revoked"} /\ r.session \in Sessions
  BY DEF Rows
<1> QED  BY <1>1, <1>2, <1>3

(* A worker changes, and only to what fits.                                *)
LEMMA WorkType ==
    ASSUME Typed, NEW w \in Workers, NEW r \in Requests, work' = [work EXCEPT ![w] = r]
    PROVE  /\ work' \in [Workers -> Requests]
           /\ \A u \in Workers : work'[u] = IF u = w THEN r ELSE work[u]
BY DEF Typed

-----------------------------------------------------------------------------
(* A step that opens no session.                                           *)
LEMMA LifetimeStep ==
    ASSUME IInv, born' = born,
           \A u \in Workers : work'[u] = work[u] \/ (RequestFits(work[u])' /\ ~Entering(work[u])'),
           \A t \in Tokens : sessions'[t] # NoSession => Born(t) /\ sessions'[t].created = born[t],
           \A t \in Tokens : \/ rows'[t] = rows[t] \/ rows'[t].status = "none"
                             \/ Born(t) /\ rows'[t].session.created = born[t]
    PROVE  Lifetime'
<1>1. \A t : Born(t)' <=> Born(t)
  BY DEF Born
<1>2. RequestsFit'
  <2>1. \A u \in Workers : work'[u] = work[u] => RequestFits(work[u])'
    BY <1>1 DEF IInv, Lifetime, RequestsFit, RequestFits, Entering, Carrying
  <2> QED  BY <2>1 DEF RequestsFit
<1>3. SessionsFit'
  BY <1>1 DEF SessionsFit
<1>4. RowsFit'
  BY <1>1 DEF RowsFit, IInv, Lifetime
<1>5. LoginsAlone'
  <2> SUFFICES ASSUME NEW w \in Workers, Entering(work[w])'
               PROVE  /\ \A u \in Workers : work'[u].token = work'[w].token => u = w
                      /\ rows'[work'[w].token].status # "none" =>
                            /\ work'[w].stage = "entered"
                            /\ rows'[work'[w].token].session.created = work'[w].at
    BY DEF LoginsAlone
  <2>1. work'[w] = work[w] /\ Entering(work[w])
    BY DEF Entering
  <2>2. work[w].token \in Tokens /\ ~Born(work[w].token)
    BY <2>1 DEF IInv, Lifetime, RequestsFit, RequestFits
  <2>3. ASSUME NEW u \in Workers, work'[u].token = work'[w].token PROVE u = w
    <3>1. CASE work'[u] = work[u]
      BY <2>1, <2>3, <3>1 DEF IInv, Lifetime, LoginsAlone
    <3>2. CASE RequestFits(work[u])' /\ ~Entering(work[u])'
      BY <1>1, <2>1, <2>2, <2>3, <3>2 DEF RequestFits
    <3> QED  BY <3>1, <3>2
  <2>4. rows'[work[w].token] = rows[work[w].token] \/ rows'[work[w].token].status = "none"
    BY <2>2
  <2> QED  BY <2>1, <2>3, <2>4 DEF IInv, Lifetime, LoginsAlone
<1> QED  BY <1>2, <1>3, <1>4, <1>5 DEF Lifetime

(* Where a session or a copy may come from: another one, a login, or a row *)
(* that is restored.                                                       *)
Source(t, g) ==
    \/ InPlay(t, g)
    \/ ~Born(t) /\ g = account.grant
    \/ Stored(t, g) /\ (Regrouping => t \in astray')

LEMMA FlowStep ==
    ASSUME IInv, account'.grant = account.grant, astray \subseteq astray',
           \A t \in ended' : t \in ended \/ ~Lives(t)',
           \A u \in Workers : Regroups(u) \/ Regroups(u)' => work'[u] = work[u],
           \A t \in Tokens : Born(t) => Born(t)',
           \A t \in Tokens : sessions'[t] # NoSession => Source(t, sessions'[t].grant),
           \A u \in Workers, t \in Tokens :
              Carries(u, t)' => work'[u] = work[u] \/ Source(t, work'[u].copy.grant),
           \A t \in Tokens :
              rows'[t].status = "live" =>
                 \/ rows'[t] = rows[t]
                 \/ InPlay(t, rows'[t].session.grant) \/ Stored(t, rows'[t].session.grant)
    PROVE  Finality' /\ Groups'
<1>1. ASSUME NEW t \in Tokens, NEW g \in AllGrants, InPlay(t, g)' PROVE Source(t, g)
  <2>1. CASE sessions'[t] # NoSession /\ sessions'[t].grant = g
    BY <2>1
  <2>2. ASSUME NEW u \in Workers, Carries(u, t)', work'[u].copy.grant = g PROVE Source(t, g)
    <3>1. CASE work'[u] = work[u]
      BY <2>2, <3>1 DEF Source, InPlay, Carries, Entering, Carrying
    <3> QED  BY <2>2, <3>1
  <2> QED  BY <1>1, <2>1, <2>2 DEF InPlay
<1>2. ASSUME NEW t \in Tokens, NEW g \in AllGrants, Stored(t, g)' PROVE Stored(t, g) \/ InPlay(t, g)
  BY <1>2 DEF Stored
<1>3. /\ \A u \in Workers : Regroups(u)' <=> Regroups(u)
      /\ \A u \in Workers : work'[u].stage = "refreshing" <=> work[u].stage = "refreshing"
      /\ \A u \in Workers : work'[u].stage = "resaving" <=> work[u].stage = "resaving"
      /\ \A u \in Workers : Regroups(u) => work'[u] = work[u]
  BY DEF Regroups
<1>4. \A t \in Tokens : Pending(t)' <=> Pending(t)
  BY <1>3 DEF Pending, Regroups
<1>5. Finality'
  <2>1. ASSUME NEW t \in Tokens, Lives(t)' PROVE Lives(t)
    <3>1. CASE Pending(t) \/ ~Born(t)
      BY <3>1 DEF Lives
    <3>2. CASE \E g \in AllGrants : InPlay(t, g)' \/ Stored(t, g)'
      BY <1>1, <1>2, <3>2 DEF Lives, Source
    <3> QED  BY <1>4, <2>1, <3>1, <3>2 DEF Lives
  <2>2. ended \subseteq Tokens
    BY DEF IInv, Typed
  <2> QED  BY <2>1, <2>2 DEF IInv, Finality
<1>6. OneChange'
  BY <1>3 DEF IInv, Groups, OneChange
<1>7. ChangesCarryGrant'
  BY <1>3 DEF IInv, Groups, ChangesCarryGrant, Regroups
<1>8. MapRefreshed' => \A t \in Tokens \ astray' : Reached(t)'
  <2> SUFFICES ASSUME MapRefreshed', NEW t \in Tokens \ astray', NEW g \in AllGrants
               PROVE  /\ InPlay(t, g)' => g = account.grant
                      /\ Stored(t, g)' => g = account.grant \/ Pending(t)
    BY <1>4 DEF Reached
  <2>1. Reached(t)
    BY <1>3 DEF IInv, Groups, MapRefreshed
  <2>2. ~Regrouping => ~Pending(t)
    BY DEF Regrouping, Pending
  <2>3. Source(t, g) => g = account.grant
    BY <2>1, <2>2 DEF Source, Reached
  <2> QED  BY <1>1, <1>2, <2>1, <2>3 DEF Reached
<1> QED  BY <1>5, <1>6, <1>7, <1>8 DEF Groups

-----------------------------------------------------------------------------
(* Steps after which no session, copy or row is there that was not before  *)

Light(r) == r.stage \in {"idle", "verified", "restoring", "accepted", "revoking", "killing"}

LEMMA ShedStep ==
    ASSUME IInv, Typed', born' = born, account'.grant = account.grant, astray' = astray,
           \A t \in ended' : t \in ended \/ ~Lives(t)',
           \A u \in Workers :
              work'[u] = work[u] \/ (RequestFits(work[u])' /\ Light(work[u])' /\ ~Regroups(u)),
           \A t \in Tokens : sessions'[t] = sessions[t] \/ sessions'[t] = NoSession,
           \A t \in Tokens :
              \/ rows'[t] = rows[t] \/ rows'[t].status = "none"
              \/ /\ rows'[t].status = "revoked" /\ rows[t].status = "live" /\ Born(t)
                 /\ rows'[t].session = rows[t].session
    PROVE  IInv'
<1>1. \A u \in Workers : work'[u] = work[u] \/ (RequestFits(work[u])' /\ ~Entering(work[u])')
  BY DEF Light, Entering
<1>2. \A t \in Tokens : sessions'[t] # NoSession =>
          /\ Born(t) /\ sessions'[t].created = born[t]
          /\ Source(t, sessions'[t].grant)
  BY DEF IInv, Lifetime, SessionsFit, Source, InPlay
<1>3. \A t \in Tokens : \/ rows'[t] = rows[t] \/ rows'[t].status = "none"
                        \/ Born(t) /\ rows'[t].session.created = born[t]
  BY DEF IInv, Lifetime, RowsFit
<1>4. Lifetime'
  BY <1>1, <1>2, <1>3, LifetimeStep
<1>5. \A u \in Workers : Regroups(u) \/ Regroups(u)' => work'[u] = work[u]
  BY DEF Light, Regroups
<1>6. \A u \in Workers, t \in Tokens : Carries(u, t)' => work'[u] = work[u]
  BY DEF Light, Carries, Entering, Carrying
<1>7. \A t \in Tokens : rows'[t].status = "live" => rows'[t] = rows[t]
  OBVIOUS
<1>8. \A t \in Tokens : Born(t) => Born(t)'
  BY DEF Born
<1>9. Finality' /\ Groups'
  BY <1>2, <1>5, <1>6, <1>7, <1>8, FlowStep
<1> QED  BY <1>4, <1>9 DEF IInv

(* The same, for a step of one worker.                                     *)
LEMMA ShedOne ==
    ASSUME IInv, NEW w \in Workers, NEW r \in Requests, work' = [work EXCEPT ![w] = r],
           RequestFits(r), Light(r), ~Regroups(w),
           now' \in Time, events' \in Nat, account' \in Accounts, accountRow' \in Accounts,
           sessions' \in [Tokens -> Sessions \cup {NoSession}],
           rows' \in [Tokens -> Rows \cup {NoRow}],
           born' = born, account'.grant = account.grant, astray' = astray,
           ended' \subseteq Tokens, \A t \in ended' : t \in ended \/ ~Lives(t)',
           \A t \in Tokens : sessions'[t] = sessions[t] \/ sessions'[t] = NoSession,
           \A t \in Tokens :
              \/ rows'[t] = rows[t] \/ rows'[t].status = "none"
              \/ /\ rows'[t].status = "revoked" /\ rows[t].status = "live" /\ Born(t)
                 /\ rows'[t].session = rows[t].session
    PROVE  IInv'
<1>1. /\ work' \in [Workers -> Requests]
      /\ \A u \in Workers : work'[u] = IF u = w THEN r ELSE work[u]
  BY WorkType DEF IInv
<1>2. Typed'
  BY <1>1 DEF IInv, Typed
<1>3. RequestFits(work[w])' /\ Light(work[w])'
  BY <1>1 DEF RequestFits, Light, Entering, Carrying, Born
<1>4. \A u \in Workers :
        work'[u] = work[u] \/ (RequestFits(work[u])' /\ Light(work[u])' /\ ~Regroups(u))
  BY <1>1, <1>3
<1> QED  BY <1>2, <1>4, ShedStep

(* Only the lock, the challenges, the clock or the sweep's own state.      *)
LEMMA QuietSteps ==
    ASSUME IInv, UNCHANGED <<account, accountRow, sessions, rows, work, born, ended, astray>>,
           now' \in Time, events' \in Nat
    PROVE  IInv'
<1>1. Typed'
  BY DEF IInv, Typed
<1> QED  BY <1>1, ShedStep

LEMMA SweepSteps ==
    ASSUME IInv, SweepMaps \/ SweepRows
    PROVE  IInv'
<1>1. /\ UNCHANGED <<now, account, accountRow, work, born, ended, astray, events>>
  BY DEF SweepMaps, SweepRows, people, history
<1>2. CASE SweepMaps
  <2>1. /\ sessions' \in [Tokens -> Sessions \cup {NoSession}] /\ rows' = rows
        /\ \A t \in Tokens : sessions'[t] = sessions[t] \/ sessions'[t] = NoSession
    BY <1>2 DEF SweepMaps, IInv, Typed
  <2>2. Typed'
    BY <1>1, <2>1 DEF IInv, Typed
  <2> QED  BY <1>1, <2>1, <2>2, ShedStep
<1>3. CASE SweepRows
  <2>1. /\ rows' \in [Tokens -> Rows \cup {NoRow}] /\ sessions' = sessions
        /\ \A t \in Tokens : rows'[t] = rows[t] \/ rows'[t] = NoRow
    BY <1>3 DEF SweepRows, Swept, IInv, Typed
  <2>2. Typed' /\ NoRow.status = "none"
    BY <1>1, <2>1 DEF IInv, Typed, NoRow
  <2> QED  BY <1>1, <2>1, <2>2, ShedStep
<1> QED  BY <1>2, <1>3

-----------------------------------------------------------------------------
(* Requests without a session of their own.                                *)

LEMMA FreshFits ==
    ASSUME NEW r \in Requests, r.token = NoToken, r.stage \in {"idle", "verified", "killing"}
    PROVE  RequestFits(r) /\ Light(r)
BY Numbers DEF RequestFits, Light, Entering, Carrying

LEMMA KillerFits ==
    /\ [Idle EXCEPT !.stage = "killing"] \in Requests
    /\ [Idle EXCEPT !.stage = "killing"].token = NoToken
    /\ [Idle EXCEPT !.stage = "killing"].stage = "killing"
BY IdleFits DEF Idle, Requests, Stages

LEMMA Unchanged ==
    ASSUME IInv
    PROVE  /\ now \in Time /\ events \in Nat /\ account \in Accounts /\ accountRow \in Accounts
           /\ sessions \in [Tokens -> Sessions \cup {NoSession}]
           /\ rows \in [Tokens -> Rows \cup {NoRow}]
           /\ ended \subseteq Tokens /\ work \in [Workers -> Requests]
BY DEF IInv, Typed

LEMMA LoginSteps ==
    ASSUME IInv, NEW w \in Workers,
           LoginRefused(w) \/ \E p \in Preauths, c \in Captchas : CheckCaptcha(w, p, c)
    PROVE  IInv'
<1>1. UNCHANGED <<now, account, accountRow, sessions, rows, born, ended, astray, events>>
  BY DEF LoginRefused, CheckCaptcha, people, history
<1>2. ~Regroups(w)
  BY IdleFits DEF LoginRefused, CheckCaptcha, Regroups
<1>3. PICK r \in Requests : /\ work' = [work EXCEPT ![w] = r] /\ r.token = NoToken
                            /\ r.stage \in {"idle", "verified"}
  <2>1. CASE LoginRefused(w)
    BY <2>1, IdleFits DEF LoginRefused, Idle
  <2>2. ASSUME NEW p \in Preauths, NEW c \in Captchas, CheckCaptcha(w, p, c)
        PROVE  \E r \in Requests : /\ work' = [work EXCEPT ![w] = r] /\ r.token = NoToken
                                   /\ r.stage \in {"idle", "verified"}
    <3>1. PICK r : r = [Idle EXCEPT !.stage = "verified", !.preauth = p]
      OBVIOUS
    <3>2. r \in Requests /\ r.token = NoToken /\ r.stage = "verified"
      BY <3>1, IdleFits DEF Idle, Requests, Stages
    <3> QED  BY <2>2, <3>1, <3>2 DEF CheckCaptcha
  <2> QED  BY <2>1, <2>2
<1> QED  BY <1>1, <1>2, <1>3, FreshFits, Unchanged, ShedOne

LEMMA RespondStep ==
    ASSUME IInv, NEW w \in Workers, Respond(w)
    PROVE  IInv'
<1>1. UNCHANGED <<now, account, accountRow, sessions, rows, born, ended, astray, events>>
  BY DEF Respond, people, history
<1>2. ~Regroups(w) /\ work' = [work EXCEPT ![w] = Idle] /\ Light(Idle)
  BY IdleFits DEF Respond, Regroups, Light
<1> QED  BY <1>1, <1>2, IdleFits, Unchanged, ShedOne

-----------------------------------------------------------------------------
(* The end of sessions                                                     *)

LEMMA RevokerFits ==
    ASSUME NEW r \in Requests, r.stage = "revoking", r.token \in Tokens => Born(r.token),
           \A t \in r.todo : t \in Tokens /\ Born(t)
    PROVE  RequestFits(r) /\ Light(r)
BY DEF RequestFits, Light, Entering, Carrying

LEMMA AcceptedFacts ==
    ASSUME IInv, NEW w \in Workers, work[w].stage = "accepted"
    PROVE  work[w].token \in Tokens /\ Born(work[w].token)
BY DEF IInv, Lifetime, RequestsFit, RequestFits, Entering, Carrying

LEMMA LogoutStep ==
    ASSUME IInv, NEW w \in Workers, Logout(w)
    PROVE  IInv'
<1>1. PICK t \in Tokens : t = work[w].token /\ Born(t)
  BY AcceptedFacts DEF Logout
<1>2. UNCHANGED <<now, account, accountRow, rows, born, ended, astray, events>>
  BY DEF Logout, people, history
<1>3. PICK r : r = [Idle EXCEPT !.stage = "revoking", !.todo = {t}]
  OBVIOUS
<1>4. r \in Requests /\ r.stage = "revoking" /\ r.token = NoToken /\ r.todo = {t}
  BY <1>3, IdleFits DEF Idle, Requests, Stages
<1>5. RequestFits(r) /\ Light(r)
  BY <1>1, <1>4, Numbers, RevokerFits
<1>6. work' = [work EXCEPT ![w] = r] /\ ~Regroups(w)
  BY <1>1, <1>3 DEF Logout, Regroups
<1>7. /\ sessions' \in [Tokens -> Sessions \cup {NoSession}]
      /\ \A u \in Tokens : sessions'[u] = sessions[u] \/ sessions'[u] = NoSession
  BY <1>1, Unchanged DEF Logout
<1> QED  BY <1>2, <1>4, <1>5, <1>6, <1>7, Unchanged, ShedOne

LEMMA KillStep ==
    ASSUME IInv, NEW w \in Workers, KillSessions(w)
    PROVE  IInv'
<1>1. PICK V \in SUBSET Tokens : V = {t \in Tokens : sessions[t] # NoSession /\ t # work[w].token}
  OBVIOUS
<1>2. \A t \in V : t \in Tokens /\ Born(t)
  BY <1>1 DEF IInv, Lifetime, SessionsFit
<1>3. UNCHANGED <<now, account, accountRow, rows, born, ended, astray, events>>
  BY DEF KillSessions, people, history
<1>4. PICK r : r = IF V = {} THEN Idle ELSE [Idle EXCEPT !.stage = "revoking", !.todo = V]
  OBVIOUS
<1>5. r \in Requests /\ RequestFits(r) /\ Light(r)
  <2>1. CASE V = {}
    BY <1>4, <2>1, IdleFits DEF Light
  <2>2. CASE V # {}
    <3>1. r \in Requests /\ r.stage = "revoking" /\ r.token = NoToken /\ r.todo = V
      BY <1>4, <2>2, IdleFits DEF Idle, Requests, Stages
    <3> QED  BY <1>2, <3>1, Numbers, RevokerFits
  <2> QED  BY <2>1, <2>2
<1>6. work' = [work EXCEPT ![w] = r] /\ ~Regroups(w)
  BY <1>1, <1>4 DEF KillSessions, Regroups
<1>7. /\ sessions' \in [Tokens -> Sessions \cup {NoSession}]
      /\ \A u \in Tokens : sessions'[u] = sessions[u] \/ sessions'[u] = NoSession
  BY Unchanged DEF KillSessions
<1> QED  BY <1>3, <1>5, <1>6, <1>7, Unchanged, ShedOne

LEMMA RevokeStep ==
    ASSUME IInv, NEW w \in Workers, NEW t \in Tokens, NEW o, RevokeSession(w, t, o)
    PROVE  IInv'
<1>1. work[w].stage = "revoking" /\ t \in work[w].todo /\ Born(t) /\ work[w] \in Requests
  BY Unchanged DEF RevokeSession, IInv, Lifetime, RequestsFit, RequestFits
<1>2. UNCHANGED <<now, account, accountRow, sessions, born, astray>>
  BY DEF RevokeSession, people
<1>3. events' \in Nat
  BY Unchanged DEF RevokeSession, Count
<1>4. PICK r : r = IF work[w].todo = {t} THEN Idle ELSE [work[w] EXCEPT !.todo = work[w].todo \ {t}]
  OBVIOUS
<1>5. r \in Requests /\ RequestFits(r) /\ Light(r)
  <2>1. CASE work[w].todo = {t}
    BY <1>4, <2>1, IdleFits DEF Light
  <2>2. CASE work[w].todo # {t}
    <3>1. /\ r \in Requests /\ r.stage = "revoking" /\ r.token = work[w].token
          /\ r.todo = work[w].todo \ {t}
      BY <1>1, <1>4, <2>2 DEF Requests
    <3>2. work[w].token \in Tokens => Born(work[w].token)
      BY <1>1 DEF IInv, Lifetime, RequestsFit, RequestFits, Entering
    <3>3. \A u \in work[w].todo : u \in Tokens /\ Born(u)
      BY <1>1 DEF IInv, Lifetime, RequestsFit, RequestFits
    <3> QED  BY <3>1, <3>2, <3>3, RevokerFits
  <2> QED  BY <2>1, <2>2
<1>6. work' = [work EXCEPT ![w] = r] /\ ~Regroups(w)
  <2>1. work' = [work EXCEPT ![w] = IF work[w].todo = {t} THEN Idle
                                    ELSE [work[w] EXCEPT !.todo = work[w].todo \ {t}]]
    BY DEF RevokeSession
  <2> QED  BY <1>1, <1>4, <2>1 DEF Regroups
<1>7. /\ rows' \in [Tokens -> Rows \cup {NoRow}]
      /\ \A u \in Tokens :
          \/ rows'[u] = rows[u]
          \/ /\ rows'[u].status = "revoked" /\ rows[u].status = "live" /\ Born(u)
             /\ rows'[u].session = rows[u].session
  <2>1. CASE rows' = rows
    BY <2>1, Unchanged
  <2>2. CASE rows[t].status = "live" /\ rows' = [rows EXCEPT ![t].status = "revoked"]
    <3>1. rows[t] \in Rows
      BY <2>2, RowFacts DEF IInv
    <3>2. PICK x : x = [rows[t] EXCEPT !.status = "revoked"]
      OBVIOUS
    <3>3. x \in Rows /\ x.status = "revoked" /\ x.session = rows[t].session
      BY <3>1, <3>2 DEF Rows
    <3>4. rows' = [rows EXCEPT ![t] = x]
      BY <2>2, <3>2
    <3> QED  BY <1>1, <2>2, <3>3, <3>4, Unchanged
  <2> QED  BY <2>1, <2>2 DEF RevokeSession, Revoked
<1>8. ended' \subseteq Tokens
  BY Unchanged DEF RevokeSession
<1>9. ASSUME NEW u \in ended', u \notin ended PROVE ~Lives(u)'
  <2>1. /\ u = t /\ Applied(o) /\ sessions[t] = NoSession
        /\ \A v \in Workers : ~Holds(v, t)
    BY <1>9 DEF RevokeSession
  <2>2. rows'[t].status # "live"
    BY <2>1, <1>7, Unchanged, RowFacts DEF RevokeSession, Revoked, IInv
  <2>3. \A v \in Workers : work'[v] = IF v = w THEN r ELSE work[v]
    BY <1>5, <1>6, WorkType DEF IInv
  <2>4. \A v \in Workers : ~Carries(v, t)'
    BY <1>5, <2>1, <2>3 DEF Carries, Holds, Light, Entering, Carrying
  <2>5. ~Pending(t)'
    BY <1>5, <2>1, <2>3 DEF Pending, Holds, Light
  <2>6. \A g \in AllGrants : ~InPlay(t, g)' /\ ~Stored(t, g)'
    BY <1>2, <2>1, <2>2, <2>4 DEF InPlay, Stored
  <2>7. Born(t)'
    BY <1>1, <1>2 DEF Born
  <2> QED  BY <2>1, <2>5, <2>6, <2>7 DEF Lives
<1> QED  BY <1>2, <1>3, <1>5, <1>6, <1>7, <1>8, <1>9, Unchanged, ShedOne

-----------------------------------------------------------------------------
(* Passwords and the deletion of the account                               *)

LEMMA SavePasswordFacts ==
    ASSUME IInv, NEW w \in Workers, NEW o, NEW k \in Requests, SavePassword(w, o, k)
    PROVE  /\ account' \in Accounts /\ account'.grant = account.grant
           /\ accountRow' \in Accounts /\ events' \in Nat
           /\ work' = [work EXCEPT ![w] = k] \/ work' = [work EXCEPT ![w] = Idle]
<1>1. /\ account' = [account EXCEPT !.password = events + 1] /\ events' = events + 1
      /\ accountRow' = account' \/ accountRow' = accountRow
  BY DEF SavePassword
<1>2. account' \in Accounts /\ account'.grant = account.grant
  BY <1>1, Unchanged DEF Accounts
<1>3. accountRow' \in Accounts /\ events' \in Nat
  BY <1>1, <1>2, Unchanged
<1>4. work' = [work EXCEPT ![w] = k] \/ work' = [work EXCEPT ![w] = Idle]
  BY DEF SavePassword
<1> QED  BY <1>2, <1>3, <1>4

LEMMA PasswordSteps ==
    ASSUME IInv, NEW w \in Workers, NEW o, ChangePassword(w, o) \/ ResetPassword(w, o)
    PROVE  IInv'
<1>1. PICK k \in Requests : SavePassword(w, o, k) /\ RequestFits(k) /\ Light(k)
  <2>1. CASE ChangePassword(w, o)
    <3>1. work[w].token \in Tokens /\ Born(work[w].token)
      BY <2>1, AcceptedFacts DEF ChangePassword
    <3>2. PICK k : k = [Idle EXCEPT !.stage = "killing", !.token = work[w].token]
      OBVIOUS
    <3>3. k \in Requests /\ k.stage = "killing" /\ k.token = work[w].token
      BY <3>1, <3>2, IdleFits DEF Idle, Requests, Stages
    <3>4. RequestFits(k) /\ Light(k)
      BY <3>1, <3>3 DEF RequestFits, Light, Entering, Carrying
    <3> QED  BY <2>1, <3>2, <3>3, <3>4 DEF ChangePassword
  <2>2. CASE ResetPassword(w, o)
    BY <2>2, KillerFits, FreshFits DEF ResetPassword
  <2> QED  BY <2>1, <2>2
<1>2. UNCHANGED <<now, sessions, rows, born, ended, astray>> /\ ~Regroups(w)
  BY IdleFits DEF ChangePassword, ResetPassword, history, Regroups
<1>3. /\ account' \in Accounts /\ account'.grant = account.grant
      /\ accountRow' \in Accounts /\ events' \in Nat
      /\ work' = [work EXCEPT ![w] = k] \/ work' = [work EXCEPT ![w] = Idle]
  BY <1>1, SavePasswordFacts
<1>4. Light(Idle)
  BY IdleFits DEF Light
<1>5. CASE work' = [work EXCEPT ![w] = k]
  BY <1>1, <1>2, <1>3, <1>5, Unchanged, ShedOne
<1>6. CASE work' = [work EXCEPT ![w] = Idle]
  BY <1>2, <1>3, <1>4, <1>6, IdleFits, Unchanged, ShedOne
<1> QED  BY <1>3, <1>5, <1>6

LEMMA DeleteUserStep ==
    ASSUME IInv, NEW w \in Workers, NEW o, DeleteUser(w, o)
    PROVE  IInv'
<1>1. UNCHANGED <<now, sessions, born, ended, astray>> /\ work[w] = Idle /\ events' \in Nat
  BY Unchanged DEF DeleteUser, history
<1>2. accountRow' \in Accounts /\ account' \in Accounts /\ account'.grant = account.grant
  BY Unchanged DEF DeleteUser, Accounts
<1>3. /\ rows' \in [Tokens -> Rows \cup {NoRow}]
      /\ \A t \in Tokens : rows'[t] = rows[t] \/ rows'[t].status = "none"
  BY Unchanged DEF DeleteUser, NoRow
<1>4. PICK r \in Requests : /\ work' = [work EXCEPT ![w] = r] /\ r.token = NoToken
                            /\ r.stage \in {"idle", "killing"}
  <2>1. CASE o = "ok"
    BY <2>1, KillerFits DEF DeleteUser
  <2>2. CASE o # "ok"
    <3>1. work' = [work EXCEPT ![w] = Idle]
      BY <1>1, <2>2, Unchanged DEF DeleteUser
    <3> QED  BY <3>1, IdleFits DEF Idle
  <2> QED  BY <2>1, <2>2
<1>5. RequestFits(r) /\ Light(r) /\ ~Regroups(w)
  BY <1>1, <1>4, FreshFits, IdleFits DEF Regroups
<1> QED  BY <1>1, <1>2, <1>3, <1>4, <1>5, Unchanged, ShedOne

-----------------------------------------------------------------------------
(* Requests with a session: one worker gets, writes or puts back a copy    *)

LEMMA CarryOne ==
    ASSUME IInv, NEW w \in Workers, NEW r \in Requests, work' = [work EXCEPT ![w] = r],
           RequestFits(r), ~Entering(r), ~Regroups(w), r.stage \notin {"refreshing", "resaving"},
           now' \in Time, events' \in Nat, UNCHANGED <<account, accountRow, born, ended>>,
           sessions' \in [Tokens -> Sessions \cup {NoSession}],
           rows' \in [Tokens -> Rows \cup {NoRow}],
           astray \subseteq astray', astray' \subseteq Tokens,
           \A t \in Tokens : sessions'[t] # NoSession =>
              Born(t) /\ sessions'[t].created = born[t] /\ Source(t, sessions'[t].grant),
           Carrying(r) => Source(r.token, r.copy.grant),
           \A t \in Tokens :
              \/ rows'[t] = rows[t]
              \/ /\ Born(t) /\ rows'[t].session.created = born[t]
                 /\ InPlay(t, rows'[t].session.grant)
    PROVE  IInv'
<1>1. /\ work' \in [Workers -> Requests]
      /\ \A u \in Workers : work'[u] = IF u = w THEN r ELSE work[u]
  BY WorkType DEF IInv
<1>2. Typed'
  BY <1>1 DEF IInv, Typed
<1>3. RequestFits(work[w])' /\ ~Entering(work[w])'
  BY <1>1 DEF RequestFits, Entering, Carrying, Born
<1>4. \A u \in Workers : work'[u] = work[u] \/ (RequestFits(work[u])' /\ ~Entering(work[u])')
  BY <1>1, <1>3
<1>5. Lifetime'
  BY <1>4, LifetimeStep
<1>6. \A u \in Workers : Regroups(u) \/ Regroups(u)' => work'[u] = work[u]
  BY <1>1 DEF Regroups
<1>7. \A u \in Workers, t \in Tokens :
        Carries(u, t)' => work'[u] = work[u] \/ Source(t, work'[u].copy.grant)
  <2> SUFFICES ASSUME NEW u \in Workers, NEW t \in Tokens, Carries(u, t)', u = w
               PROVE  Source(t, r.copy.grant)
    BY <1>1
  <2> QED  BY <1>1 DEF Carries, Entering, Carrying
<1>8. \A t \in Tokens : Born(t) => Born(t)'
  BY DEF Born
<1>9. Finality' /\ Groups'
  BY <1>6, <1>7, <1>8, FlowStep
<1> QED  BY <1>2, <1>5, <1>9 DEF IInv

LEMMA InMap ==
    ASSUME IInv, NEW t \in Tokens, sessions[t] # NoSession
    PROVE  /\ sessions[t] \in Sessions /\ Born(t) /\ sessions[t].created = born[t]
           /\ born[t] \in Time /\ InPlay(t, sessions[t].grant) /\ Source(t, sessions[t].grant)
<1>1. sessions[t] \in Sessions /\ Born(t) /\ sessions[t].created = born[t]
  BY RowFacts DEF IInv, Lifetime, SessionsFit
<1> QED  BY <1>1, SessionFacts DEF InPlay, Source

LEMMA RequestStep ==
    ASSUME IInv, NEW w \in Workers, NEW t \in Tokens, NEW snapshot \in BOOLEAN,
           Request(w, t, snapshot)
    PROVE  IInv'
<1>1. /\ UNCHANGED <<now, account, accountRow, rows, born, ended, astray, events>>
      /\ Born(t) /\ ~Regroups(w)
  BY IdleFits DEF Request, people, history, Born, Regroups
<1>2. PICK a : a = [Idle EXCEPT !.token = t, !.snapshot = snapshot]
  OBVIOUS
<1>3. a \in Requests /\ a.token = t
  BY <1>2, IdleFits DEF Idle, Requests
<1>4. CASE /\ sessions[t] = NoSession /\ sessions' = sessions
           /\ work' = [work EXCEPT ![w] = [a EXCEPT !.stage = "restoring"]]
  <2>1. PICK r : r = [a EXCEPT !.stage = "restoring"]
    OBVIOUS
  <2>2. r \in Requests /\ r.token = t /\ r.stage = "restoring"
    BY <1>3, <2>1 DEF Requests, Stages
  <2>3. RequestFits(r) /\ Light(r)
    BY <1>1, <2>2 DEF RequestFits, Light, Entering, Carrying
  <2> QED  BY <1>1, <1>4, <2>1, <2>2, <2>3, Unchanged, ShedOne
<1>5. CASE /\ sessions' = [sessions EXCEPT ![t] = NoSession]
           /\ work' = [work EXCEPT ![w] = [a EXCEPT !.stage = "revoking", !.todo = {t}]]
  <2>1. PICK r : r = [a EXCEPT !.stage = "revoking", !.todo = {t}]
    OBVIOUS
  <2>2. r \in Requests /\ r.token = t /\ r.stage = "revoking" /\ r.todo = {t}
    BY <1>3, <2>1 DEF Requests, Stages
  <2>3. RequestFits(r) /\ Light(r)
    BY <1>1, <2>2, RevokerFits
  <2>4. /\ sessions' \in [Tokens -> Sessions \cup {NoSession}]
        /\ \A u \in Tokens : sessions'[u] = sessions[u] \/ sessions'[u] = NoSession
    BY <1>5, Unchanged
  <2> QED  BY <1>1, <1>5, <2>1, <2>2, <2>3, <2>4, Unchanged, ShedOne
<1>6. CASE /\ sessions[t] # NoSession /\ ~Expired(sessions[t])
           /\ sessions' = [sessions EXCEPT ![t].lastUse = now]
           /\ work' = [work EXCEPT ![w] = [a EXCEPT !.stage = "renewing", !.at = now,
                                           !.copy = [sessions[t] EXCEPT !.lastUse = now]]]
  <2>1. PICK s : s = [sessions[t] EXCEPT !.lastUse = now]
    OBVIOUS
  <2>2. s \in Sessions /\ s.grant = sessions[t].grant /\ s.created = born[t]
    BY <1>6, <2>1, InMap, SessionFacts, Unchanged
  <2>3. PICK r : r = [a EXCEPT !.stage = "renewing", !.at = now, !.copy = s]
    OBVIOUS
  <2>4. /\ r \in Requests /\ r.token = t /\ r.stage = "renewing" /\ r.at = now /\ r.copy = s
    BY <1>3, <2>2, <2>3, Unchanged DEF Requests, Stages
  <2>5. now - born[t] <= AbsTtl
    BY <1>6, InMap, Unchanged, Numbers DEF Expired
  <2>6. RequestFits(r)
    BY <1>1, <2>2, <2>4, <2>5 DEF RequestFits, Entering, Carrying
  <2>7. sessions' = [sessions EXCEPT ![t] = s] /\ work' = [work EXCEPT ![w] = r]
    BY <1>6, <2>1, <2>3
  <2>8. sessions' \in [Tokens -> Sessions \cup {NoSession}]
    BY <2>2, <2>7, Unchanged
  <2>9. \A u \in Tokens : sessions'[u] # NoSession =>
           Born(u) /\ sessions'[u].created = born[u] /\ Source(u, sessions'[u].grant)
    <3> SUFFICES ASSUME NEW u \in Tokens, sessions'[u] # NoSession
                 PROVE  Born(u) /\ sessions'[u].created = born[u] /\ Source(u, sessions'[u].grant)
      OBVIOUS
    <3>1. CASE u = t
      BY <1>1, <1>6, <2>2, <2>7, <3>1, InMap, Unchanged
    <3>2. CASE u # t
      BY <2>7, <3>2, InMap, Unchanged
    <3> QED  BY <3>1, <3>2
  <2>10. Source(r.token, r.copy.grant)
    BY <1>6, <2>2, <2>4, InMap
  <2>11. ~Entering(r) /\ r.stage \notin {"refreshing", "resaving"} /\ astray \subseteq Tokens
    BY <2>4 DEF Entering, IInv, Typed
  <2> QED  BY <1>1, <2>4, <2>6, <2>7, <2>8, <2>9, <2>10, <2>11, Unchanged, CarryOne
<1>7. CASE /\ sessions[t] # NoSession /\ ~Expired(sessions[t]) /\ sessions' = sessions
           /\ work' = [work EXCEPT ![w] = [a EXCEPT !.stage = "accepted", !.at = now]]
  <2>1. PICK r : r = [a EXCEPT !.stage = "accepted", !.at = now]
    OBVIOUS
  <2>2. r \in Requests /\ r.token = t /\ r.stage = "accepted" /\ r.at = now
    BY <1>3, <2>1, Unchanged DEF Requests, Stages
  <2>3. now - born[t] <= AbsTtl
    BY <1>7, InMap, Unchanged, Numbers DEF Expired
  <2>4. RequestFits(r) /\ Light(r)
    BY <1>1, <2>2, <2>3 DEF RequestFits, Light, Entering, Carrying
  <2> QED  BY <1>1, <1>7, <2>1, <2>2, <2>4, Unchanged, ShedOne
<1> QED  BY <1>2, <1>4, <1>5, <1>6, <1>7 DEF Request

(* What a worker carries belongs to its session.                           *)
LEMMA CarryFacts ==
    ASSUME IInv, NEW w \in Workers, Carrying(work[w])
    PROVE  /\ work[w] \in Requests /\ work[w].token \in Tokens /\ Born(work[w].token)
           /\ work[w].copy \in Sessions /\ work[w].copy.created = born[work[w].token]
           /\ work[w].at - born[work[w].token] <= AbsTtl
           /\ InPlay(work[w].token, work[w].copy.grant)
           /\ Source(work[w].token, work[w].copy.grant)
           /\ ~Regroups(w)
<1>1. /\ work[w] \in Requests /\ work[w].token \in Tokens /\ Born(work[w].token)
      /\ work[w].copy \in Sessions /\ work[w].copy.created = born[work[w].token]
      /\ work[w].at - born[work[w].token] <= AbsTtl
  BY Unchanged DEF IInv, Lifetime, RequestsFit, RequestFits, Carrying, Entering
<1> QED  BY <1>1 DEF InPlay, Source, Carries, Regroups, Carrying

(* The row persistSession leaves belongs to the same session.              *)
LEMMA PersistedFacts ==
    ASSUME IInv, NEW t \in Tokens, Born(t), NEW s \in Sessions, s.created = born[t],
           Persistable(t)
    PROVE  /\ Persisted(t, s) \in Rows
           /\ Persisted(t, s).session.created = born[t]
           /\ Persisted(t, s).session.grant = s.grant
           /\ Persisted(t, s).status = "live"
<1>1. PICK p : p = IF rows[t].status = "live" THEN [s EXCEPT !.created = rows[t].session.created] ELSE s
  OBVIOUS
<1>2. p \in Sessions /\ p.created = born[t] /\ p.grant = s.grant
  <2>1. CASE rows[t].status = "live"
    <3>1. rows[t].session \in Sessions /\ rows[t].session.created = born[t]
      BY <2>1, RowFacts DEF IInv, Lifetime, RowsFit
    <3> QED  BY <1>1, <2>1, <3>1, SessionFacts
  <2>2. CASE rows[t].status # "live"
    BY <1>1, <2>2
  <2> QED  BY <2>1, <2>2
<1>3. Persisted(t, s) = [status |-> "live", session |-> p]
  BY <1>1 DEF Persisted
<1> QED  BY <1>2, <1>3 DEF Rows

LEMMA PersistStep ==
    ASSUME IInv, NEW w \in Workers, NEW o, NEW next \in Requests, Persist(w, o, next),
           Carrying(work[w]), RequestFits(next), ~Entering(next),
           next.stage \notin {"refreshing", "resaving"},
           Carrying(next) => next.token = work[w].token /\ next.copy = work[w].copy
    PROVE  IInv'
<1>1. PICK t \in Tokens : t = work[w].token
  BY CarryFacts
<1>2. /\ UNCHANGED <<now, account, accountRow, sessions, born, ended, astray>>
      /\ events' \in Nat /\ astray \subseteq Tokens
  BY Unchanged DEF Persist, people, history, Count, IInv, Typed
<1>3. PICK r \in Requests :
         /\ work' = [work EXCEPT ![w] = r] /\ r \in {next, Idle}
  BY IdleFits DEF Persist
<1>4. /\ RequestFits(r) /\ ~Entering(r) /\ r.stage \notin {"refreshing", "resaving"}
      /\ Carrying(r) => Source(r.token, r.copy.grant)
  BY <1>3, IdleFits, CarryFacts DEF Entering, Carrying
<1>5. \/ rows' = rows
      \/ /\ Persistable(t)
         /\ rows' = [rows EXCEPT ![t] = Persisted(t, work[w].copy)]
  BY <1>1 DEF Persist
<1>6. /\ rows' \in [Tokens -> Rows \cup {NoRow}]
      /\ \A u \in Tokens :
            \/ rows'[u] = rows[u]
            \/ /\ Born(u) /\ rows'[u].session.created = born[u]
               /\ InPlay(u, rows'[u].session.grant)
  <2>1. CASE rows' = rows
    BY <2>1, Unchanged
  <2>2. CASE Persistable(t) /\ rows' = [rows EXCEPT ![t] = Persisted(t, work[w].copy)]
    <3>1. PICK p : p = Persisted(t, work[w].copy)
      OBVIOUS
    <3>2. p \in Rows /\ p.session.created = born[t] /\ InPlay(t, p.session.grant) /\ Born(t)
      BY <1>1, <2>2, <3>1, CarryFacts, PersistedFacts
    <3>3. rows' = [rows EXCEPT ![t] = p]
      BY <2>2, <3>1
    <3> QED  BY <3>2, <3>3, Unchanged
  <2> QED  BY <1>5, <2>1, <2>2
<1>7. \A u \in Tokens : sessions'[u] # NoSession =>
         Born(u) /\ sessions'[u].created = born[u] /\ Source(u, sessions'[u].grant)
  BY <1>2, InMap
<1> QED  BY <1>2, <1>3, <1>4, <1>6, <1>7, CarryFacts, Unchanged, CarryOne

LEMMA AcceptedFits ==
    ASSUME IInv, NEW w \in Workers, Carrying(work[w])
    PROVE  /\ Accepted(w) \in Requests /\ Accepted(w).stage = "accepted" /\ RequestFits(Accepted(w))
<1>1. PICK r : r = Accepted(w)
  OBVIOUS
<1>2. /\ r \in Requests /\ r.stage = "accepted" /\ r.token = work[w].token /\ r.at = work[w].at
  BY <1>1, CarryFacts DEF Accepted, Requests, Stages
<1>3. RequestFits(r)
  BY <1>2, CarryFacts DEF RequestFits, Entering, Carrying
<1> QED  BY <1>1, <1>2, <1>3

LEMMA RenewSteps ==
    ASSUME IInv, NEW w \in Workers, NEW o, RenewSession(w, o) \/ PersistRestored(w, o)
    PROVE  IInv'
<1>1. Carrying(work[w])
  BY DEF RenewSession, PersistRestored, Carrying
<1>2. CASE RenewSession(w, o)
  <2>1. /\ Accepted(w) \in Requests /\ RequestFits(Accepted(w)) /\ ~Entering(Accepted(w))
        /\ ~Carrying(Accepted(w)) /\ Accepted(w).stage \notin {"refreshing", "resaving"}
    BY <1>1, AcceptedFits DEF Entering, Carrying
  <2> QED  BY <1>1, <1>2, <2>1, PersistStep DEF RenewSession
<1>3. CASE PersistRestored(w, o)
  <2>1. PICK r : r = [work[w] EXCEPT !.stage = "putting"]
    OBVIOUS
  <2>2. /\ r \in Requests /\ r.stage = "putting" /\ r.token = work[w].token
        /\ r.at = work[w].at /\ r.copy = work[w].copy
    BY <1>1, <2>1, CarryFacts DEF Requests, Stages
  <2>3. RequestFits(r) /\ ~Entering(r) /\ r.stage \notin {"refreshing", "resaving"}
    BY <1>1, <2>2, CarryFacts DEF RequestFits, Entering, Carrying
  <2> QED  BY <1>1, <1>3, <2>1, <2>2, <2>3, PersistStep DEF PersistRestored
<1> QED  BY <1>2, <1>3

LEMMA RestoreStep ==
    ASSUME IInv, NEW w \in Workers, RestoreSession(w)
    PROVE  IInv'
<1>1. /\ UNCHANGED <<now, account, accountRow, sessions, rows, born, ended, events>>
      /\ work[w].stage = "restoring" /\ ~Regroups(w) /\ work[w] \in Requests
  BY Unchanged DEF RestoreSession, people, Regroups
<1>2. PICK t \in Tokens : t = work[w].token /\ Born(t)
  BY <1>1 DEF IInv, Lifetime, RequestsFit, RequestFits, Entering, Carrying
<1>3. /\ astray \subseteq astray' /\ astray' \subseteq Tokens /\ (Regrouping => t \in astray')
  BY <1>2 DEF RestoreSession, IInv, Typed
<1>4. \A u \in Tokens : sessions'[u] # NoSession =>
         Born(u) /\ sessions'[u].created = born[u] /\ Source(u, sessions'[u].grant)
  BY <1>1, InMap
<1>5. PICK r \in Requests :
         /\ work' = [work EXCEPT ![w] = r] /\ RequestFits(r)
         /\ r.stage \in {"idle", "putting", "restored"}
         /\ Carrying(r) => Source(r.token, r.copy.grant)
  <2>1. CASE ~Restorable(t)
    <3>1. work' = [work EXCEPT ![w] = Idle]
      BY <1>2, <2>1 DEF RestoreSession
    <3> QED  BY <3>1, IdleFits DEF Carrying
  <2>2. CASE Restorable(t)
    <3>1. PICK s : s = rows[t].session
      OBVIOUS
    <3>2. /\ s \in Sessions /\ s.created = born[t] /\ Stored(t, s.grant)
          /\ now - born[t] <= AbsTtl
      <4>1. s \in Sessions /\ s.created = born[t] /\ Stored(t, s.grant)
        BY <1>2, <2>2, <3>1, RowFacts DEF Restorable, IInv, Lifetime, RowsFit, Stored
      <4>2. now - s.created < AbsTtl /\ now \in Int /\ s.created \in Int
        BY <2>2, <3>1, <4>1, SessionFacts, Numbers, Unchanged DEF Restorable
      <4> QED  BY <4>1, <4>2, Numbers
    <3>3. Source(t, s.grant)
      BY <1>3, <3>2 DEF Source
    <3>4. CASE work[w].snapshot
      <4>1. PICK r : r = [work[w] EXCEPT !.stage = "putting", !.at = now, !.copy = s]
        OBVIOUS
      <4>2. /\ r \in Requests /\ r.stage = "putting" /\ r.at = now /\ r.copy = s /\ r.token = t
        BY <1>1, <1>2, <3>2, <4>1, Unchanged DEF Requests, Stages
      <4>3. RequestFits(r)
        BY <1>2, <3>2, <4>2 DEF RequestFits, Entering, Carrying
      <4>4. work' = [work EXCEPT ![w] = r]
        BY <1>2, <2>2, <3>1, <3>4, <4>1 DEF RestoreSession
      <4> QED  BY <3>3, <4>2, <4>3, <4>4
    <3>5. CASE ~work[w].snapshot
      <4>1. PICK c : c = [s EXCEPT !.lastUse = now]
        OBVIOUS
      <4>2. c \in Sessions /\ c.grant = s.grant /\ c.created = born[t]
        BY <3>2, <4>1, SessionFacts, Unchanged
      <4>3. PICK r : r = [work[w] EXCEPT !.stage = "restored", !.at = now, !.copy = c]
        OBVIOUS
      <4>4. /\ r \in Requests /\ r.stage = "restored" /\ r.at = now /\ r.copy = c /\ r.token = t
        BY <1>1, <1>2, <4>2, <4>3, Unchanged DEF Requests, Stages
      <4>5. RequestFits(r)
        BY <1>2, <3>2, <4>2, <4>4 DEF RequestFits, Entering, Carrying
      <4>6. work' = [work EXCEPT ![w] = r]
        BY <1>2, <2>2, <3>1, <3>5, <4>1, <4>3 DEF RestoreSession
      <4> QED  BY <3>3, <4>2, <4>4, <4>5, <4>6
    <3> QED  BY <3>4, <3>5
  <2> QED  BY <2>1, <2>2
<1>6. ~Entering(r) /\ r.stage \notin {"refreshing", "resaving"}
  BY <1>5 DEF Entering
<1> QED  BY <1>1, <1>3, <1>4, <1>5, <1>6, Unchanged, CarryOne

LEMMA PutStep ==
    ASSUME IInv, NEW w \in Workers, PutSession(w)
    PROVE  IInv'
<1>1. /\ UNCHANGED <<now, account, accountRow, rows, born, ended, astray, events>>
      /\ Carrying(work[w]) /\ astray \subseteq Tokens
  BY DEF PutSession, people, history, Carrying, IInv, Typed
<1>2. PICK t \in Tokens : t = work[w].token
  BY <1>1, CarryFacts
<1>3. PICK s \in Sessions : s = work[w].copy /\ s.created = born[t] /\ Source(t, s.grant) /\ Born(t)
  BY <1>1, <1>2, CarryFacts
<1>4. sessions' = [sessions EXCEPT ![t] = s]
  BY <1>2, <1>3 DEF PutSession
<1>5. sessions' \in [Tokens -> Sessions \cup {NoSession}]
  BY <1>4, Unchanged
<1>6. \A u \in Tokens : sessions'[u] # NoSession =>
         Born(u) /\ sessions'[u].created = born[u] /\ Source(u, sessions'[u].grant)
  <2> SUFFICES ASSUME NEW u \in Tokens, sessions'[u] # NoSession
               PROVE  Born(u) /\ sessions'[u].created = born[u] /\ Source(u, sessions'[u].grant)
    OBVIOUS
  <2>1. CASE u = t
    BY <1>3, <1>4, <2>1, Unchanged
  <2>2. CASE u # t
    BY <1>4, <2>2, InMap, Unchanged
  <2> QED  BY <2>1, <2>2
<1>7. PICK r \in Requests : /\ r = Accepted(w) /\ r.stage = "accepted" /\ RequestFits(r)
  BY <1>1, AcceptedFits
<1>8. ~Entering(r) /\ ~Carrying(r) /\ r.stage \notin {"refreshing", "resaving"}
  BY <1>7 DEF Entering, Carrying
<1>9. work' = [work EXCEPT ![w] = r]
  BY <1>7 DEF PutSession
<1> QED  BY <1>1, <1>5, <1>6, <1>7, <1>8, <1>9, CarryFacts, Unchanged, CarryOne

-----------------------------------------------------------------------------
(* The login opens a session: nobody else has its token                    *)

LEMMA OpenOne ==
    ASSUME IInv, NEW w \in Workers, NEW r \in Requests, work' = [work EXCEPT ![w] = r],
           NEW t \in Tokens, ~Born(t), \A u \in Workers : u # w => work[u].token # t,
           RequestFits(r), r.token \in {t, NoToken}, ~Regroups(w), ~Carrying(r),
           r.stage \notin {"refreshing", "resaving"},
           events' \in Nat, UNCHANGED <<now, account, accountRow, sessions, born, ended, astray>>,
           rows' \in [Tokens -> Rows \cup {NoRow}],
           \A u \in Tokens : u # t => rows'[u] = rows[u],
           Entering(r) =>
              /\ r.token = t /\ Source(t, r.copy.grant)
              /\ rows'[t].status # "none" =>
                    r.stage = "entered" /\ rows'[t].session.created = r.at,
           rows'[t].status = "live" =>
              rows'[t] = rows[t] \/ InPlay(t, rows'[t].session.grant)
    PROVE  IInv'
<1>1. /\ work' \in [Workers -> Requests]
      /\ \A u \in Workers : work'[u] = IF u = w THEN r ELSE work[u]
  BY WorkType DEF IInv
<1>2. Typed'
  BY <1>1 DEF IInv, Typed
<1>3. \A u : Born(u)' <=> Born(u)
  BY DEF Born
<1>4. RequestsFit'
  <2>1. \A u \in Workers : u # w => RequestFits(work[u])'
    BY <1>1, <1>3 DEF IInv, Lifetime, RequestsFit, RequestFits, Entering, Carrying
  <2>2. RequestFits(work[w])'
    BY <1>1, <1>3 DEF RequestFits, Entering, Carrying
  <2> QED  BY <2>1, <2>2 DEF RequestsFit
<1>5. SessionsFit' /\ RowsFit'
  BY <1>3 DEF IInv, Lifetime, SessionsFit, RowsFit
<1>6. LoginsAlone'
  <2> SUFFICES ASSUME NEW v \in Workers, Entering(work[v])'
               PROVE  /\ \A u \in Workers : work'[u].token = work'[v].token => u = v
                      /\ rows'[work'[v].token].status # "none" =>
                            /\ work'[v].stage = "entered"
                            /\ rows'[work'[v].token].session.created = work'[v].at
    BY DEF LoginsAlone
  <2>1. CASE v = w
    <3>1. Entering(r) /\ r.token = t
      BY <1>1, <2>1 DEF Entering
    <3> QED  BY <1>1, <2>1, <3>1
  <2>2. CASE v # w
    <3>1. Entering(work[v]) /\ work'[v] = work[v]
      BY <1>1, <2>2 DEF Entering
    <3>2. work[v].token \in Tokens /\ work[v].token # t
      BY <2>2, <3>1 DEF IInv, Lifetime, RequestsFit, RequestFits
    <3>3. \A u \in Workers : work'[u].token = work[v].token => u = v
      BY <1>1, <3>1, <3>2, Numbers DEF IInv, Lifetime, LoginsAlone
    <3> QED  BY <3>1, <3>2, <3>3 DEF IInv, Lifetime, LoginsAlone
  <2> QED  BY <2>1, <2>2
<1>7. \A u \in Workers : Regroups(u) \/ Regroups(u)' => work'[u] = work[u]
  BY <1>1 DEF Regroups
<1>8. \A u \in Workers, k \in Tokens :
        Carries(u, k)' => work'[u] = work[u] \/ Source(k, work'[u].copy.grant)
  <2> SUFFICES ASSUME NEW u \in Workers, NEW k \in Tokens, Carries(u, k)', u = w
               PROVE  Source(k, r.copy.grant)
    BY <1>1
  <2> QED  BY <1>1 DEF Carries, Entering, Carrying
<1>9. \A k \in Tokens : sessions'[k] # NoSession => Source(k, sessions'[k].grant)
  BY InMap
<1>10. Finality' /\ Groups'
  BY <1>3, <1>7, <1>8, <1>9, FlowStep
<1> QED  BY <1>2, <1>4, <1>5, <1>6, <1>10 DEF IInv, Lifetime

LEMMA OpenStep ==
    ASSUME IInv, NEW w \in Workers, NEW t \in Tokens, OpenSession(w, t)
    PROVE  IInv'
<1>1. /\ UNCHANGED <<now, account, accountRow, sessions, rows, born, ended, astray, events>>
      /\ ~Born(t) /\ rows[t].status = "none" /\ work[w].stage = "verified" /\ ~Regroups(w)
      /\ \A u \in Workers : work[u].token # t
  BY DEF OpenSession, people, history, Born, NoRow, Regroups
<1>2. PICK c : c = [grant |-> account.grant, created |-> now, lastUse |-> now]
  OBVIOUS
<1>3. c \in Sessions /\ c.grant = account.grant /\ c.created = now
  BY <1>2, Unchanged DEF Sessions, Accounts, AllGrants
<1>4. PICK r : r = [work[w] EXCEPT !.stage = "entering", !.preauth = NoToken,
                                   !.token = t, !.at = now, !.copy = c]
  OBVIOUS
<1>5. /\ r \in Requests /\ r.stage = "entering" /\ r.token = t /\ r.at = now /\ r.copy = c
  BY <1>3, <1>4, Unchanged DEF Requests, Stages
<1>6. work' = [work EXCEPT ![w] = r]
  BY <1>2, <1>4, Unchanged DEF OpenSession
<1>7. RequestFits(r) /\ Entering(r) /\ ~Carrying(r)
  BY <1>1, <1>3, <1>5 DEF RequestFits, Entering, Carrying
<1>8. Source(t, r.copy.grant)
  BY <1>1, <1>3, <1>5 DEF Source
<1> QED  BY <1>1, <1>5, <1>6, <1>7, <1>8, Unchanged, OpenOne

(* What a login knows of its token.                                        *)
LEMMA LoginFacts ==
    ASSUME IInv, NEW w \in Workers, Entering(work[w])
    PROVE  /\ work[w] \in Requests /\ work[w].token \in Tokens /\ ~Born(work[w].token)
           /\ work[w].copy \in Sessions /\ work[w].copy.created = work[w].at
           /\ \A u \in Workers : work[u].token = work[w].token => u = w
           /\ InPlay(work[w].token, work[w].copy.grant)
           /\ Source(work[w].token, work[w].copy.grant)
           /\ ~Regroups(w)
<1>1. /\ work[w] \in Requests /\ work[w].token \in Tokens /\ ~Born(work[w].token)
      /\ work[w].copy \in Sessions /\ work[w].copy.created = work[w].at
      /\ \A u \in Workers : work[u].token = work[w].token => u = w
  BY Unchanged DEF IInv, Lifetime, RequestsFit, RequestFits, LoginsAlone
<1> QED  BY <1>1 DEF InPlay, Source, Carries, Regroups, Entering

LEMMA EnterStep ==
    ASSUME IInv, NEW w \in Workers, NEW o, EnterSession(w, o)
    PROVE  IInv'
<1>1. work[w].stage = "entering" /\ Entering(work[w])
  BY DEF EnterSession, Entering
<1>2. PICK t \in Tokens : t = work[w].token /\ rows[t].status = "none"
  BY <1>1, LoginFacts DEF IInv, Lifetime, LoginsAlone
<1>3. /\ UNCHANGED <<now, account, accountRow, sessions, born, ended, astray>>
      /\ events' \in Nat
  BY Unchanged DEF EnterSession, Persist, people, history, Count
<1>4. PICK p : p = [status |-> "live", session |-> work[w].copy]
  OBVIOUS
<1>5. /\ p \in Rows /\ p.session = work[w].copy
  BY <1>1, <1>4, LoginFacts DEF Rows
<1>6. rows' = rows \/ rows' = [rows EXCEPT ![t] = p]
  BY <1>2, <1>4 DEF EnterSession, Persist, Persisted
<1>7. /\ rows' \in [Tokens -> Rows \cup {NoRow}]
      /\ \A u \in Tokens : u # t => rows'[u] = rows[u]
      /\ rows'[t] = rows[t] \/ rows'[t] = p
  BY <1>5, <1>6, Unchanged
<1>8. PICK r \in Requests :
         /\ work' = [work EXCEPT ![w] = r] /\ RequestFits(r)
         /\ \/ r = Idle
            \/ /\ r.stage = "entered" /\ r.token = t
               /\ r.at = work[w].at /\ r.copy = work[w].copy
  <2>1. PICK n : n = [work[w] EXCEPT !.stage = "entered"]
    OBVIOUS
  <2>2. /\ n \in Requests /\ n.stage = "entered" /\ n.token = t
        /\ n.at = work[w].at /\ n.copy = work[w].copy
    BY <1>1, <1>2, <2>1, LoginFacts DEF Requests, Stages
  <2>3. RequestFits(n)
    BY <1>1, <1>2, <2>2, LoginFacts DEF RequestFits, Entering, Carrying
  <2>4. work' = [work EXCEPT ![w] = n] \/ work' = [work EXCEPT ![w] = Idle]
    BY <2>1 DEF EnterSession, Persist
  <2> QED  BY <2>2, <2>3, <2>4, IdleFits
<1>9. /\ r.token \in {t, NoToken} /\ ~Carrying(r) /\ r.stage \notin {"refreshing", "resaving"}
      /\ Entering(r) => r.stage = "entered" /\ r.token = t /\ r.at = work[w].at /\ r.copy = work[w].copy
  BY <1>8 DEF Idle, Entering, Carrying
<1>10. Entering(r) =>
         /\ r.token = t /\ Source(t, r.copy.grant)
         /\ rows'[t].status # "none" => r.stage = "entered" /\ rows'[t].session.created = r.at
  BY <1>1, <1>2, <1>5, <1>7, <1>9, LoginFacts
<1>11. rows'[t].status = "live" => InPlay(t, rows'[t].session.grant)
  BY <1>1, <1>2, <1>5, <1>7, LoginFacts
<1> QED  BY <1>1, <1>2, <1>3, <1>7, <1>8, <1>9, <1>10, <1>11, LoginFacts, OpenOne

LEMMA EnteredStep ==
    ASSUME IInv, NEW w \in Workers, SessionEntered(w)
    PROVE  IInv'
<1>1. /\ work[w].stage = "entered" /\ Entering(work[w])
      /\ UNCHANGED <<now, account, accountRow, rows, ended, astray, events>>
  BY DEF SessionEntered, Entering, people
<1>2. PICK t \in Tokens : t = work[w].token /\ ~Born(t) /\ \A u \in Workers : work[u].token = t => u = w
  BY <1>1, LoginFacts
<1>3. PICK n : n = work[w].at
  OBVIOUS
<1>4. PICK s \in Sessions : s = work[w].copy /\ s.created = n /\ Source(t, s.grant)
  BY <1>1, <1>2, <1>3, LoginFacts
<1>5. n \in Time /\ n # NoBirth
  BY <1>4, SessionFacts, Numbers
<1>6. /\ sessions' = [sessions EXCEPT ![t] = s] /\ born' = [born EXCEPT ![t] = n]
      /\ work' = [work EXCEPT ![w] = Idle]
  BY <1>2, <1>3, <1>4 DEF SessionEntered
<1>7. /\ work' \in [Workers -> Requests]
      /\ \A u \in Workers : work'[u] = IF u = w THEN Idle ELSE work[u]
  BY <1>6, IdleFits, WorkType DEF IInv
<1>8. /\ sessions' \in [Tokens -> Sessions \cup {NoSession}] /\ sessions'[t] = s
      /\ born' \in [Tokens -> Time \cup {NoBirth}] /\ born'[t] = n
      /\ \A u \in Tokens : u # t => sessions'[u] = sessions[u] /\ born'[u] = born[u]
  BY <1>5, <1>6 DEF IInv, Typed
<1>9. Typed'
  BY <1>1, <1>7, <1>8 DEF IInv, Typed
<1>10. /\ \A u \in Tokens : u # t => (Born(u)' <=> Born(u))
       /\ Born(t)'
  BY <1>5, <1>8 DEF Born
<1>11. RequestsFit'
  <2>1. ASSUME NEW u \in Workers, u # w PROVE RequestFits(work[u])'
    <3>1. work'[u] = work[u] /\ RequestFits(work[u]) /\ work[u].token # t
      BY <1>2, <1>7, <2>1 DEF IInv, Lifetime, RequestsFit
    <3>2. work[u].token \in Tokens => born'[work[u].token] = born[work[u].token]
      BY <1>8, <3>1
    <3>3. \A k \in Tokens : Born(k) => Born(k)' /\ born'[k] = born[k]
      BY <1>2, <1>8, <1>10
    <3>4. \A c \in Saves : c.token \in Tokens
      BY DEF Saves
    <3> QED  BY <1>10, <3>1, <3>2, <3>3, <3>4 DEF RequestFits, Entering, Carrying
  <2>2. RequestFits(work[w])'
    <3>1. work'[w] = Idle /\ Idle.token = NoToken
      BY <1>7 DEF Idle
    <3> QED  BY <3>1, IdleFits, Numbers DEF RequestFits, Entering, Carrying
  <2> QED  BY <2>1, <2>2 DEF RequestsFit
<1>12. SessionsFit'
  BY <1>4, <1>8, <1>10 DEF IInv, Lifetime, SessionsFit
<1>13. rows[t].status # "none" => rows[t].session.created = n
  BY <1>1, <1>2, <1>3 DEF IInv, Lifetime, LoginsAlone
<1>14. RowsFit'
  BY <1>1, <1>8, <1>10, <1>13 DEF IInv, Lifetime, RowsFit
<1>15. LoginsAlone'
  BY <1>1, <1>7, IdleFits, LoginFacts, Numbers DEF IInv, Lifetime, LoginsAlone, Entering, Idle
<1>16. \A u \in Workers : Regroups(u) \/ Regroups(u)' => work'[u] = work[u]
  BY <1>1, <1>7, IdleFits DEF Regroups
<1>17. \A u \in Workers, k \in Tokens : Carries(u, k)' => work'[u] = work[u]
  BY <1>7, IdleFits DEF Carries, Entering, Carrying
<1>18. \A k \in Tokens : sessions'[k] # NoSession => Source(k, sessions'[k].grant)
  BY <1>4, <1>8, InMap
<1>19. \A k \in Tokens : Born(k) => Born(k)'
  BY <1>10
<1>20. Finality' /\ Groups'
  BY <1>1, <1>16, <1>17, <1>18, <1>19, FlowStep
<1> QED  BY <1>9, <1>11, <1>12, <1>14, <1>15, <1>20 DEF IInv, Lifetime

-----------------------------------------------------------------------------
(* Changes of groups                                                       *)

(* Nothing ended comes back in a step that brings nothing to life.         *)
LEMMA NothingRevived ==
    ASSUME IInv, ended' = ended, \A t \in Tokens : Lives(t)' => Lives(t)
    PROVE  Finality'
BY DEF IInv, Typed, Finality

(* A change that overlaps with another one gives up on every session.      *)
LEMMA AllAstray ==
    ASSUME Lifetime', Tokens \subseteq astray'
    PROVE  Groups'
<1>1. OneChange' /\ \A t \in Tokens \ astray' : Reached(t)'
  BY DEF OneChange
<1>2. \A w \in Workers : work'[w].stage = "resaving" =>
         \A c \in work'[w].todo : c \in Saves
  BY DEF Lifetime, RequestsFit, RequestFits
<1>3. \A c \in Saves : c.token \in Tokens
  BY DEF Saves
<1>4. ChangesCarryGrant'
  BY <1>2, <1>3 DEF ChangesCarryGrant
<1> QED  BY <1>1, <1>4 DEF Groups

LEMMA CarriersHold == \A w \in Workers, t \in Tokens : Carries(w, t) => Holds(w, t)
BY DEF Carries, Holds, Entering, Carrying

LEMMA SetGroupsStep ==
    ASSUME IInv, NEW w \in Workers, NEW g \in Grants, NEW o, SetGroups(w, g, o)
    PROVE  IInv'
<1>1. /\ UNCHANGED <<now, sessions, rows, born, ended>> /\ events' \in Nat /\ work[w] = Idle
      /\ astray \subseteq Tokens
  BY Unchanged DEF SetGroups, IInv, Typed
<1>2. PICK b : b = [account EXCEPT !.grant = g]
  OBVIOUS
<1>3. b \in Accounts /\ b.grant = g
  BY <1>2, Unchanged DEF Accounts, AllGrants
<1>4. accountRow' \in Accounts
  BY <1>2, <1>3, Unchanged DEF SetGroups
<1>5. PICK r : r = [Idle EXCEPT !.stage = "refreshing", !.copy = [grant |-> g]]
  OBVIOUS
<1>6. /\ r \in Requests /\ r.stage = "refreshing" /\ r.copy = [grant |-> g] /\ r.token = NoToken
  BY <1>5, IdleFits DEF Idle, Requests, Stages, AllGrants
<1>7. \/ o = "ok" /\ account' = b /\ work' = [work EXCEPT ![w] = r]
      \/ o # "ok" /\ UNCHANGED <<account, work>>
  BY <1>2, <1>5 DEF SetGroups
<1>8. astray \subseteq astray' /\ astray' \subseteq Tokens /\ (Regrouping => Tokens \subseteq astray')
  BY <1>1 DEF SetGroups, OutOfReach
<1>9. /\ work' \in [Workers -> Requests]
      /\ \A u \in Workers : work'[u] = work[u] \/ (o = "ok" /\ u = w /\ work'[u] = r)
  BY <1>6, <1>7, Unchanged
<1>10. account' \in Accounts
  BY <1>3, <1>7, Unchanged
<1>11. Typed'
  BY <1>1, <1>4, <1>8, <1>9, <1>10, Unchanged DEF IInv, Typed
<1>12. \A u \in Workers : work'[u] = work[u] \/ (RequestFits(work[u])' /\ ~Entering(work[u])')
  <2>1. [grant |-> g] \in [grant : AllGrants]
    BY DEF AllGrants
  <2> QED  BY <1>6, <1>9, <2>1, Numbers DEF RequestFits, Entering, Carrying
<1>13. Lifetime'
  BY <1>1, <1>12, LifetimeStep DEF IInv, Lifetime, SessionsFit
<1>14. Finality'
  <2>1. \A u \in Workers, t \in Tokens : Carries(u, t)' => work'[u] = work[u]
    BY <1>6, <1>9 DEF Carries, Entering, Carrying
  <2>2. \A t \in Tokens, h \in AllGrants : InPlay(t, h)' => InPlay(t, h)
    BY <1>1, <2>1 DEF InPlay, Carries, Entering, Carrying
  <2>3. \A t \in Tokens : Pending(t)' => Pending(t)
    BY <1>6, <1>9 DEF Pending
  <2>4. \A t \in Tokens : Lives(t)' => Lives(t)
    BY <1>1, <2>2, <2>3 DEF Lives, Stored, Born
  <2> QED  BY <1>1, <2>4, NothingRevived
<1>15. Groups'
  <2>1. CASE Regrouping
    BY <1>8, <1>13, <2>1, AllAstray
  <2>2. CASE ~Regrouping /\ o = "ok"
    <3>1. \A u \in Workers : Regroups(u)' => u = w
      BY <1>9, <2>2 DEF Regrouping, Regroups
    <3>2. work'[w] = r /\ account'.grant = g /\ r.copy.grant = g
      BY <1>3, <1>6, <1>7, <2>2, Unchanged
    <3>3. OneChange'
      BY <3>1 DEF OneChange
    <3>4. ChangesCarryGrant'
      BY <1>6, <3>1, <3>2 DEF ChangesCarryGrant, Regroups
    <3>5. ~MapRefreshed'
      BY <1>6, <3>2 DEF MapRefreshed
    <3> QED  BY <3>3, <3>4, <3>5 DEF Groups
  <2>3. CASE ~Regrouping /\ o # "ok"
    <3>1. UNCHANGED <<account, work, sessions, rows>>
      BY <1>1, <1>7, <2>3
    <3>2. \A u \in Workers : ~Regroups(u)' /\ ~Regroups(u)
      BY <2>3, <3>1 DEF Regrouping, Regroups
    <3>3. OneChange' /\ ChangesCarryGrant' /\ MapRefreshed
      BY <3>2 DEF OneChange, ChangesCarryGrant, Regroups, MapRefreshed
    <3>4. \A t \in Tokens \ astray : Reached(t)'
      BY <3>1, <3>3 DEF IInv, Groups, Reached, InPlay, Stored, Pending, Carries, Entering, Carrying
    <3> QED  BY <1>8, <3>3, <3>4 DEF Groups
  <2> QED  BY <2>1, <2>2, <2>3
<1> QED  BY <1>11, <1>13, <1>14, <1>15 DEF IInv

LEMMA MembersListedStep ==
    ASSUME IInv, MembersListed
    PROVE  IInv'
<1>1. /\ UNCHANGED <<now, accountRow, sessions, rows, work, born, ended>> /\ events' \in Nat
      /\ astray \subseteq Tokens
  BY Unchanged DEF MembersListed, IInv, Typed
<1>2. account' \in Accounts
  BY Unchanged DEF MembersListed, Accounts, AllGrants
<1>3. astray \subseteq astray' /\ astray' \subseteq Tokens /\ (Regrouping => Tokens \subseteq astray')
  BY <1>1 DEF MembersListed, OutOfReach
<1>4. Typed'
  BY <1>1, <1>2, <1>3 DEF IInv, Typed
<1>5. Lifetime'
  BY <1>1, LifetimeStep DEF IInv, Lifetime, SessionsFit
<1>6. Finality'
  <2>1. \A t \in Tokens : Lives(t)' => Lives(t)
    BY <1>1 DEF Lives, InPlay, Stored, Pending, Born, Carries, Entering, Carrying
  <2> QED  BY <1>1, <2>1, NothingRevived
<1>7. Groups'
  <2>1. CASE Regrouping
    BY <1>3, <1>5, <2>1, AllAstray
  <2>2. CASE ~Regrouping
    <3>1. \A u \in Workers : ~Regroups(u)'
      BY <1>1, <2>2 DEF Regrouping, Regroups
    <3>2. OneChange' /\ ChangesCarryGrant'
      BY <3>1 DEF OneChange, ChangesCarryGrant, Regroups
    <3>3. ASSUME NEW t \in Tokens \ astray' PROVE Reached(t)'
      <4>1. sessions[t] = NoSession /\ rows[t].status # "live" /\ \A v \in Workers : ~Holds(v, t)
        BY <2>2, <3>3 DEF MembersListed, OutOfReach
      <4>2. \A v \in Workers : ~Carries(v, t)'
        BY <1>1, <4>1, CarriersHold DEF Carries, Entering, Carrying
      <4> QED  BY <1>1, <4>1, <4>2 DEF Reached, InPlay, Stored
    <3> QED  BY <3>2, <3>3 DEF Groups
  <2> QED  BY <2>1, <2>2
<1> QED  BY <1>4, <1>5, <1>6, <1>7 DEF IInv

(* The copies a change of groups is about to write.                        *)
LEMMA RefreshedFacts ==
    ASSUME IInv, NEW g \in AllGrants
    PROVE  /\ \A c \in Refreshed(g) :
                /\ c \in Saves /\ sessions[c.token] # NoSession /\ c.session.grant = g
                /\ Born(c.token) /\ c.session.created = born[c.token]
           /\ \A t \in Tokens : sessions[t] # NoSession => \E c \in Refreshed(g) : c.token = t
<1>1. ASSUME NEW t \in Tokens, sessions[t] # NoSession,
             NEW c, c = [token |-> t, session |-> [sessions[t] EXCEPT !.grant = g]]
      PROVE  /\ c \in Saves /\ c.token = t /\ c.session.grant = g
             /\ Born(c.token) /\ c.session.created = born[c.token]
  <2>1. PICK s : s = [sessions[t] EXCEPT !.grant = g]
    OBVIOUS
  <2>2. s \in Sessions /\ s.grant = g /\ s.created = born[t] /\ Born(t)
    BY <1>1, <2>1, InMap, SessionFacts
  <2>3. c \in Saves /\ c.token = t /\ c.session = s
    BY <1>1, <2>1, <2>2 DEF Saves
  <2> QED  BY <2>2, <2>3
<1>2. ASSUME NEW c \in Refreshed(g)
      PROVE  \E t \in Tokens : /\ sessions[t] # NoSession
                               /\ c = [token |-> t, session |-> [sessions[t] EXCEPT !.grant = g]]
  BY <1>2 DEF Refreshed
<1>3. ASSUME NEW t \in Tokens, sessions[t] # NoSession
      PROVE  \E c \in Refreshed(g) : c.token = t
  <2>1. PICK c : c = [token |-> t, session |-> [sessions[t] EXCEPT !.grant = g]]
    OBVIOUS
  <2>2. c \in Refreshed(g)
    BY <1>3, <2>1 DEF Refreshed
  <2> QED  BY <1>1, <1>3, <2>1, <2>2
<1>4. ASSUME NEW c \in Refreshed(g)
      PROVE  /\ c \in Saves /\ sessions[c.token] # NoSession /\ c.session.grant = g
             /\ Born(c.token) /\ c.session.created = born[c.token]
  <2>1. PICK t \in Tokens : /\ sessions[t] # NoSession
                            /\ c = [token |-> t, session |-> [sessions[t] EXCEPT !.grant = g]]
    BY <1>2, <1>4
  <2>2. /\ c \in Saves /\ c.token = t /\ c.session.grant = g
        /\ Born(c.token) /\ c.session.created = born[c.token]
    BY <1>1, <2>1
  <2> QED  BY <2>1, <2>2
<1> QED  BY <1>3, <1>4

LEMMA RefreshStep ==
    ASSUME IInv, NEW w \in Workers, RefreshSessions(w)
    PROVE  IInv'
<1>1. /\ UNCHANGED <<now, account, accountRow, rows, born, ended, events>>
      /\ work[w].stage = "refreshing" /\ astray \subseteq Tokens
  BY DEF RefreshSessions, people, IInv, Typed
<1>2. PICK g \in AllGrants : g = work[w].copy.grant
  <2>1. work[w].copy \in [grant : AllGrants]
    BY <1>1 DEF IInv, Lifetime, RequestsFit, RequestFits
  <2> QED  BY <2>1
<1>3. /\ sessions' \in [Tokens -> Sessions \cup {NoSession}]
      /\ \A t \in Tokens :
            /\ sessions[t] = NoSession => sessions'[t] = NoSession
            /\ sessions[t] # NoSession =>
                  /\ sessions'[t] \in Sessions /\ sessions'[t].grant = g
                  /\ sessions'[t].created = sessions[t].created
  <2>1. sessions' = [t \in Tokens |-> IF sessions[t] = NoSession THEN NoSession
                                      ELSE [sessions[t] EXCEPT !.grant = g]]
    BY <1>2 DEF RefreshSessions
  <2>2. \A t \in Tokens : sessions[t] # NoSession =>
           LET s == [sessions[t] EXCEPT !.grant = g] IN
           s \in Sessions /\ s.grant = g /\ s.created = sessions[t].created
    BY InMap, SessionFacts
  <2> QED  BY <2>1, <2>2
<1>4. PICK C : C = Refreshed(g)
  OBVIOUS
<1>5. /\ \A c \in C : /\ c \in Saves /\ c.token \in Tokens /\ sessions[c.token] # NoSession
                      /\ c.session.grant = g /\ Born(c.token) /\ c.session.created = born[c.token]
      /\ \A t \in Tokens : sessions[t] # NoSession => \E c \in C : c.token = t
  <2>1. \A c \in Saves : c.token \in Tokens
    BY DEF Saves
  <2> QED  BY <1>4, <2>1, RefreshedFacts
<1>6. PICK r : r = IF C = {} THEN Idle ELSE [Idle EXCEPT !.stage = "resaving", !.todo = C]
  OBVIOUS
<1>7. /\ r \in Requests /\ r.token = NoToken
      /\ r.stage \in {"idle", "resaving"}
      /\ r.stage = "resaving" => r.todo = C
      /\ C # {} => r.stage = "resaving"
  <2>1. CASE C = {}
    BY <1>6, <2>1, IdleFits DEF Idle
  <2>2. CASE C # {}
    <3>1. C \in SUBSET (Tokens \cup Saves)
      BY <1>5
    <3> QED  BY <1>6, <2>2, <3>1, IdleFits DEF Idle, Requests, Stages
  <2> QED  BY <2>1, <2>2
<1>8. work' = [work EXCEPT ![w] = r]
  BY <1>2, <1>4, <1>6 DEF RefreshSessions
<1>9. /\ work' \in [Workers -> Requests]
      /\ \A u \in Workers : work'[u] = IF u = w THEN r ELSE work[u]
  BY <1>7, <1>8, WorkType DEF IInv
<1>10. astray' = astray \cup OutOfReach /\ astray' \subseteq Tokens
  BY <1>1 DEF RefreshSessions, OutOfReach
<1>11. Typed'
  BY <1>1, <1>3, <1>9, <1>10 DEF IInv, Typed
<1>12. Lifetime'
  <2>1. RequestFits(work[w])' /\ ~Entering(work[w])'
    BY <1>1, <1>5, <1>7, <1>9, Numbers DEF RequestFits, Entering, Carrying, Born
  <2>2. \A u \in Workers : work'[u] = work[u] \/ (RequestFits(work[u])' /\ ~Entering(work[u])')
    BY <1>9, <2>1
  <2>3. \A t \in Tokens : sessions'[t] # NoSession => Born(t) /\ sessions'[t].created = born[t]
    BY <1>3, InMap
  <2> QED  BY <1>1, <2>2, <2>3, LifetimeStep
<1>13. \A u \in Workers, t \in Tokens : Carries(u, t)' <=> Carries(u, t)
  BY <1>1, <1>7, <1>9 DEF Carries, Entering, Carrying
<1>14. \A t \in Tokens, h \in AllGrants :
         InPlay(t, h)' => \/ sessions[t] # NoSession /\ h = g
                          \/ \E u \in Workers : Carries(u, t) /\ work[u].copy.grant = h
  BY <1>1, <1>3, <1>9, <1>13 DEF InPlay, Carries, Entering, Carrying
<1>15. Finality'
  <2> SUFFICES ASSUME NEW t \in Tokens, Lives(t)' PROVE Lives(t)
    BY <1>1, NothingRevived
  <2>1. CASE sessions[t] # NoSession
    BY <2>1, InMap, SessionFacts DEF Lives
  <2>2. CASE sessions[t] = NoSession
    <3>1. Pending(t)' => Pending(t)
      BY <1>5, <1>7, <1>9, <2>2 DEF Pending
    <3>2. \A h \in AllGrants : InPlay(t, h)' => InPlay(t, h)
      BY <1>14, <2>2 DEF InPlay
    <3> QED  BY <1>1, <3>1, <3>2 DEF Lives, Stored, Born
  <2> QED  BY <2>1, <2>2
<1>16. Groups'
  <2>1. CASE Tokens \subseteq astray
    BY <1>10, <1>12, <2>1, AllAstray
  <2>2. CASE ~(Tokens \subseteq astray)
    <3>1. \A u \in Workers : Regroups(u) => u = w
      BY <1>1, <2>2 DEF IInv, Groups, OneChange, Regroups
    <3>2. g = account.grant
      BY <1>1, <1>2, <2>2 DEF IInv, Groups, ChangesCarryGrant
    <3>3. \A u \in Workers : Regroups(u)' => u = w
      BY <1>9, <3>1 DEF Regroups
    <3>4. OneChange'
      BY <3>3 DEF OneChange
    <3>5. ChangesCarryGrant'
      BY <1>1, <1>5, <1>7, <1>9, <3>2, <3>3 DEF ChangesCarryGrant, Regroups
    <3>6. ASSUME NEW t \in Tokens \ astray' PROVE Reached(t)'
      <4>1. /\ sessions[t] # NoSession \/ rows[t].status # "live"
            /\ \A v \in Workers : ~Holds(v, t)
        BY <1>10, <3>6 DEF OutOfReach
      <4>2. \A h \in AllGrants : InPlay(t, h)' => h = account.grant
        BY <1>14, <3>2, <4>1, CarriersHold
      <4>3. sessions[t] # NoSession => Pending(t)'
        BY <1>5, <1>7, <1>9 DEF Pending
      <4> QED  BY <1>1, <4>1, <4>2, <4>3 DEF Reached, Stored
    <3> QED  BY <3>4, <3>5, <3>6 DEF Groups
  <2> QED  BY <2>1, <2>2
<1> QED  BY <1>11, <1>12, <1>15, <1>16 DEF IInv

LEMMA ResaveStep ==
    ASSUME IInv, NEW w \in Workers, NEW c \in work[w].todo, NEW o, ResaveSession(w, c, o)
    PROVE  IInv'
<1>1. /\ UNCHANGED <<now, account, accountRow, sessions, born, ended>>
      /\ work[w].stage = "resaving" /\ work[w] \in Requests /\ events' \in Nat
      /\ astray \subseteq Tokens
  BY Unchanged DEF ResaveSession, people, Count, IInv, Typed
<1>2. /\ RequestFits(work[w])
      /\ \A d \in work[w].todo : d \in Saves /\ Born(d.token) /\ d.session.created = born[d.token]
  BY <1>1 DEF IInv, Lifetime, RequestsFit, RequestFits
<1>3. PICK t \in Tokens : t = c.token /\ Born(t)
  BY <1>2 DEF Saves
<1>4. PICK s \in Sessions : s = c.session /\ s.created = born[t]
  BY <1>2, <1>3 DEF Saves
<1>5. \/ rows' = rows /\ (~Persistable(t) \/ ~Applied(o))
      \/ Persistable(t) /\ rows' = [rows EXCEPT ![t] = Persisted(t, s)]
  BY <1>3, <1>4 DEF ResaveSession
<1>6. /\ rows' \in [Tokens -> Rows \cup {NoRow}]
      /\ \A u \in Tokens : u # t => rows'[u] = rows[u]
      /\ \/ rows'[t] = rows[t] /\ (~Persistable(t) \/ ~Applied(o))
         \/ rows'[t].session.created = born[t] /\ rows'[t].session.grant = s.grant
  <2>1. CASE rows' = rows /\ (~Persistable(t) \/ ~Applied(o))
    BY <2>1, Unchanged
  <2>2. CASE Persistable(t) /\ rows' = [rows EXCEPT ![t] = Persisted(t, s)]
    <3>1. PICK p : p = Persisted(t, s)
      OBVIOUS
    <3>2. p \in Rows /\ p.session.created = born[t] /\ p.session.grant = s.grant
      BY <1>3, <1>4, <2>2, <3>1, PersistedFacts
    <3>3. rows' = [rows EXCEPT ![t] = p]
      BY <2>2, <3>1
    <3> QED  BY <3>2, <3>3, Unchanged
  <2> QED  BY <1>5, <2>1, <2>2
<1>7. PICK r : r = IF work[w].todo = {c} THEN Idle ELSE [work[w] EXCEPT !.todo = work[w].todo \ {c}]
  OBVIOUS
<1>8. /\ r \in Requests /\ r.token \in {NoToken, work[w].token}
      /\ r.stage \in {"idle", "resaving"}
      /\ r.stage = "resaving" => r.todo = work[w].todo \ {c}
      /\ work[w].todo # {c} => r.stage = "resaving"
  <2>1. CASE work[w].todo = {c}
    BY <1>7, <2>1, IdleFits DEF Idle
  <2>2. CASE work[w].todo # {c}
    BY <1>1, <1>7, <2>2 DEF Requests
  <2> QED  BY <2>1, <2>2
<1>9. work' = [work EXCEPT ![w] = r]
  <2>1. work' = [work EXCEPT ![w] = IF work[w].todo = {c} THEN Idle
                                    ELSE [work[w] EXCEPT !.todo = work[w].todo \ {c}]]
    BY DEF ResaveSession
  <2> QED  BY <1>7, <2>1
<1>10. /\ work' \in [Workers -> Requests]
       /\ \A u \in Workers : work'[u] = IF u = w THEN r ELSE work[u]
  BY <1>8, <1>9, WorkType DEF IInv
<1>11. /\ astray \subseteq astray' /\ astray' \subseteq Tokens
       /\ t \in astray' \/ (Applied(o) /\ \A v \in Workers \ {w} : ~Holds(v, t))
  BY <1>1, <1>3 DEF ResaveSession
<1>12. Typed'
  BY <1>1, <1>6, <1>10, <1>11 DEF IInv, Typed
<1>13. Lifetime'
  <2>1. r.token \in Tokens => Born(r.token)
    BY <1>1, <1>2, <1>8, Numbers DEF RequestFits, Entering
  <2>2. RequestFits(work[w])' /\ ~Entering(work[w])'
    BY <1>1, <1>2, <1>8, <1>10, <2>1 DEF RequestFits, Entering, Carrying, Born
  <2>3. \A u \in Workers : work'[u] = work[u] \/ (RequestFits(work[u])' /\ ~Entering(work[u])')
    BY <1>10, <2>2
  <2>4. \A u \in Tokens : \/ rows'[u] = rows[u]
                          \/ Born(u) /\ rows'[u].session.created = born[u]
    BY <1>3, <1>6
  <2>5. \A u \in Tokens : sessions'[u] # NoSession => Born(u) /\ sessions'[u].created = born[u]
    BY <1>1, InMap
  <2> QED  BY <1>1, <2>3, <2>4, <2>5, LifetimeStep
<1>14. \A u \in Tokens, g \in AllGrants : InPlay(u, g)' => InPlay(u, g)
  BY <1>1, <1>8, <1>10 DEF InPlay, Carries, Entering, Carrying
<1>15. \A u \in Tokens : /\ Pending(u)' => Pending(u)
                         /\ u # t /\ Pending(u) => Pending(u)'
  BY <1>1, <1>3, <1>8, <1>10 DEF Pending
<1>16. Finality'
  <2> SUFFICES ASSUME NEW u \in Tokens, Lives(u)' PROVE Lives(u)
    BY <1>1, NothingRevived
  <2>1. CASE u = t
    BY <1>1, <1>3, <2>1 DEF Lives, Pending
  <2>2. CASE u # t
    BY <1>1, <1>6, <1>14, <1>15, <2>2 DEF Lives, Stored, Born
  <2> QED  BY <2>1, <2>2
<1>17. Groups'
  <2>1. \A u \in Workers : Regroups(u)' => Regroups(u)
    BY <1>1, <1>10 DEF Regroups
  <2>2. OneChange'
    BY <1>11, <2>1 DEF IInv, Groups, OneChange
  <2>3. ChangesCarryGrant'
    BY <1>1, <1>8, <1>10, <1>11 DEF IInv, Groups, ChangesCarryGrant
  <2>4. MapRefreshed' => MapRefreshed
    BY <1>1, <1>10 DEF MapRefreshed
  <2>5. ASSUME MapRefreshed', NEW u \in Tokens \ astray', NEW g \in AllGrants, Stored(u, g)'
        PROVE  g = account.grant \/ Pending(u)'
    <3>1. Reached(u)
      BY <1>11, <2>4, <2>5 DEF IInv, Groups
    <3>2. CASE u # t
      BY <1>6, <1>15, <2>5, <3>1, <3>2 DEF Reached, Stored
    <3>3. CASE u = t
      <4>1. s.grant = account.grant /\ Applied(o)
        BY <1>1, <1>3, <1>4, <1>11, <2>5, <3>3 DEF IInv, Groups, ChangesCarryGrant
      <4>2. ~Persistable(t) => rows[t].status # "live"
        BY DEF Persistable
      <4> QED  BY <1>6, <2>5, <3>3, <4>1, <4>2 DEF Stored
    <3> QED  BY <3>2, <3>3
  <2>6. ASSUME MapRefreshed', NEW u \in Tokens \ astray' PROVE Reached(u)'
    <3>1. Reached(u)
      BY <1>11, <2>4, <2>6 DEF IInv, Groups
    <3> QED  BY <1>1, <1>14, <2>5, <2>6, <3>1 DEF Reached
  <2> QED  BY <2>2, <2>3, <2>6 DEF Groups
<1> QED  BY <1>12, <1>13, <1>16, <1>17 DEF IInv

-----------------------------------------------------------------------------
(* Restarts                                                                *)

LEMMA RestartStep ==
    ASSUME IInv, Restart
    PROVE  IInv'
<1>1. /\ UNCHANGED <<now, accountRow, born, ended>> /\ account' = accountRow
      /\ events' \in Nat /\ astray \subseteq Tokens
      /\ astray \subseteq astray' /\ astray' \subseteq Tokens
  BY Unchanged DEF Restart, IInv, Typed
<1>2. /\ sessions' \in [Tokens -> Sessions \cup {NoSession}]
      /\ \A t \in Tokens : sessions'[t] = NoSession
  BY DEF Restart
<1>3. /\ rows' \in [Tokens -> Rows \cup {NoRow}]
      /\ \A t \in Tokens : rows'[t] = rows[t] \/ rows'[t].status = "none"
  BY Unchanged DEF Restart, Swept, NoRow
<1>4. /\ work' \in [Workers -> Requests]
      /\ \A u \in Workers : work'[u] = Idle
  BY IdleFits DEF Restart
<1>5. Typed'
  BY <1>1, <1>2, <1>3, <1>4, Unchanged DEF IInv, Typed
<1>6. \A u \in Workers : /\ work'[u].stage = "idle" /\ work'[u].token = NoToken
                         /\ ~Entering(work[u])' /\ ~Carrying(work[u])'
  BY <1>4, IdleFits DEF Entering, Carrying, Idle
<1>7. Lifetime'
  <2>1. \A u \in Workers : RequestFits(work[u])'
    BY <1>6, Numbers DEF RequestFits
  <2> QED  BY <1>1, <1>2, <1>3, <1>6, <2>1, LifetimeStep
<1>8. \A t \in Tokens : /\ ~Pending(t)'
                        /\ \A g \in AllGrants : ~InPlay(t, g)' /\ (Stored(t, g)' => Stored(t, g))
  BY <1>2, <1>3, <1>6 DEF Pending, InPlay, Stored, Carries
<1>9. Finality'
  <2>1. \A t \in Tokens : Lives(t)' => Lives(t)
    BY <1>1, <1>8 DEF Lives, Born
  <2> QED  BY <1>1, <2>1, NothingRevived
<1>10. Groups'
  <2>1. OneChange' /\ ChangesCarryGrant'
    BY <1>6 DEF OneChange, ChangesCarryGrant, Regroups
  <2>2. ASSUME NEW t \in Tokens \ astray', NEW g \in AllGrants, Stored(t, g)'
        PROVE  g = account'.grant
    <3>1. Stored(t, g)
      BY <1>8, <2>2
    <3>2. rows[t].status = "live" => rows[t].session.grant = accountRow.grant
      BY <2>2 DEF Restart
    <3> QED  BY <1>1, <3>1, <3>2 DEF Stored
  <2>3. \A t \in Tokens \ astray' : Reached(t)'
    BY <1>8, <2>2 DEF Reached
  <2> QED  BY <2>1, <2>3 DEF Groups
<1> QED  BY <1>5, <1>7, <1>9, <1>10 DEF IInv

-----------------------------------------------------------------------------
(* The invariant                                                           *)

LEMMA Initially == Init => IInv
<1> SUFFICES ASSUME Init PROVE IInv
  OBVIOUS
<1>1. /\ now = 0 /\ events = 0 /\ ended = {} /\ astray = {}
      /\ sessions = [t \in Tokens |-> NoSession] /\ rows = [t \in Tokens |-> NoRow]
      /\ work = [w \in Workers |-> Idle] /\ born = [t \in Tokens |-> NoBirth]
  BY DEF Init
<1>2. account \in Accounts /\ accountRow \in Accounts
  BY DEF Init, Accounts, AllGrants
<1>3. Typed
  BY <1>1, <1>2, IdleFits, Numbers DEF Typed
<1>4. \A w \in Workers : /\ work[w] = Idle /\ RequestFits(work[w]) /\ work[w].stage = "idle"
                         /\ ~Entering(work[w]) /\ ~Regroups(w)
                         /\ \A t \in Tokens : ~Carries(w, t)
  BY <1>1, IdleFits DEF Entering, Carrying, Regroups, Carries
<1>5. \A t \in Tokens : /\ sessions[t] = NoSession /\ rows[t].status = "none"
  BY <1>1 DEF NoRow
<1>6. Lifetime
  BY <1>4, <1>5 DEF Lifetime, RequestsFit, SessionsFit, RowsFit, LoginsAlone
<1>7. \A t \in Tokens, g \in AllGrants : ~InPlay(t, g) /\ ~Stored(t, g)
  BY <1>4, <1>5 DEF InPlay, Stored
<1>8. Finality /\ Groups
  BY <1>1, <1>4, <1>7 DEF Finality, Groups, OneChange, ChangesCarryGrant, Reached
<1> QED  BY <1>3, <1>6, <1>8 DEF IInv

(* One lemma for every action; those of the lock, of the challenges and of *)
(* the clock are quiet.                                                    *)
LEMMA Step == IInv /\ [Next]_vars => IInv'
<1> SUFFICES ASSUME IInv, [Next]_vars PROVE IInv'
  OBVIOUS
<1>1. ASSUME NEW w \in Workers,
             \/ \E p \in Preauths, c \in Captchas : CheckCaptcha(w, p, c)
             \/ \E t \in Tokens : OpenSession(w, t)
             \/ \E t \in Tokens, snapshot \in BOOLEAN : Request(w, t, snapshot)
             \/ LoginRefused(w) \/ SessionEntered(w) \/ RestoreSession(w) \/ PutSession(w)
             \/ Respond(w) \/ Logout(w) \/ KillSessions(w) \/ RefreshSessions(w)
      PROVE  IInv'
  BY <1>1, LoginSteps, OpenStep, RequestStep, EnteredStep, RestoreStep, PutStep, RespondStep,
     LogoutStep, KillStep, RefreshStep
<1>2. ASSUME NEW w \in Workers, NEW o \in Outcomes,
             \/ EnterSession(w, o) \/ RenewSession(w, o) \/ PersistRestored(w, o)
             \/ ChangePassword(w, o) \/ ResetPassword(w, o) \/ DeleteUser(w, o)
             \/ \E g \in Grants : SetGroups(w, g, o)
             \/ \E t \in Tokens : RevokeSession(w, t, o)
             \/ \E c \in work[w].todo : ResaveSession(w, c, o)
      PROVE  IInv'
  BY <1>2, EnterStep, RenewSteps, PasswordSteps, DeleteUserStep, SetGroupsStep, RevokeStep,
     ResaveStep
<1>3. CASE WrongPassword
  BY <1>3, Unchanged, QuietSteps DEF WrongPassword, people, history
<1>4. ASSUME \/ \E p \in Preauths : LoginPassword(p) \/ PreauthExpires(p)
             \/ \E c \in Captchas : NewCaptcha(c) \/ CaptchaFails(c)
      PROVE  IInv'
  <2>1. UNCHANGED <<account, accountRow, sessions, rows, work, born, ended, astray, now, events>>
    BY <1>4 DEF LoginPassword, PreauthExpires, NewCaptcha, CaptchaFails, people, history
  <2> QED  BY <2>1, Unchanged, QuietSteps
<1>5. CASE Tick
  <2>1. now' \in Time
    BY <1>5, Unchanged, SessionConstants DEF Tick, Time, SessionConstants
  <2> QED  BY <1>5, <2>1, Unchanged, QuietSteps DEF Tick, people, history
<1>6. CASE MembersListed
  BY <1>6, MembersListedStep
<1>7. CASE SweepMaps \/ SweepRows
  BY <1>7, SweepSteps
<1>8. CASE Restart
  BY <1>8, RestartStep
<1>9. CASE UNCHANGED vars
  BY <1>9, Unchanged, QuietSteps DEF vars, people, history
<1> QED  BY <1>1, <1>2, <1>3, <1>4, <1>5, <1>6, <1>7, <1>8, <1>9 DEF Next

LEMMA Invariance == Spec => []IInv
BY Initially, Step, PTL DEF Spec

-----------------------------------------------------------------------------
(* No request is admitted more than sessionAbsTTL after the login of its   *)
(* session (SessionByToken, SessionSnapshot, restoreSession): the copy     *)
(* that is renewed, written, swept or restored always begins at the login. *)
THEOREM LifetimeBounded == Spec => []AbsoluteLifetime
<1>1. IInv => AbsoluteLifetime
  BY DEF IInv, Lifetime, RequestsFit, RequestFits, AbsoluteLifetime
<1> QED  BY <1>1, Invariance, PTL

(* A session that revokeSession ended while no request held a copy of it   *)
(* is not in the map, is not live in its row, and nobody will write it or  *)
(* put it back, whatever requests, restarts and changes of groups follow.  *)
THEOREM RevokedForGood == Spec => []RevocationIsFinal
<1>1. ASSUME IInv, NEW t \in ended
      PROVE  /\ sessions[t] = NoSession /\ rows[t].status # "live"
             /\ \A w \in Workers : ~Holds(w, t)
  <2>1. t \in Tokens /\ ~Lives(t) /\ Born(t)
    BY <1>1 DEF IInv, Typed, Finality, Lives
  <2>2. sessions[t] = NoSession
    BY <1>1, <2>1, InMap, SessionFacts DEF Lives
  <2>3. rows[t].status # "live"
    BY <1>1, <2>1, RowFacts, SessionFacts DEF IInv, Lives, Stored
  <2>4. ASSUME NEW w \in Workers, Holds(w, t) PROVE FALSE
    <3>1. Pending(t) \/ Carries(w, t)
      BY <2>4 DEF Holds, Pending, Carries, Entering, Carrying
    <3>2. Carries(w, t) => \E g \in AllGrants : InPlay(t, g)
      BY <1>1, LoginFacts, CarryFacts, SessionFacts DEF Carries
    <3> QED  BY <2>1, <3>1, <3>2 DEF Lives
  <2> QED  BY <2>2, <2>3, <2>4
<1>2. IInv => RevocationIsFinal
  BY <1>1 DEF RevocationIsFinal
<1> QED  BY <1>2, Invariance, PTL

(* When no SetGroups is under way, every session that the changes of the   *)
(* account's groups could reach has the account's grant, in the map of     *)
(* sessions and in its row (SetGroups, RefreshSessions).                   *)
THEOREM GroupsReach == Spec => []GroupChangesReachSessions
<1>1. ASSUME IInv, ~Regrouping, NEW t \in Tokens \ astray
      PROVE  /\ sessions[t] # NoSession => sessions[t].grant = account.grant
             /\ rows[t].status = "live" => rows[t].session.grant = account.grant
  <2>1. MapRefreshed /\ ~Pending(t)
    BY <1>1 DEF Regrouping, MapRefreshed, Pending
  <2>2. Reached(t)
    BY <1>1, <2>1 DEF IInv, Groups
  <2>3. sessions[t] # NoSession => sessions[t].grant = account.grant
    BY <1>1, <2>2, InMap, SessionFacts DEF Reached
  <2>4. rows[t].status = "live" => rows[t].session.grant = account.grant
    BY <1>1, <2>1, <2>2, RowFacts, SessionFacts DEF IInv, Reached, Stored
  <2> QED  BY <2>3, <2>4
<1>2. IInv => GroupChangesReachSessions
  BY <1>1 DEF GroupChangesReachSessions
<1> QED  BY <1>2, Invariance, PTL

-----------------------------------------------------------------------------
(* Types: what the invariant leaves out is bounded                         *)

Counters == events \in 0..MaxEvents /\ account.password \in 0..MaxEvents
            /\ accountRow.password \in 0..MaxEvents

Locks == failCount \in 0..LockAfterFails - 1 /\ lockedUntil \in 0..MaxTime + LockDuration

Challenges == preauths \subseteq Preauths /\ captchas \subseteq Captchas /\ sweeping \in BOOLEAN

LEMMA CountersStep == IInv /\ Counters /\ [Next]_vars => Counters'
<1> SUFFICES ASSUME IInv, Counters, [Next]_vars PROVE Counters'
  OBVIOUS
<1>1. account \in Accounts /\ accountRow \in Accounts /\ MaxEvents \in Nat /\ events \in 0..MaxEvents
  BY Unchanged, SessionConstants DEF Counters, SessionConstants
<1>2. events < MaxEvents => events + 1 \in 0..MaxEvents
  BY <1>1
<1>3. \A a \in Accounts :
        /\ \A n \in Nat : [a EXCEPT !.password = n].password = n
        /\ \A g \in AllGrants : [a EXCEPT !.grant = g].password = a.password
        /\ \A b \in BOOLEAN : [a EXCEPT !.present = b].password = a.password
  BY DEF Accounts
<1>4. Grants \subseteq AllGrants /\ NoGroups \in AllGrants
  BY DEF AllGrants
<1>5. ASSUME NEW o, o \in Outcomes, Count(o) PROVE events' \in 0..MaxEvents
  BY <1>1, <1>2, <1>5 DEF Outcomes, Count
<1>6. CASE UNCHANGED <<events, people>>
  BY <1>6 DEF Counters, people
<1>7. ASSUME NEW w \in Workers, NEW o \in Outcomes,
             \/ EnterSession(w, o) \/ RenewSession(w, o) \/ PersistRestored(w, o)
             \/ \E t \in Tokens : RevokeSession(w, t, o)
             \/ \E c \in work[w].todo : ResaveSession(w, c, o)
      PROVE  Counters'
  <2>1. Count(o) /\ UNCHANGED people
    BY <1>7 DEF EnterSession, RenewSession, PersistRestored, Persist, RevokeSession, ResaveSession
  <2> QED  BY <1>5, <2>1 DEF Counters, people
<1>8. ASSUME NEW w \in Workers, NEW o \in Outcomes, ChangePassword(w, o) \/ ResetPassword(w, o)
      PROVE  Counters'
  <2>1. /\ events < MaxEvents /\ events' = events + 1
        /\ account' = [account EXCEPT !.password = events + 1]
        /\ accountRow' \in {account', accountRow}
    BY <1>8 DEF ChangePassword, ResetPassword, SavePassword
  <2>2. account'.password = events + 1
    BY <1>1, <1>3, <2>1
  <2> QED  BY <1>2, <2>1, <2>2 DEF Counters
<1>9. ASSUME NEW w \in Workers, NEW o \in Outcomes,
             DeleteUser(w, o) \/ \E g \in Grants : SetGroups(w, g, o)
      PROVE  Counters'
  <2>1. /\ events < MaxEvents /\ events' = events + 1
        /\ account'.password = account.password
        /\ accountRow'.password \in {account.password, accountRow.password}
    <3>1. CASE DeleteUser(w, o)
      <4>1. /\ account' = account \/ account' = [account EXCEPT !.present = FALSE]
            /\ accountRow' = accountRow \/ accountRow' = [accountRow EXCEPT !.present = FALSE]
            /\ events < MaxEvents /\ events' = events + 1
        BY <3>1 DEF DeleteUser
      <4> QED  BY <1>1, <1>3, <4>1
    <3>2. ASSUME NEW g \in Grants, SetGroups(w, g, o)
          PROVE  /\ events < MaxEvents /\ events' = events + 1
                 /\ account'.password = account.password
                 /\ accountRow'.password \in {account.password, accountRow.password}
      <4>1. /\ account' = account \/ account' = [account EXCEPT !.grant = g]
            /\ accountRow' = accountRow \/ accountRow' = [account EXCEPT !.grant = g]
            /\ events < MaxEvents /\ events' = events + 1
        BY <3>2 DEF SetGroups
      <4>2. [account EXCEPT !.grant = g].password = account.password
        BY <1>1, <1>3, <1>4
      <4> QED  BY <4>1, <4>2
    <3> QED  BY <1>9, <3>1, <3>2
  <2> QED  BY <1>2, <2>1 DEF Counters
<1>10. CASE MembersListed \/ Restart \/ WrongPassword
  <2>1. /\ events < MaxEvents /\ events' = events + 1
        /\ account'.password \in {account.password, accountRow.password}
        /\ accountRow' = accountRow
    <3>1. /\ events < MaxEvents /\ events' = events + 1 /\ accountRow' = accountRow
          /\ \/ account' = accountRow \/ account' = account
             \/ account' = [account EXCEPT !.grant = NoGroups]
      BY <1>10 DEF MembersListed, Restart, WrongPassword, people
    <3>2. [account EXCEPT !.grant = NoGroups].password = account.password
      BY <1>1, <1>3, <1>4
    <3> QED  BY <3>1, <3>2
  <2> QED  BY <1>2, <2>1 DEF Counters
<1>11. ASSUME NEW w \in Workers,
             \/ \E p \in Preauths, c \in Captchas : CheckCaptcha(w, p, c)
             \/ \E t \in Tokens : OpenSession(w, t)
             \/ \E t \in Tokens, snapshot \in BOOLEAN : Request(w, t, snapshot)
             \/ LoginRefused(w) \/ SessionEntered(w) \/ RestoreSession(w) \/ PutSession(w)
             \/ Respond(w) \/ Logout(w) \/ KillSessions(w) \/ RefreshSessions(w)
      PROVE  UNCHANGED <<events, people>>
  BY <1>11 DEF CheckCaptcha, OpenSession, Request, LoginRefused, SessionEntered, RestoreSession,
     PutSession, Respond, Logout, KillSessions, RefreshSessions
<1>12. ASSUME \/ \E p \in Preauths : LoginPassword(p) \/ PreauthExpires(p)
              \/ \E c \in Captchas : NewCaptcha(c) \/ CaptchaFails(c)
              \/ SweepMaps \/ SweepRows \/ Tick \/ UNCHANGED vars
      PROVE  UNCHANGED <<events, people>>
  BY <1>12 DEF LoginPassword, PreauthExpires, NewCaptcha, CaptchaFails, SweepMaps, SweepRows,
     Tick, vars
<1> QED  BY <1>6, <1>7, <1>8, <1>9, <1>10, <1>11, <1>12 DEF Next

LEMMA LocksStep == IInv /\ Locks /\ [Next]_vars => Locks'
<1> SUFFICES ASSUME IInv, Locks, [Next]_vars PROVE Locks'
  OBVIOUS
<1>1. /\ LockAfterFails \in Nat /\ LockAfterFails # 0 /\ LockDuration \in Nat /\ MaxTime \in Nat
      /\ now \in 0..MaxTime
  BY Unchanged, SessionConstants DEF SessionConstants, Time
<1>2. CASE WrongPassword
  <2>1. now + LockDuration \in 0..MaxTime + LockDuration
    BY <1>1
  <2>2. failCount + 1 < LockAfterFails => failCount + 1 \in 0..LockAfterFails - 1
    BY <1>1 DEF Locks
  <2>3. failCount \in Int /\ 0 \in 0..LockAfterFails - 1
    BY <1>1 DEF Locks
  <2> QED  BY <1>1, <1>2, <2>1, <2>2, <2>3 DEF WrongPassword, Locks
<1>3. CASE Unlock
  BY <1>1, <1>3 DEF Unlock, Locks
<1>4. CASE UNCHANGED lock
  BY <1>4 DEF lock, Locks
<1>5. ASSUME NEW w \in Workers, NEW o \in Outcomes,
             \/ EnterSession(w, o) \/ RenewSession(w, o) \/ PersistRestored(w, o)
             \/ ChangePassword(w, o) \/ ResetPassword(w, o) \/ DeleteUser(w, o)
             \/ \E g \in Grants : SetGroups(w, g, o)
             \/ \E t \in Tokens : RevokeSession(w, t, o)
             \/ \E c \in work[w].todo : ResaveSession(w, c, o)
      PROVE  Unlock \/ UNCHANGED lock
  BY <1>5 DEF EnterSession, RenewSession, PersistRestored, Persist, ChangePassword, ResetPassword,
     DeleteUser, SetGroups, RevokeSession, ResaveSession
<1>6. ASSUME NEW w \in Workers,
             \/ \E p \in Preauths, c \in Captchas : CheckCaptcha(w, p, c)
             \/ \E t \in Tokens : OpenSession(w, t)
             \/ \E t \in Tokens, snapshot \in BOOLEAN : Request(w, t, snapshot)
             \/ LoginRefused(w) \/ SessionEntered(w) \/ RestoreSession(w) \/ PutSession(w)
             \/ Respond(w) \/ Logout(w) \/ KillSessions(w) \/ RefreshSessions(w)
      PROVE  UNCHANGED lock
  BY <1>6 DEF CheckCaptcha, OpenSession, Request, LoginRefused, SessionEntered, RestoreSession,
     PutSession, Respond, Logout, KillSessions, RefreshSessions
<1>7. ASSUME \/ \E p \in Preauths : LoginPassword(p) \/ PreauthExpires(p)
             \/ \E c \in Captchas : NewCaptcha(c) \/ CaptchaFails(c)
             \/ MembersListed \/ Restart
             \/ SweepMaps \/ SweepRows \/ Tick \/ UNCHANGED vars
      PROVE  Unlock \/ UNCHANGED lock
  BY <1>7 DEF LoginPassword, PreauthExpires, NewCaptcha, CaptchaFails, MembersListed, Restart,
     SweepMaps, SweepRows, Tick, vars
<1> QED  BY <1>2, <1>3, <1>4, <1>5, <1>6, <1>7 DEF Next

LEMMA ChallengesStep == Challenges /\ [Next]_vars => Challenges'
<1> SUFFICES ASSUME Challenges, [Next]_vars PROVE Challenges'
  OBVIOUS
<1>1. CASE UNCHANGED <<challenges, sweeping>>
  BY <1>1 DEF challenges, Challenges
<1>2. ASSUME NEW w \in Workers,
             \/ \E p \in Preauths, c \in Captchas : CheckCaptcha(w, p, c)
             \/ \E t \in Tokens : OpenSession(w, t)
             \/ LoginRefused(w)
      PROVE  Challenges'
  BY <1>2 DEF CheckCaptcha, OpenSession, LoginRefused, Challenges
<1>3. ASSUME \/ \E p \in Preauths : LoginPassword(p) \/ PreauthExpires(p)
             \/ \E c \in Captchas : NewCaptcha(c) \/ CaptchaFails(c)
      PROVE  Challenges'
  BY <1>3 DEF LoginPassword, PreauthExpires, NewCaptcha, CaptchaFails, Challenges
<1>4. CASE SweepMaps \/ SweepRows
  BY <1>4 DEF SweepMaps, SweepRows, challenges, Challenges
<1>5. CASE Restart
  BY <1>5 DEF Restart, Challenges
<1>6. ASSUME NEW w \in Workers,
             \/ \E t \in Tokens, snapshot \in BOOLEAN : Request(w, t, snapshot)
             \/ SessionEntered(w) \/ RestoreSession(w) \/ PutSession(w)
             \/ Respond(w) \/ Logout(w) \/ KillSessions(w) \/ RefreshSessions(w)
      PROVE  UNCHANGED <<challenges, sweeping>>
  BY <1>6 DEF Request, SessionEntered, RestoreSession, PutSession, Respond, Logout, KillSessions,
     RefreshSessions
<1>7. ASSUME NEW w \in Workers, NEW o \in Outcomes,
             \/ EnterSession(w, o) \/ RenewSession(w, o) \/ PersistRestored(w, o)
             \/ ChangePassword(w, o) \/ ResetPassword(w, o) \/ DeleteUser(w, o)
             \/ \E g \in Grants : SetGroups(w, g, o)
             \/ \E t \in Tokens : RevokeSession(w, t, o)
             \/ \E c \in work[w].todo : ResaveSession(w, c, o)
      PROVE  UNCHANGED <<challenges, sweeping>>
  BY <1>7 DEF EnterSession, RenewSession, PersistRestored, Persist, ChangePassword, ResetPassword,
     DeleteUser, SetGroups, RevokeSession, ResaveSession
<1>8. ASSUME WrongPassword \/ MembersListed \/ Tick \/ UNCHANGED vars
      PROVE  UNCHANGED <<challenges, sweeping>>
  BY <1>8 DEF WrongPassword, MembersListed, Tick, vars
<1> QED  BY <1>1, <1>2, <1>3, <1>4, <1>5, <1>6, <1>7, <1>8 DEF Next

(* Every variable of the account, its lock, its challenges and its         *)
(* sessions keeps its type, and the counters their bounds.                 *)
THEOREM TypeCorrect == Spec => []TypeOK
<1>1. Init => Counters /\ Locks /\ Challenges
  <2> SUFFICES ASSUME Init PROVE Counters /\ Locks /\ Challenges
    OBVIOUS
  <2>1. account.password = 0 /\ accountRow.password = 0 /\ events = 0
    BY DEF Init
  <2>2. failCount = 0 /\ lockedUntil = 0
    BY DEF Init
  <2>3. Challenges
    BY DEF Init, Challenges
  <2>4. Counters /\ Locks
    BY <2>1, <2>2, SessionConstants DEF Counters, Locks, SessionConstants
  <2> QED  BY <2>3, <2>4
<1>2. IInv /\ Counters /\ Locks /\ Challenges => TypeOK
  <2> SUFFICES ASSUME IInv, Counters, Locks, Challenges PROVE TypeOK
    OBVIOUS
  <2>1. {account, accountRow} \subseteq
          [present : BOOLEAN, password : 0..MaxEvents, grant : Grants \cup {NoGroups}]
    BY Unchanged DEF Counters, Accounts, AllGrants
  <2>2. DOMAIN work = Workers /\ \A w \in Workers : work[w].stage \in Stages
    BY Unchanged DEF Requests
  <2>3. /\ born \in [Tokens -> Time \cup {NoBirth}] /\ ended \subseteq Tokens /\ astray \subseteq Tokens
    BY DEF IInv, Typed
  <2> QED  BY <2>1, <2>2, <2>3, Unchanged DEF TypeOK, Counters, Locks, Challenges
<1> QED  BY <1>1, <1>2, CountersStep, LocksStep, ChallengesStep, Initially, Step, PTL DEF Spec

=============================================================================
