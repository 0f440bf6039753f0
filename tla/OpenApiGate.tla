----------------------------- MODULE OpenApiGate -----------------------------
(***************************************************************************)
(* The gate of the open API (server/fleet/openapi.go): how a signed call   *)
(* with an API key is authenticated and served, and how the key is made,   *)
(* changed and revoked.                                                    *)
(*                                                                         *)
(* authenticate takes the mutex four times for one call: to look for a     *)
(* lock, to look up the key and use up the nonce, to count the call        *)
(* against the rate limit, or to record a failure.  Signatures are checked *)
(* in between, and the clock of the rate limit and that of a failure are   *)
(* read before their sections.  A key is changed and revoked with the      *)
(* mutex held over the write of its row; it is created by writing the row  *)
(* first.                                                                  *)
(*                                                                         *)
(* One key, called from several addresses; calls that name no key, which   *)
(* are refused and fail against their address alone, are left out.  A      *)
(* nonce stands for one signed message with its timestamp, which may       *)
(* arrive any number of times; the signature of a call is right or wrong.  *)
(* Of the settings of config.go those change that say whether the API is   *)
(* open, which timestamps it accepts and how many calls; the ones of the   *)
(* lockout do not.                                                         *)
(***************************************************************************)
EXTENDS Integers, Sequences, FiniteSets, FiniteSetsExt

CONSTANTS
    Workers,
    Ips,            \* addresses of callers
    Nonces,         \* X-Nonce
    Stamp,          \* Stamp[n]: X-Timestamp of the message with nonce n
    Grants,         \* what a key may be given: scopes and vehicles, addresses, expiry
    Settings,       \* the settings an administrator may ask for
    Defaults,       \* the settings where none are stored
    MaxWindow,      \* the longest replay_window_s, 3600 s
    NonceTtl,       \* the 600 s a nonce is remembered
    RateWindow,     \* the 10 s rate_limit counts over
    Threshold,      \* open_lockout_threshold
    FailWindow,     \* open_lockout_window_s
    LockTime,       \* open_lockout_seconds
    MaxTime,        \* bound: the clock
    MaxEvents       \* bound: changes of key and settings, and restarts

(* The operations of serveRoute, queries taken together.                   *)
Calls == {"query", "command", "cancel", "stop"}

ASSUME GateConstants ==
    /\ {NonceTtl, FailWindow, MaxTime, MaxEvents} \subseteq Nat
    /\ {RateWindow, Threshold, LockTime} \subseteq Nat \ {0}
    /\ Settings \subseteq [enabled : BOOLEAN, window : Nat, limit : Nat]
    /\ MaxWindow \in Nat /\ Defaults \in Settings
    /\ Stamp \in [Nonces -> Nat]
    /\ Grants \subseteq [calls : SUBSET Calls, ips : SUBSET Ips, expires : Nat]
    /\ IsFiniteSet(Workers) /\ Workers # {}

Time == 0..MaxTime

(* APIKey and its row: what it grants, and revoked_at.                     *)
Keys == [grant : Grants, revoked : BOOLEAN]
NoKey == [grant |-> [calls |-> {}, ips |-> {}, expires |-> 0], revoked |-> TRUE]

(* What is locked after failures: an address, or the key.                  *)
Targets == Ips \cup {"key"}

(* lockEntry *)
NoLock == [fails |-> <<>>, until |-> 0]

(* A call between two critical sections: its nonce, address and signature, *)
(* the clock and rate_limit it has read, the copy of the key it is served  *)
(* with, and as history the states of the key since it arrived.  Which     *)
(* operation it asks for matters only when it is served.                   *)
Idle == [stage |-> "idle", nonce |-> "none", ip |-> "none", signed |-> FALSE,
         at |-> 0, limit |-> 0, key |-> NoKey, seen |-> {}]
Stages == {"idle", "arrived", "checked", "timed", "admitted", "failing"}

VARIABLES
    now,
    key,            \* o.keys, o.byHash
    keyRow,         \* api_keys
    publishing,     \* CreateKey has written the row and not yet the map
    nonces,         \* o.nonces: until when a nonce is remembered
    hits,           \* o.hits[keyID]
    locks,          \* o.locks
    config,         \* ConfigStore.values
    configRow,      \* platform_config
    work,           \* the calls being served
    inForce,        \* history: the states the key may be in for a call that
                    \* arrives now, after all that was answered
    uses,           \* history: when this process used up each nonce
    admitted,       \* history: when a call read the clock and was let in
    highest,        \* history: the highest rate_limit there was
    during,         \* history: failures of a target while it was locked
    events          \* counts what MaxEvents bounds

keys == <<key, keyRow, publishing, inForce>>
memory == <<nonces, hits, locks, uses, admitted, during>>
settings == <<config, configRow, highest>>
vars == <<now, keys, settings, memory, work, events>>

(* The outcomes of a write: an error may come before or after its effect.  *)
Outcomes == {"ok", "failed", "unanswered"}
Applied(o) == o \in {"ok", "unanswered"}
Event == events < MaxEvents /\ events' = events + 1

(* The bounds of replay_window_s and rate_limit; no limit here is as high  *)
(* as the 10000 allowed.                                                   *)
validateConfigValue(c) == c.window \in 1..MaxWindow /\ c.limit >= 1

(* The times of list s later than cut, in their order.  Their positions    *)
(* are enumerated upwards.                                                 *)
Upwards(K) ==
    {f \in [1..Cardinality(K) -> K] : \A i, j \in 1..Cardinality(K) : i < j => f[i] < f[j]}

Later(s, cut) ==
    LET K == {i \in DOMAIN s : s[i] > cut}
        f == CHOOSE h \in Upwards(K) : TRUE
    IN [i \in 1..Cardinality(K) |-> s[f[i]]]

Init ==
    /\ now = 0
    /\ key \in {NoKey} \cup [grant : Grants, revoked : {FALSE}]
    /\ keyRow = key /\ publishing = FALSE
    /\ inForce = {key}
    /\ config = Defaults /\ configRow = config
    /\ highest = config.limit
    /\ nonces = [n \in Nonces |-> 0]
    /\ hits = <<>>
    /\ locks = [t \in Targets |-> NoLock]
    /\ work = [w \in Workers |-> Idle]
    /\ uses = [n \in Nonces |-> <<>>]
    /\ admitted = <<>>
    /\ during = [t \in Targets |-> 0]
    /\ events = 0

-----------------------------------------------------------------------------
(* authenticate                                                            *)

Locked(t) == locks[t].until > now

(* Mutant: a lock ends a second early.                                     *)
LockedOutShortly(ip) == locks[ip].until > now + 1 \/ locks["key"].until > now + 1

LockedOut(ip) == Locked(ip) \/ Locked("key")

(* locked() forgets a lock that has run out.                               *)
Unlocked ==
    [t \in Targets |-> IF 0 < locks[t].until /\ locks[t].until <= now
                       THEN NoLock ELSE locks[t]]

InWindow(n) == now - Stamp[n] \in -config.window..config.window

(* A call that is refused and has to be recorded as a failure.             *)
Failing(ip) == [Idle EXCEPT !.stage = "failing", !.ip = ip, !.at = now]

(* A call arrives: the API is open, locked() lets the call pass, and its   *)
(* timestamp is looked at.                                                 *)
Arrive(w, n, ip, signed) ==
    /\ work[w] = Idle
    /\ config.enabled /\ ~LockedOut(ip)
    /\ locks' = [t \in Targets |-> IF t \in {ip, "key"} THEN Unlocked[t] ELSE locks[t]]
    /\ work' = [work EXCEPT
                  ![w] = IF InWindow(n)
                         THEN [Idle EXCEPT !.stage = "arrived", !.nonce = n, !.ip = ip,
                                           !.signed = signed, !.seen = inForce]
                         ELSE Failing(ip)]
    /\ UNCHANGED <<now, keys, settings, nonces, hits, uses, admitted, during, events>>

ipAllowed(ip) == ip \in key.grant.ips

Usable(ip) == ~key.revoked /\ key.grant.expires > now /\ ipAllowed(ip)

(* Mutant: a nonce may come again in the last second it is remembered.     *)
SeenShortly(n) == nonces[n] > now + 1

Seen(n) == nonces[n] > now

(* The second section: the key exists, has not expired and may be used     *)
(* from this address, and the nonce is new; then it is used up.  A key     *)
(* that has expired is refused without a failure.                          *)
CheckKey(w) ==
    LET n == work[w].nonce  ip == work[w].ip IN
    /\ work[w].stage = "arrived"
    /\ \/ /\ Usable(ip) /\ ~Seen(n)
          /\ nonces' = [nonces EXCEPT ![n] = now + NonceTtl]
          /\ uses' = [uses EXCEPT ![n] = Append(@, now)]
          /\ work' = [work EXCEPT ![w].stage = "checked"]
       \/ /\ ~key.revoked /\ key.grant.expires <= now
          /\ work' = [work EXCEPT ![w] = Idle]
          /\ UNCHANGED <<nonces, uses>>
       \/ /\ key.revoked \/ (key.grant.expires > now /\ (ipAllowed(ip) => Seen(n)))
          /\ work' = [work EXCEPT ![w] = Failing(ip)]
          /\ UNCHANGED <<nonces, uses>>
    /\ UNCHANGED <<now, keys, settings, hits, locks, admitted, during, events>>

(* The signature is checked, then rate_limit and the clock are read.       *)
VerifySignature(w) ==
    /\ work[w].stage = "checked"
    /\ work' = [work EXCEPT ![w] = IF @.signed
                                   THEN [@ EXCEPT !.stage = "timed", !.at = now,
                                                  !.limit = config.limit]
                                   ELSE Failing(@.ip)]
    /\ UNCHANGED <<now, keys, settings, memory, events>>

Recent(at) == Later(hits, at - RateWindow)

(* The slice of the recent calls shares the array of hits: a call that is  *)
(* refused leaves them at its front, and what was behind them as it was.   *)
Compacted(at) == Recent(at) \o SubSeq(hits, Len(Recent(at)) + 1, Len(hits))

(* Mutant: a call that is let in is not counted.                           *)
CountedNot(at) == Recent(at)

Counted(at) == Append(Recent(at), at)

(* The third section: the rate limit.  A call that is let in forgets the   *)
(* failures and locks of its key and address, and copies the key.          *)
Admit(w) ==
    LET at == work[w].at  ip == work[w].ip IN
    /\ work[w].stage = "timed"
    /\ IF Len(Recent(at)) >= work[w].limit
       THEN /\ hits' = Compacted(at)
            /\ work' = [work EXCEPT ![w] = Idle]
            /\ UNCHANGED <<locks, admitted, during>>
       ELSE /\ hits' = Counted(at)
            /\ locks' = [t \in Targets |-> IF t \in {ip, "key"} THEN NoLock ELSE locks[t]]
            /\ during' = [t \in Targets |-> IF t \in {ip, "key"} THEN 0 ELSE during[t]]
            /\ admitted' = Append(admitted, [read |-> at, real |-> now])
            /\ work' = [work EXCEPT ![w] = [Idle EXCEPT !.stage = "admitted", !.key = key,
                                                         !.seen = work[w].seen]]
    /\ UNCHANGED <<now, keys, settings, nonces, uses, events>>

(* recordFail, for the address and for the key: the clock is read at some  *)
(* moment since the call was refused, and a lock that stood then stands.   *)
RecordFail(w) ==
    LET failed == {work[w].ip, "key"} IN
    /\ work[w].stage = "failing"
    /\ \E at \in work[w].at..now :
        LET kept(t) == Later(locks[t].fails, at - FailWindow)
            full(t) == Len(kept(t)) + 1 >= Threshold
        IN locks' = [t \in Targets |->
                       IF t \notin failed \/ locks[t].until > at THEN locks[t]
                       ELSE IF full(t) THEN [fails |-> <<>>, until |-> at + LockTime]
                       ELSE [locks[t] EXCEPT !.fails = Append(kept(t), at)]]
    /\ during' = [t \in Targets |-> IF t \notin failed THEN during[t]
                                    ELSE IF Locked(t) THEN during[t] + 1 ELSE 0]
    /\ work' = [work EXCEPT ![w] = Idle]
    /\ UNCHANGED <<now, keys, settings, nonces, hits, uses, admitted, events>>

(* serveRoute: hasScope and vehicleAllowed look at the copy of the key.    *)
Allows(k, c) == c \in k.grant.calls

(* One way to serve a call; it ends with its entry in the audit.           *)
Serve(w, does) ==
    /\ work[w].stage = "admitted" /\ does
    /\ work' = [work EXCEPT ![w] = Idle]
    /\ UNCHANGED <<now, keys, settings, memory, events>>

Deny(w, c) == Serve(w, ~Allows(work[w].key, c))

(* Lists, details, telemetry, alarms and tasks.                            *)
Query(w, c) == Serve(w, c = "query" /\ Allows(work[w].key, c))

(* What happens next is the matter of NavigationRoute, ...                 *)
NavCommand(w, c) == Serve(w, c = "command" /\ Allows(work[w].key, c))
NavCancel(w, c) == Serve(w, c = "cancel" /\ Allows(work[w].key, c))

(* ... and of ControlAuthority.                                            *)
EmergencyStop(w, c) == Serve(w, c = "stop" /\ Allows(work[w].key, c))

-----------------------------------------------------------------------------
(* The key                                                                 *)

(* The key gets into a new state; calls on their way may meet it.          *)
Answered(k, o) ==
    /\ inForce' = CASE o = "ok" -> {k}
                    [] o = "unanswered" -> inForce \cup {k}
                    [] o = "failed" -> inForce
    /\ work' = [w \in Workers |-> IF work[w].stage \in {"idle", "failing"} \/ o = "failed" THEN work[w]
                                  ELSE [work[w] EXCEPT !.seen = @ \cup {k}]]

(* resolveAPIKeyExpiry, which allows no key without an end.                *)
Resolved(g) == g.expires > now

(* persistKey inserts the row.                                             *)
persistKey(k, o) == IF Applied(o) THEN k ELSE keyRow

(* persistKeyUpdate leaves a row alone that is revoked.                    *)
persistKeyUpdate(g, o) ==
    IF Applied(o) /\ ~keyRow.revoked THEN [keyRow EXCEPT !.grant = g] ELSE keyRow

(* CreateKeyWithExpiry: the row is written, without the mutex, ...         *)
CreateKey(g, o) ==
    LET k == [grant |-> g, revoked |-> FALSE] IN
    /\ keyRow = NoKey /\ ~publishing /\ Resolved(g)
    /\ Event
    /\ keyRow' = persistKey(k, o)
    /\ publishing' = (o = "ok")
    /\ inForce' = IF Applied(o) THEN inForce \cup {k} ELSE inForce
    /\ work' = [w \in Workers |-> IF work[w].stage \in {"idle", "failing"} \/ o = "failed" THEN work[w]
                                  ELSE [work[w] EXCEPT !.seen = @ \cup {k}]]
    /\ UNCHANGED <<now, key, settings, memory>>

(* ... and then the key is put in the map.                                 *)
PublishKey ==
    /\ publishing
    /\ publishing' = FALSE
    /\ key' = keyRow
    /\ Answered(keyRow, "ok")
    /\ UNCHANGED <<now, keyRow, settings, memory, events>>

(* Mutant: the change is written and not taken over by the map.            *)
UpdatedNot(g, o) == key

(* UpdateKey takes the change over once it is saved.                       *)
Updated(g, o) == IF o = "ok" THEN [key EXCEPT !.grant = g] ELSE key

(* UpdateKey; the expiry is looked at only where it is changed.            *)
UpdateKey(g, o) ==
    /\ ~key.revoked /\ key.grant # g
    /\ g.expires # key.grant.expires => Resolved(g)
    /\ Event
    /\ key' = Updated(g, o)
    /\ keyRow' = persistKeyUpdate(g, o)
    /\ Answered([key EXCEPT !.grant = g], o)
    /\ UNCHANGED <<now, publishing, settings, memory>>

(* Revoke; a row that was revoked by an unanswered attempt refuses it, and *)
(* the key stays in the map.                                               *)
Revoke(o) ==
    /\ ~key.revoked /\ ~keyRow.revoked
    /\ Event
    /\ key' = IF o = "ok" THEN [key EXCEPT !.revoked = TRUE] ELSE key
    /\ keyRow' = IF Applied(o) THEN [keyRow EXCEPT !.revoked = TRUE] ELSE keyRow
    /\ Answered([key EXCEPT !.revoked = TRUE], o)
    /\ UNCHANGED <<now, publishing, settings, memory>>

-----------------------------------------------------------------------------
(* Settings and restarts                                                   *)

(* SetForActor: one transaction, and memory follows when it is answered.   *)
SetForActor(c, o) ==
    /\ config # c /\ validateConfigValue(c)
    /\ Event
    /\ configRow' = IF Applied(o) THEN c ELSE configRow
    /\ config' = IF o = "ok" THEN c ELSE config
    /\ highest' = IF Applied(o) THEN Max({highest, c.limit}) ELSE highest
    /\ UNCHANGED <<now, keys, memory, work>>

(* load and loadKeys at a start: when a table cannot be read the settings  *)
(* are the defaults, and there is no key.                                  *)
loadConfig(read) == IF read THEN configRow ELSE Defaults

loadKeys(read) == IF read THEN keyRow ELSE NoKey

(* NewOpenAPI; nonces, hits and locks are gone.                            *)
Restart(configRead, keysRead) ==
    /\ Event
    /\ key' = loadKeys(keysRead)
    /\ publishing' = FALSE
    /\ nonces' = [n \in Nonces |-> 0]
    /\ hits' = <<>>
    /\ locks' = [t \in Targets |-> NoLock]
    /\ uses' = [n \in Nonces |-> <<>>]
    /\ admitted' = <<>>
    /\ during' = [t \in Targets |-> 0]
    /\ work' = [w \in Workers |-> Idle]
    /\ config' = loadConfig(configRead)
    /\ highest' = Max({highest, config'.limit})
    /\ UNCHANGED <<now, keyRow, inForce, configRow>>

Tick ==
    /\ now < MaxTime
    /\ now' = now + 1
    /\ UNCHANGED <<keys, settings, memory, work, events>>

Next ==
    \/ \E w \in Workers :
        \/ \E n \in Nonces, ip \in Ips, signed \in BOOLEAN : Arrive(w, n, ip, signed)
        \/ CheckKey(w)
        \/ VerifySignature(w)
        \/ Admit(w)
        \/ RecordFail(w)
        \/ \E c \in Calls :
            \/ Deny(w, c)
            \/ Query(w, c)
            \/ NavCommand(w, c)
            \/ NavCancel(w, c)
            \/ EmergencyStop(w, c)
    \/ \E o \in Outcomes :
        \/ \E g \in Grants : CreateKey(g, o) \/ UpdateKey(g, o)
        \/ Revoke(o)
        \/ \E c \in Settings : SetForActor(c, o)
    \/ PublishKey
    \/ \E configRead, keysRead \in BOOLEAN : Restart(configRead, keysRead)
    \/ Tick

Spec == Init /\ [][Next]_vars

-----------------------------------------------------------------------------
(* Properties                                                              *)

(* Every variable has its type.                                            *)
TypeOK ==
    /\ now \in Time
    /\ {key, keyRow} \cup inForce \subseteq Keys \cup {NoKey}
    /\ publishing \in BOOLEAN
    /\ nonces \in [Nonces -> 0..MaxTime + NonceTtl]
    /\ {config, configRow} \subseteq Settings
    /\ Len(hits) <= highest
    /\ \A t \in Targets : locks[t].until \in 0..MaxTime + LockTime
                          /\ Len(locks[t].fails) < Threshold
    /\ DOMAIN work = Workers /\ \A w \in Workers : work[w].stage \in Stages
    /\ events \in 0..MaxEvents

(* In the life of a process one signed message is let past the nonce check *)
(* again only NonceTtl later, however many copies of it arrive together.   *)
(* With replay_window_s at half that time this leaves a single pair of     *)
(* moments, the first and the last second at which its timestamp is        *)
(* accepted; a longer replay_window_s leaves more.                         *)
ReplaysAreRefused ==
    \A n \in Nonces : \A i, j \in DOMAIN uses[n] :
        i < j => uses[n][j] - uses[n][i] >= NonceTtl

(* No more calls are let in over any RateWindow than the highest limit     *)
(* there was, however the limit is changed under way; those left out that  *)
(* read the clock before the window and waited for the mutex.              *)
RateIsBounded ==
    \A x \in Time :
        Cardinality({i \in DOMAIN admitted : /\ admitted[i].read > x - RateWindow
                                             /\ admitted[i].real <= x}) <= highest

(* While an address or the key is locked, only the calls that were on      *)
(* their way when the lock fell can fail against it: one for each worker   *)
(* but the one that brought it about.                                      *)
LockStopsGuessing ==
    \A t \in Targets : during[t] <= Cardinality(Workers) - 1

(* Once a change of the key is answered, no call that arrives later is     *)
(* served with what the key granted before, and after a revocation none is *)
(* served at all: not after a restart, and not when other writes fail.     *)
AnsweredChangesHold ==
    \A w \in Workers : work[w].stage = "admitted" =>
        /\ work[w].key \in work[w].seen
        /\ \E k \in work[w].seen : ~k.revoked

=============================================================================
