-------------------------- MODULE OpenApiGateProofs --------------------------
(***************************************************************************)
(* Proofs about OpenApiGate for any number of workers, addresses, nonces,  *)
(* settings, changes of the key and restarts.                              *)
(*                                                                         *)
(* Four invariants rest on the types: of the nonces (NInv), of the states  *)
(* of the key a call has seen (KInv), of the failures still possible       *)
(* against a lock (LInv) and of the calls let in that the hits still count *)
(* (RInv).                                                                 *)
(***************************************************************************)
EXTENDS OpenApiGate, FiniteSetTheorems, TLAPS

(* The types of a key, a call and a lock.                                  *)

AnyKey == Keys \cup {NoKey}

Calling ==
    [stage : Stages, nonce : Nonces \cup {"none"}, ip : Ips \cup {"none"}, signed : BOOLEAN,
     at : Time, limit : Nat, key : AnyKey, seen : SUBSET AnyKey]

Locks == [fails : Seq(Time), until : 0..MaxTime + LockTime]

OnItsWay(w) == work[w].stage \in {"arrived", "checked", "timed", "failing"}

Typed ==
    /\ now \in Time
    /\ key \in AnyKey /\ keyRow \in AnyKey /\ inForce \subseteq AnyKey
    /\ publishing \in BOOLEAN
    /\ nonces \in [Nonces -> 0..MaxTime + NonceTtl]
    /\ config \in Settings /\ configRow \in Settings /\ highest \in Nat
    /\ hits \in Seq(Time)
    /\ locks \in [Targets -> Locks]
    /\ work \in [Workers -> Calling]
    /\ uses \in [Nonces -> Seq(Time)]
    /\ admitted \in Seq([read : Time, real : Time])
    /\ during \in [Targets -> Nat]
    /\ events \in 0..MaxEvents

(* A call under way has an address, and a nonce where that is looked up.   *)
CallsNamed ==
    \A w \in Workers :
        /\ OnItsWay(w) => work[w].ip \in Ips
        /\ work[w].stage = "arrived" => work[w].nonce \in Nonces

FewFails == \A t \in Targets : Len(locks[t].fails) < Threshold

TInv == Typed /\ CallsNamed /\ FewFails

(* A nonce is remembered at least NonceTtl after its last use.             *)
UsesRemembered ==
    \A n \in Nonces : \A i \in DOMAIN uses[n] : uses[n][i] + NonceTtl <= nonces[n]

NInv == UsesRemembered /\ ReplaysAreRefused

(* The key in memory and its row are in a state that is in force, or       *)
(* revoked.                                                                *)
StatesInForce ==
    /\ key \in inForce \/ key.revoked
    /\ keyRow \in inForce \/ keyRow.revoked

(* Whatever state the key is in, a call under way has seen it; past the    *)
(* check it has seen one that was not revoked.                             *)
StatesSeen ==
    \A w \in Workers :
        /\ work[w].stage = "arrived" => key \in work[w].seen \/ key.revoked
        /\ work[w].stage \in {"checked", "timed"} =>
              key \in work[w].seen /\ \E k \in work[w].seen : ~k.revoked

KInv == StatesInForce /\ StatesSeen /\ AnsweredChangesHold

(* The calls under way that may yet fail against t.                        *)
MayFail(t) == {w \in Workers : OnItsWay(w) /\ (t = "key" \/ work[w].ip = t)}

(* While t is locked, the failures so far and those still possible are     *)
(* fewer than the calls that can be under way.                             *)
LockCounts ==
    \A t \in Targets : Locked(t) =>
        during[t] + Cardinality(MayFail(t)) <= Cardinality(Workers) - 1

LInv == LockStopsGuessing /\ LockCounts

(* A call whose clock was read compares with a limit there was.            *)
LimitsKnown ==
    /\ config.limit <= highest /\ configRow.limit <= highest
    /\ \A w \in Workers : work[w].stage = "timed" =>
          work[w].limit <= highest /\ work[w].at <= now

Admitted(y) == {i \in DOMAIN admitted : admitted[i].read > y}
Hits(y) == {i \in DOMAIN hits : hits[i] > y}

(* Every call let in that is still in a window ending now or later is      *)
(* among the hits.                                                         *)
AdmittedIsCounted ==
    \A x \in Time : x >= now =>
        Cardinality(Admitted(x - RateWindow)) <= Cardinality(Hits(x - RateWindow))

RInv ==
    /\ LimitsKnown /\ AdmittedIsCounted /\ RateIsBounded
    /\ Len(hits) <= highest
    /\ \A i \in DOMAIN admitted : admitted[i].real <= now

-----------------------------------------------------------------------------
(* Lists of times                                                          *)

LEMMA WorkersCounted == IsFiniteSet(Workers) /\ Cardinality(Workers) \in Nat \ {0}
BY GateConstants, FS_CardinalityType, FS_EmptySet

LEMMA HighestOf ==
    ASSUME NEW N \in Nat, NEW S \in SUBSET (0..N), S # {}
    PROVE  \E x \in S : \A y \in S : y <= x
<1> DEFINE T == {N - x : x \in S}
<1>1. T \subseteq Nat /\ T # {}
  <2>1. \A x \in S : x \in 0..N /\ N - x \in Nat
    OBVIOUS
  <2> QED BY <2>1
<1>2. \E t \in T : \A y \in T : ~(<<y, t>> \in OpToRel(<, Nat))
  BY <1>1, WFMin, NatLessThanWellFounded
<1>3. PICK t \in T : \A y \in T : ~(y < t)
  BY <1>1, <1>2 DEF OpToRel
<1>4. PICK x \in S : t = N - x
  BY <1>3
<1>5. \A y \in S : y <= x
  <2> TAKE y \in S
  <2>1. N - y \in T
    OBVIOUS
  <2>2. ~(N - y < N - x)
    BY <1>3, <1>4, <2>1
  <2>3. x \in 0..N /\ y \in 0..N
    OBVIOUS
  <2> QED BY <2>2, <2>3
<1> QED BY <1>5

(* One position more, above all others.                                    *)
LEMMA UpwardsLonger ==
    ASSUME NEW N \in Nat, NEW K \in SUBSET (0..N), NEW m \in K, \A y \in K : y <= m,
           NEW n \in Nat, Cardinality(K) = n + 1, Cardinality(K \ {m}) = n,
           NEW f \in Upwards(K \ {m})
    PROVE  Upwards(K) # {}
<1> DEFINE h == [i \in 1..n + 1 |-> IF i = n + 1 THEN m ELSE f[i]]
<1>1. f \in [1..n -> K \ {m}] /\ \A i, j \in 1..n : i < j => f[i] < f[j]
  BY DEF Upwards
<1>2. \A i \in 1..n : f[i] \in K /\ f[i] \in Nat /\ m \in Nat /\ f[i] < m
  <2> TAKE i \in 1..n
  <2>1. f[i] \in K /\ f[i] # m
    BY <1>1
  <2>2. f[i] <= m /\ f[i] \in 0..N /\ m \in 0..N
    BY <2>1
  <2> QED BY <2>1, <2>2
<1>3. h \in [1..n + 1 -> K]
  BY <1>2
<1>4. ASSUME NEW i \in 1..n + 1, NEW j \in 1..n + 1, i < j
      PROVE  h[i] < h[j]
  <2>1. i \in 1..n /\ h[i] = f[i]
    BY <1>4
  <2>2. CASE j = n + 1
    BY <1>2, <2>1, <2>2
  <2>3. CASE j # n + 1
    <3>1. j \in 1..n /\ h[j] = f[j]
      BY <2>3
    <3> QED BY <1>1, <1>4, <2>1, <3>1
  <2> QED BY <2>2, <2>3
<1> HIDE DEF h
<1>5. h \in Upwards(K)
  BY <1>3, <1>4 DEF Upwards
<1> QED BY <1>5

(* Positions can be enumerated upwards.  A smallest set that cannot would  *)
(* have a highest member, and without it be smaller.                       *)
LEMMA UpwardsExist ==
    ASSUME NEW N \in Nat, NEW K0 \in SUBSET (0..N)
    PROVE  Upwards(K0) # {}
<1> SUFFICES ASSUME Upwards(K0) = {} PROVE FALSE
  OBVIOUS
<1> DEFINE T == {n \in Nat : \E K \in SUBSET (0..N) : Cardinality(K) = n /\ Upwards(K) = {}}
<1>1. \A K \in SUBSET (0..N) : IsFiniteSet(K) /\ Cardinality(K) \in Nat
  <2> TAKE K \in SUBSET (0..N)
  <2>1. IsFiniteSet(0..N)
    BY FS_Interval
  <2>2. IsFiniteSet(K)
    BY <2>1, FS_Subset
  <2> QED BY <2>2, FS_CardinalityType
<1>2. T \subseteq Nat /\ T # {}
  BY <1>1
<1>3. \E t \in T : \A y \in T : ~(<<y, t>> \in OpToRel(<, Nat))
  BY <1>2, WFMin, NatLessThanWellFounded
<1>4. PICK t \in T : \A y \in T : ~(y < t)
  BY <1>2, <1>3 DEF OpToRel
<1>5. PICK K \in SUBSET (0..N) : Cardinality(K) = t /\ Upwards(K) = {}
  BY <1>4
<1>6. K # {}
  <2> SUFFICES ASSUME K = {} PROVE FALSE
    OBVIOUS
  <2>1. Cardinality(K) = 0
    BY FS_EmptySet
  <2> DEFINE e == [i \in 1..0 |-> i]
  <2>2. e \in Upwards(K)
    BY <2>1 DEF Upwards
  <2> QED BY <1>5, <2>2
<1>7. PICK m \in K : \A y \in K : y <= m
  BY <1>6, HighestOf
<1>8. /\ IsFiniteSet(K \ {m}) /\ Cardinality(K \ {m}) = Cardinality(K) - 1
      /\ Cardinality(K \ {m}) \in Nat
  <2>1. IsFiniteSet(K)
    BY <1>1
  <2>2. Cardinality(K \ {m}) = IF m \in K THEN Cardinality(K) - 1 ELSE Cardinality(K)
    BY <2>1, FS_RemoveElement
  <2>3. IsFiniteSet(K \ {m}) /\ Cardinality(K \ {m}) \in Nat
    BY <1>1
  <2> QED BY <2>2, <2>3
<1>9. PICK n \in Nat : n = Cardinality(K \ {m})
  BY <1>8
<1>10. n < t /\ Cardinality(K) = n + 1
  BY <1>1, <1>5, <1>8, <1>9
<1>11. n \notin T
  BY <1>4, <1>10
<1>12. Upwards(K \ {m}) # {}
  BY <1>9, <1>11
<1>13. PICK f : f \in Upwards(K \ {m})
  BY <1>12
<1>14. Upwards(K) # {}
  BY <1>7, <1>9, <1>10, <1>13, UpwardsLonger
<1> QED BY <1>5, <1>14

(* What Later keeps: no more times than there were, and at least as many   *)
(* beyond any moment y from cut on.                                        *)
LEMMA LaterFacts ==
    ASSUME NEW s \in Seq(Time), NEW cut \in Int
    PROVE  /\ Later(s, cut) \in Seq(Time)
           /\ Len(Later(s, cut)) <= Len(s)
           /\ \A y \in Int : y >= cut =>
                 Cardinality({i \in DOMAIN s : s[i] > y}) <=
                    Cardinality({i \in DOMAIN Later(s, cut) : Later(s, cut)[i] > y})
<1> DEFINE K == {i \in DOMAIN s : s[i] > cut}
           c == Cardinality(K)
           f == CHOOSE h \in Upwards(K) : TRUE
           kept == [i \in 1..c |-> s[f[i]]]
<1>0. Later(s, cut) = kept
  BY DEF Later
<1>1. DOMAIN s = 1..Len(s) /\ Len(s) \in Nat /\ \A i \in DOMAIN s : s[i] \in Time /\ s[i] \in Int
  <2>1. DOMAIN s = 1..Len(s) /\ Len(s) \in Nat /\ \A i \in DOMAIN s : s[i] \in Time
    OBVIOUS
  <2>2. \A t \in Time : t \in Int
    BY DEF Time
  <2> QED BY <2>1, <2>2
<1>2. IsFiniteSet(1..Len(s)) /\ Cardinality(1..Len(s)) = Len(s)
  <2>1. Cardinality(1..Len(s)) = IF 1 > Len(s) THEN 0 ELSE Len(s) - 1 + 1
    BY <1>1, FS_Interval
  <2> QED BY <1>1, <2>1, FS_Interval
<1>3. K \in SUBSET (1..Len(s)) /\ K \in SUBSET (0..Len(s))
  <2>1. \A i \in K : i \in 1..Len(s)
    BY <1>1
  <2> QED BY <1>1, <2>1
<1> HIDE DEF K
<1>4. IsFiniteSet(K) /\ c <= Len(s) /\ c \in Nat
  <2>1. IsFiniteSet(K) /\ Cardinality(K) <= Cardinality(1..Len(s))
    BY <1>2, <1>3, FS_Subset
  <2>2. c \in Nat
    BY <2>1, FS_CardinalityType
  <2> QED BY <1>2, <2>1, <2>2
<1>5. f \in Upwards(K)
  <2>1. Upwards(K) # {}
    BY <1>1, <1>3, UpwardsExist
  <2> QED BY <2>1
<1> USE DEF K
<1>6. f \in [1..c -> K] /\ \A i, j \in 1..c : i < j => f[i] < f[j]
  BY <1>5 DEF Upwards
<1> HIDE DEF c, f
<1>7. kept \in [1..c -> Time] /\ \A i \in 1..c : kept[i] = s[f[i]] /\ f[i] \in K
  BY <1>1, <1>6
<1>8. kept \in Seq(Time) /\ Len(kept) = c /\ DOMAIN kept = 1..c
  BY <1>4, <1>7
<1>9. f \in Surjection(1..c, K)
  <2>1. f \in Injection(1..c, K)
    <3>1. \A i, j \in 1..c : f[i] = f[j] => i = j
      <4> SUFFICES ASSUME NEW i \in 1..c, NEW j \in 1..c, f[i] = f[j], i # j PROVE FALSE
        OBVIOUS
      <4>1. f[i] \in Nat /\ f[j] \in Nat
        BY <1>3, <1>6
      <4>2. CASE i < j
        BY <1>6, <4>1, <4>2
      <4>3. CASE j < i
        BY <1>6, <4>1, <4>3
      <4> QED BY <1>4, <4>2, <4>3
    <3> QED BY <1>6, <3>1 DEF Injection, IsInjective
  <2>2. Cardinality(1..c) = c
    BY <1>4, FS_Interval
  <2>3. Cardinality(1..c) = Cardinality(K)
    BY <2>2 DEF c
  <2> QED BY <1>4, <2>1, <2>3, FS_Injection
<1>10. ASSUME NEW y \in Int, y >= cut
       PROVE  Cardinality({i \in DOMAIN s : s[i] > y}) <=
                 Cardinality({i \in DOMAIN kept : kept[i] > y})
  <2> DEFINE A == {i \in DOMAIN s : s[i] > y}
             B == {i \in DOMAIN kept : kept[i] > y}
             g == [i \in B |-> f[i]]
  <2>1. \A i \in A : i \in K
    BY <1>1, <1>10
  <2>2. \A i \in B : f[i] \in A
    BY <1>7, <1>8
  <2>3. \A i \in A : \E j \in B : f[j] = i
    <3> TAKE i \in A
    <3>1. PICK j \in 1..c : f[j] = i
      BY <1>9, <2>1 DEF Surjection
    <3>2. kept[j] > y
      BY <1>7, <3>1
    <3> QED BY <1>8, <3>1, <3>2
  <2>4. g \in Surjection(B, A)
    BY <2>2, <2>3 DEF Surjection
  <2>5. B \in SUBSET (1..c) /\ IsFiniteSet(1..c)
    BY <1>4, <1>8, FS_Interval
  <2> HIDE DEF A, B, g
  <2>6. IsFiniteSet(B)
    BY <2>5, FS_Subset
  <2>7. Cardinality(A) <= Cardinality(B)
    BY <2>4, <2>6, FS_Surjection
  <2> QED BY <2>7 DEF A, B
<1> HIDE DEF kept
<1> QED BY <1>0, <1>4, <1>8, <1>10

-----------------------------------------------------------------------------
(* How the calls under way move                                            *)

LEMMA GateNumbers ==
    /\ MaxTime \in Nat /\ MaxEvents \in Nat /\ NonceTtl \in Nat /\ FailWindow \in Nat
    /\ RateWindow \in Nat \ {0} /\ Threshold \in Nat \ {0} /\ LockTime \in Nat \ {0}
    /\ Time \subseteq Nat /\ 0 \in Time
BY GateConstants DEF Time

LEMMA SettingsHaveLimits == \A c \in Settings : c.limit \in Nat
BY GateConstants

LEMMA KeysAreRecords ==
    /\ \A k \in AnyKey : k.revoked \in BOOLEAN /\ (~k.revoked => k \in Keys)
    /\ \A g \in Grants : [grant |-> g, revoked |-> FALSE] \in AnyKey
<1>1. NoKey.revoked = TRUE
  BY DEF NoKey
<1>2. \A k \in Keys : k.revoked \in BOOLEAN
  BY DEF Keys
<1>3. \A g \in Grants : [grant |-> g, revoked |-> FALSE] \in Keys
  BY DEF Keys
<1>4. ASSUME NEW k \in AnyKey
      PROVE  k.revoked \in BOOLEAN /\ (~k.revoked => k \in Keys)
  <2>1. CASE k \in Keys
    BY <1>2, <2>1
  <2>2. CASE k = NoKey
    BY <1>1, <2>2
  <2> QED BY <2>1, <2>2 DEF AnyKey
<1> QED BY <1>3, <1>4 DEF AnyKey

LEMMA GrantChanged ==
    ASSUME NEW k \in AnyKey, ~k.revoked, NEW g \in Grants
    PROVE  [k EXCEPT !.grant = g] = [grant |-> g, revoked |-> FALSE]
<1>1. k \in Keys /\ k.revoked = FALSE
  BY KeysAreRecords
<1>2. [k EXCEPT !.grant = g] = [grant |-> g, revoked |-> k.revoked]
  BY <1>1 DEF Keys
<1> QED BY <1>1, <1>2, Zenon

LEMMA KeyRevoked ==
    ASSUME NEW k \in AnyKey, ~k.revoked
    PROVE  [k EXCEPT !.revoked = TRUE] \in AnyKey /\ [k EXCEPT !.revoked = TRUE].revoked
<1>1. k \in Keys
  BY KeysAreRecords
<1> QED BY <1>1 DEF Keys, AnyKey

LEMMA IdleIsACall ==
    Idle \in Calling /\ Idle.stage = "idle" /\ ~Idle.signed
BY GateNumbers DEF Idle, Calling, Stages, AnyKey

LEMMA FailingIsACall ==
    ASSUME Typed, NEW ip \in Ips
    PROVE  Failing(ip) \in Calling /\ Failing(ip).stage = "failing" /\ Failing(ip).ip = ip
<1>1. \A y \in Calling : \A a \in Time :
        /\ [y EXCEPT !.stage = "failing", !.ip = ip, !.at = a] \in Calling
        /\ [y EXCEPT !.stage = "failing", !.ip = ip, !.at = a].stage = "failing"
        /\ [y EXCEPT !.stage = "failing", !.ip = ip, !.at = a].ip = ip
  BY DEF Calling, Stages
<1>2. now \in Time
  BY DEF Typed
<1> QED BY <1>1, <1>2, IdleIsACall DEF Failing

(* Call w moves on to x.                                                   *)
Moves(w, x) == x \in Calling /\ work' = [work EXCEPT ![w] = x]

LEMMA MovesOne ==
    ASSUME Typed, NEW w \in Workers, NEW x, Moves(w, x)
    PROVE  /\ work' \in [Workers -> Calling]
           /\ work'[w] = x /\ \A v \in Workers : v # w => work'[v] = work[v]
BY DEF Moves, Typed

LEMMA ArriveMoves ==
    ASSUME TInv, NEW w \in Workers, NEW n \in Nonces, NEW ip \in Ips, NEW signed \in BOOLEAN,
           Arrive(w, n, ip, signed)
    PROVE  \E x : /\ Moves(w, x) /\ x.ip = ip
                  /\ \/ x.stage = "failing"
                     \/ x.stage = "arrived" /\ x.nonce = n /\ x.seen = inForce
<1>1. CASE InWindow(n)
  <2> PICK x : x = [Idle EXCEPT !.stage = "arrived", !.nonce = n, !.ip = ip,
                                !.signed = signed, !.seen = inForce]
    OBVIOUS
  <2>1. ASSUME NEW y \in Calling, NEW S \in SUBSET AnyKey
        PROVE  LET z == [y EXCEPT !.stage = "arrived", !.nonce = n, !.ip = ip,
                                  !.signed = signed, !.seen = S]
               IN z \in Calling /\ z.stage = "arrived" /\ z.nonce = n /\ z.ip = ip /\ z.seen = S
    BY DEF Calling, Stages
  <2>2. inForce \in SUBSET AnyKey
    BY DEF TInv, Typed
  <2>3. x \in Calling /\ x.stage = "arrived" /\ x.nonce = n /\ x.ip = ip /\ x.seen = inForce
    BY <2>1, <2>2, IdleIsACall
  <2>4. work' = [work EXCEPT ![w] = x]
    BY <1>1 DEF Arrive
  <2> QED BY <2>3, <2>4 DEF Moves
<1>2. CASE ~InWindow(n)
  <2>1. work' = [work EXCEPT ![w] = Failing(ip)]
    BY <1>2 DEF Arrive
  <2> QED BY <2>1, FailingIsACall DEF Moves, TInv
<1> QED BY <1>1, <1>2

LEMMA CheckKeyMoves ==
    ASSUME TInv, NEW w \in Workers, CheckKey(w)
    PROVE  /\ work[w].stage = "arrived" /\ work[w].nonce \in Nonces /\ work[w].ip \in Ips
           /\ \E x : /\ Moves(w, x)
                     /\ \/ x.stage = "idle" /\ UNCHANGED <<nonces, uses>>
                        \/ x.stage = "failing" /\ x.ip = work[w].ip /\ UNCHANGED <<nonces, uses>>
                        \/ /\ x.stage = "checked" /\ x.ip = work[w].ip /\ x.seen = work[w].seen
                           /\ ~key.revoked /\ ~Seen(work[w].nonce)
                           /\ nonces' = [nonces EXCEPT ![work[w].nonce] = now + NonceTtl]
                           /\ uses' = [uses EXCEPT
                                         ![work[w].nonce] = Append(uses[work[w].nonce], now)]
<1>1. /\ work[w].stage = "arrived" /\ work[w].nonce \in Nonces /\ work[w].ip \in Ips
      /\ work[w] \in Calling /\ work \in [Workers -> Calling] /\ uses \in [Nonces -> Seq(Time)]
  BY DEF TInv, Typed, CallsNamed, OnItsWay, CheckKey
<1>2. CASE Usable(work[w].ip) /\ ~Seen(work[w].nonce)
           /\ work' = [work EXCEPT ![w].stage = "checked"]
           /\ nonces' = [nonces EXCEPT ![work[w].nonce] = now + NonceTtl]
           /\ uses' = [uses EXCEPT ![work[w].nonce] = Append(@, now)]
  <2> PICK x : x = [work[w] EXCEPT !.stage = "checked"]
    OBVIOUS
  <2>1. x \in Calling /\ x.stage = "checked" /\ x.ip = work[w].ip /\ x.seen = work[w].seen
    BY <1>1 DEF Calling, Stages
  <2>2. work' = [work EXCEPT ![w] = x]
    BY <1>1, <1>2
  <2>3. uses' = [uses EXCEPT ![work[w].nonce] = Append(uses[work[w].nonce], now)]
    BY <1>1, <1>2
  <2> QED BY <1>1, <1>2, <2>1, <2>2, <2>3 DEF Moves, Usable
<1>3. CASE work' = [work EXCEPT ![w] = Idle] /\ UNCHANGED <<nonces, uses>>
  BY <1>1, <1>3, IdleIsACall DEF Moves
<1>4. CASE work' = [work EXCEPT ![w] = Failing(work[w].ip)] /\ UNCHANGED <<nonces, uses>>
  BY <1>1, <1>4, FailingIsACall DEF Moves, TInv
<1> QED BY <1>2, <1>3, <1>4 DEF CheckKey

LEMMA VerifySignatureMoves ==
    ASSUME TInv, NEW w \in Workers, VerifySignature(w)
    PROVE  /\ work[w].stage = "checked" /\ work[w].ip \in Ips
           /\ \E x : /\ Moves(w, x) /\ x.ip = work[w].ip
                     /\ \/ x.stage = "failing"
                        \/ /\ x.stage = "timed" /\ x.seen = work[w].seen
                           /\ x.at = now /\ x.limit = config.limit
<1>1. /\ work[w].stage = "checked" /\ work[w].ip \in Ips
      /\ work[w] \in Calling /\ work \in [Workers -> Calling]
      /\ now \in Time /\ config.limit \in Nat
  BY SettingsHaveLimits DEF TInv, Typed, CallsNamed, OnItsWay, VerifySignature
<1>2. CASE work[w].signed
  <2> PICK y \in Calling : y = work[w]
    BY <1>1
  <2> PICK t \in Time : t = now
    BY <1>1
  <2> PICK l \in Nat : l = config.limit
    BY <1>1
  <2> PICK x : x = [y EXCEPT !.stage = "timed", !.at = t, !.limit = l]
    OBVIOUS
  <2>2. x \in Calling /\ x.stage = "timed" /\ x.at = t /\ x.limit = l
        /\ x.ip = y.ip /\ x.seen = y.seen
    BY DEF Calling, Stages
  <2>3. work' = [work EXCEPT ![w] = x]
    BY <1>1, <1>2 DEF VerifySignature
  <2> QED BY <1>1, <2>2, <2>3 DEF Moves
<1>3. CASE ~work[w].signed
  <2>1. work' = [work EXCEPT ![w] = Failing(work[w].ip)]
    BY <1>1, <1>3 DEF VerifySignature
  <2> QED BY <1>1, <2>1, FailingIsACall DEF Moves, TInv
<1> QED BY <1>2, <1>3

LEMMA AdmitMoves ==
    ASSUME TInv, NEW w \in Workers, Admit(w)
    PROVE  /\ work[w].stage = "timed" /\ work[w].ip \in Ips
           /\ work[w].at \in Time /\ work[w].limit \in Nat
           /\ \E x : /\ Moves(w, x)
                     /\ \/ /\ x.stage = "idle" /\ hits' = Compacted(work[w].at)
                           /\ UNCHANGED <<locks, admitted, during>>
                        \/ /\ x.stage = "admitted" /\ x.key = key /\ x.seen = work[w].seen
                           /\ Len(Recent(work[w].at)) < work[w].limit
                           /\ hits' = Counted(work[w].at)
                           /\ admitted' = Append(admitted, [read |-> work[w].at, real |-> now])
                           /\ locks' = [t \in Targets |-> IF t \in {work[w].ip, "key"} THEN NoLock
                                                          ELSE locks[t]]
                           /\ during' = [t \in Targets |-> IF t \in {work[w].ip, "key"} THEN 0
                                                           ELSE during[t]]
<1>1. /\ work[w].stage = "timed" /\ work[w].ip \in Ips /\ work \in [Workers -> Calling]
      /\ work[w] \in Calling /\ key \in AnyKey
  BY DEF TInv, Typed, CallsNamed, OnItsWay, Admit
<1>2. work[w].at \in Time /\ work[w].limit \in Nat /\ work[w].seen \in SUBSET AnyKey
  BY <1>1 DEF Calling
<1>3. CASE Len(Recent(work[w].at)) >= work[w].limit
  BY <1>1, <1>2, <1>3, IdleIsACall DEF Admit, Moves
<1>4. CASE ~(Len(Recent(work[w].at)) >= work[w].limit)
  <2> PICK y \in Calling : y = Idle
    BY IdleIsACall
  <2> PICK k \in AnyKey : k = key
    BY <1>1
  <2> PICK S \in SUBSET AnyKey : S = work[w].seen
    BY <1>2
  <2> PICK x : x = [y EXCEPT !.stage = "admitted", !.key = k, !.seen = S]
    OBVIOUS
  <2>2. x \in Calling /\ x.stage = "admitted" /\ x.key = k /\ x.seen = S
    BY DEF Calling, Stages
  <2>3. Len(Recent(work[w].at)) \in Nat
    <3>1. hits \in Seq(Time) /\ work[w].at - RateWindow \in Int
      BY <1>2, GateNumbers DEF TInv, Typed
    <3>2. Recent(work[w].at) \in Seq(Time)
      BY <3>1, LaterFacts DEF Recent
    <3> QED BY <3>2
  <2>4. Len(Recent(work[w].at)) < work[w].limit
    BY <1>2, <1>4, <2>3
  <2>5. work' = [work EXCEPT ![w] = x] /\ hits' = Counted(work[w].at)
        /\ admitted' = Append(admitted, [read |-> work[w].at, real |-> now])
        /\ locks' = [t \in Targets |-> IF t \in {work[w].ip, "key"} THEN NoLock ELSE locks[t]]
        /\ during' = [t \in Targets |-> IF t \in {work[w].ip, "key"} THEN 0 ELSE during[t]]
    BY <1>4 DEF Admit
  <2> QED BY <1>1, <1>2, <2>2, <2>4, <2>5 DEF Moves
<1> QED BY <1>3, <1>4

LEMMA RecordFailMoves ==
    ASSUME TInv, NEW w \in Workers, RecordFail(w)
    PROVE  work[w].stage = "failing" /\ work[w].ip \in Ips /\ Moves(w, Idle)
BY IdleIsACall DEF TInv, CallsNamed, OnItsWay, RecordFail, Moves

LEMMA ServeMoves ==
    ASSUME NEW w \in Workers, NEW does, Serve(w, does)
    PROVE  work[w].stage = "admitted" /\ Moves(w, Idle)
BY IdleIsACall DEF Serve, Moves

(* A state k of the key is shown to the calls under way.                   *)
Shown(k) ==
    /\ work' \in [Workers -> Calling]
    /\ \A w \in Workers :
          \/ work[w].stage \in {"idle", "failing"} /\ work'[w] = work[w]
          \/ /\ work'[w].stage = work[w].stage /\ work'[w].ip = work[w].ip
             /\ work'[w].nonce = work[w].nonce /\ work'[w].key = work[w].key
             /\ work'[w].at = work[w].at /\ work'[w].limit = work[w].limit
             /\ work'[w].seen = work[w].seen \cup {k}

LEMMA ShownToCalls ==
    ASSUME TInv, NEW k \in AnyKey, NEW o \in Outcomes, o # "failed",
           work' = [w \in Workers |-> IF work[w].stage \in {"idle", "failing"} \/ o = "failed"
                                      THEN work[w]
                                      ELSE [work[w] EXCEPT !.seen = @ \cup {k}]]
    PROVE  Shown(k)
<1>1. work \in [Workers -> Calling]
  BY DEF TInv, Typed
<1>2. ASSUME NEW y \in Calling
      PROVE  LET z == [y EXCEPT !.seen = @ \cup {k}]
             IN /\ z \in Calling /\ z.stage = y.stage /\ z.ip = y.ip /\ z.nonce = y.nonce
                /\ z.key = y.key /\ z.at = y.at /\ z.limit = y.limit /\ z.seen = y.seen \cup {k}
  BY DEF Calling
<1>3. work' \in [Workers -> Calling]
  BY <1>1, <1>2
<1>4. ASSUME NEW w \in Workers, work[w].stage \notin {"idle", "failing"}
      PROVE  /\ work'[w].stage = work[w].stage /\ work'[w].ip = work[w].ip
             /\ work'[w].nonce = work[w].nonce /\ work'[w].key = work[w].key
             /\ work'[w].at = work[w].at /\ work'[w].limit = work[w].limit
             /\ work'[w].seen = work[w].seen \cup {k}
  <2>1. work'[w] = [work[w] EXCEPT !.seen = @ \cup {k}] /\ work[w] \in Calling
    BY <1>1, <1>4
  <2> QED BY <1>2, <2>1
<1>5. ASSUME NEW w \in Workers, work[w].stage \in {"idle", "failing"}
      PROVE  work'[w] = work[w]
  BY <1>5
<1> QED BY <1>3, <1>4, <1>5 DEF Shown

(* The key gets into state k, in memory or only in its row.                *)
KeyTurns(k) ==
    /\ k \in AnyKey
    /\ key' \in {key, k}
    /\ keyRow' \in AnyKey /\ (keyRow' \in {keyRow, k} \/ keyRow'.revoked)
    /\ \/ inForce' = inForce \cup {k}
       \/ inForce' = {k} /\ key' = k /\ (keyRow' = k \/ keyRow'.revoked)
    /\ Shown(k)

LEMMA CreateKeyTurns ==
    ASSUME TInv, NEW g \in Grants, NEW o \in Outcomes, CreateKey(g, o)
    PROVE  UNCHANGED <<key, keyRow, inForce, work>> \/ \E k : KeyTurns(k)
<1> PICK k : k = [grant |-> g, revoked |-> FALSE]
  OBVIOUS
<1>0. k \in AnyKey /\ work \in [Workers -> Calling] /\ keyRow \in AnyKey
  BY KeysAreRecords DEF TInv, Typed
<1>1. CASE o = "failed"
  BY <1>0, <1>1 DEF CreateKey, persistKey, Applied
<1>2. CASE o # "failed"
  <2>1. Shown(k)
    BY <1>0, <1>2, ShownToCalls DEF CreateKey
  <2>2. keyRow' = k /\ key' = key /\ inForce' = inForce \cup {k}
    BY <1>2 DEF CreateKey, persistKey, Applied, Outcomes
  <2> QED BY <1>0, <2>1, <2>2 DEF KeyTurns
<1> QED BY <1>1, <1>2

LEMMA UpdateKeyTurns ==
    ASSUME TInv, NEW g \in Grants, NEW o \in Outcomes, UpdateKey(g, o)
    PROVE  UNCHANGED <<key, keyRow, inForce, work>> \/ \E k : KeyTurns(k)
<1> PICK k : k = [grant |-> g, revoked |-> FALSE]
  OBVIOUS
<1>0. /\ k \in AnyKey /\ work \in [Workers -> Calling] /\ keyRow \in AnyKey /\ key \in AnyKey
      /\ ~key.revoked
  BY KeysAreRecords DEF TInv, Typed, UpdateKey
<1>1. [key EXCEPT !.grant = g] = k
  BY <1>0, GrantChanged
<1>2. ~keyRow.revoked => [keyRow EXCEPT !.grant = g] = k
  BY <1>0, GrantChanged
<1>3. CASE o = "failed"
  BY <1>0, <1>3 DEF UpdateKey, Updated, persistKeyUpdate, Applied, Answered
<1>4. CASE o # "failed"
  <2>1. Shown(k)
    BY <1>0, <1>1, <1>4, ShownToCalls DEF UpdateKey, Answered
  <2>2. keyRow' \in AnyKey /\ (keyRow' = k \/ (keyRow' = keyRow /\ keyRow'.revoked))
    <3>1. keyRow' = IF ~keyRow.revoked THEN [keyRow EXCEPT !.grant = g] ELSE keyRow
      BY <1>4 DEF UpdateKey, persistKeyUpdate, Applied, Outcomes
    <3> QED BY <1>0, <1>2, <3>1
  <2>3. \/ key' = k /\ inForce' = {k}
        \/ key' = key /\ inForce' = inForce \cup {k}
    BY <1>1, <1>4 DEF UpdateKey, Updated, Answered, Outcomes
  <2> QED BY <1>0, <2>1, <2>2, <2>3 DEF KeyTurns
<1> QED BY <1>3, <1>4

LEMMA RevokeTurns ==
    ASSUME TInv, NEW o \in Outcomes, Revoke(o)
    PROVE  UNCHANGED <<key, keyRow, inForce, work>> \/ \E k : KeyTurns(k)
<1> PICK k : k = [key EXCEPT !.revoked = TRUE]
  OBVIOUS
<1> PICK r : r = [keyRow EXCEPT !.revoked = TRUE]
  OBVIOUS
<1>0. /\ work \in [Workers -> Calling] /\ keyRow \in AnyKey /\ key \in AnyKey
      /\ ~key.revoked /\ ~keyRow.revoked
  BY DEF TInv, Typed, Revoke
<1>1. k \in AnyKey /\ r \in AnyKey /\ r.revoked
  BY <1>0, KeyRevoked
<1>2. CASE o = "failed"
  BY <1>0, <1>2 DEF Revoke, Applied, Answered
<1>3. CASE o # "failed"
  <2>1. Shown(k)
    BY <1>0, <1>1, <1>3, ShownToCalls DEF Revoke, Answered
  <2>2. keyRow' = r
    BY <1>3 DEF Revoke, Applied, Outcomes
  <2>3. \/ key' = k /\ inForce' = {k}
        \/ key' = key /\ inForce' = inForce \cup {k}
    BY <1>3 DEF Revoke, Answered, Outcomes
  <2> QED BY <1>1, <2>1, <2>2, <2>3 DEF KeyTurns
<1> QED BY <1>2, <1>3

LEMMA PublishKeyTurns ==
    ASSUME TInv, PublishKey
    PROVE  KeyTurns(keyRow)
<1>0. keyRow \in AnyKey
  BY DEF TInv, Typed
<1>1. Shown(keyRow)
  BY <1>0, ShownToCalls DEF PublishKey, Answered, Outcomes
<1>2. key' = keyRow /\ keyRow' = keyRow /\ inForce' = {keyRow}
  BY DEF PublishKey, Answered
<1> QED BY <1>0, <1>1, <1>2 DEF KeyTurns

-----------------------------------------------------------------------------
(* Types                                                                   *)

LEMMA NoLockIsALock == NoLock \in Locks /\ NoLock.until = 0 /\ NoLock.fails = <<>>
BY GateNumbers DEF NoLock, Locks

LEMMA EventTyped ==
    ASSUME Typed, Event
    PROVE  events' \in 0..MaxEvents
BY GateNumbers DEF Typed, Event

LEMMA CallMovesTyped ==
    ASSUME TInv, NEW w \in Workers, NEW x, Moves(w, x),
           x.stage \in {"arrived", "checked", "timed", "failing"} => x.ip \in Ips,
           x.stage = "arrived" => x.nonce \in Nonces
    PROVE  work' \in [Workers -> Calling] /\ CallsNamed'
<1>1. /\ work' \in [Workers -> Calling]
      /\ work'[w] = x /\ \A v \in Workers : v # w => work'[v] = work[v]
  BY MovesOne DEF TInv
<1> QED BY <1>1 DEF TInv, CallsNamed, OnItsWay

LEMMA ArriveTyped ==
    ASSUME TInv, NEW w \in Workers, NEW n \in Nonces, NEW ip \in Ips, NEW signed \in BOOLEAN,
           Arrive(w, n, ip, signed)
    PROVE  TInv'
<1>1. work' \in [Workers -> Calling] /\ CallsNamed'
  BY ArriveMoves, CallMovesTyped
<1>2. /\ locks' \in [Targets -> Locks]
      /\ \A t \in Targets : locks'[t] \in {locks[t], NoLock}
  BY NoLockIsALock DEF TInv, Typed, Arrive, Unlocked
<1>3. Typed'
  BY <1>1, <1>2 DEF TInv, Typed, Arrive, keys, settings
<1>4. FewFails'
  BY <1>2, NoLockIsALock, GateNumbers DEF TInv, FewFails
<1> QED BY <1>1, <1>3, <1>4 DEF TInv

LEMMA CheckKeyTyped ==
    ASSUME TInv, NEW w \in Workers, CheckKey(w)
    PROVE  TInv'
<1>1. work' \in [Workers -> Calling] /\ CallsNamed'
  BY CheckKeyMoves, CallMovesTyped
<1>2. work[w].nonce \in Nonces /\ now \in Time /\ now + NonceTtl \in 0..MaxTime + NonceTtl
      /\ nonces \in [Nonces -> 0..MaxTime + NonceTtl] /\ uses \in [Nonces -> Seq(Time)]
  BY CheckKeyMoves, GateNumbers DEF TInv, Typed, Time
<1>3. Append(uses[work[w].nonce], now) \in Seq(Time)
  BY <1>2
<1>4. nonces' \in [Nonces -> 0..MaxTime + NonceTtl] /\ uses' \in [Nonces -> Seq(Time)]
  BY <1>2, <1>3, CheckKeyMoves
<1>5. Typed'
  BY <1>1, <1>4 DEF TInv, Typed, CheckKey, keys, settings
<1>6. FewFails'
  BY DEF TInv, FewFails, CheckKey
<1> QED BY <1>1, <1>5, <1>6 DEF TInv

LEMMA VerifySignatureTyped ==
    ASSUME TInv, NEW w \in Workers, VerifySignature(w)
    PROVE  TInv'
<1>1. work' \in [Workers -> Calling] /\ CallsNamed'
  BY VerifySignatureMoves, CallMovesTyped
<1>2. Typed'
  BY <1>1 DEF TInv, Typed, VerifySignature, keys, settings, memory
<1>3. FewFails'
  BY DEF TInv, FewFails, VerifySignature, memory
<1> QED BY <1>1, <1>2, <1>3 DEF TInv

LEMMA RecentTyped ==
    ASSUME Typed, NEW at \in Time
    PROVE  /\ Recent(at) \in Seq(Time) /\ Len(Recent(at)) \in Nat
           /\ Counted(at) \in Seq(Time) /\ Len(Counted(at)) = Len(Recent(at)) + 1
           /\ Compacted(at) \in Seq(Time) /\ Len(Compacted(at)) = Len(hits)
           /\ \A i \in 1..Len(Recent(at)) :
                 Counted(at)[i] = Recent(at)[i] /\ Compacted(at)[i] = Recent(at)[i]
           /\ Counted(at)[Len(Recent(at)) + 1] = at
<1>1. hits \in Seq(Time) /\ at - RateWindow \in Int
  BY GateNumbers DEF Typed
<1> PICK r : r = Recent(at)
  OBVIOUS
<1>2. r \in Seq(Time) /\ Len(r) <= Len(hits) /\ Len(r) \in Nat /\ Len(hits) \in Nat
  BY <1>1, LaterFacts DEF Recent
<1>3. Counted(at) = Append(r, at)
  BY DEF Counted
<1>4. /\ Append(r, at) \in Seq(Time) /\ Len(Append(r, at)) = Len(r) + 1
      /\ \A i \in 1..Len(r) : Append(r, at)[i] = r[i]
      /\ Append(r, at)[Len(r) + 1] = at
  BY <1>2
<1> PICK q : q = SubSeq(hits, Len(r) + 1, Len(hits))
  OBVIOUS
<1>5. q \in Seq(Time) /\ Len(q) = Len(hits) - Len(r)
  BY <1>1, <1>2
<1>6. Compacted(at) = r \o q
  BY DEF Compacted
<1>7. /\ r \o q \in Seq(Time) /\ Len(r \o q) = Len(hits)
      /\ \A i \in 1..Len(r) : (r \o q)[i] = r[i]
  BY <1>2, <1>5
<1> QED BY <1>2, <1>3, <1>4, <1>6, <1>7

LEMMA AdmitTyped ==
    ASSUME TInv, NEW w \in Workers, Admit(w)
    PROVE  TInv'
<1>0. Typed /\ work[w].at \in Time /\ now \in Time
  BY AdmitMoves DEF TInv, Typed
<1>1. work' \in [Workers -> Calling] /\ CallsNamed'
  BY AdmitMoves, CallMovesTyped
<1>2. hits' \in Seq(Time)
  BY <1>0, AdmitMoves, RecentTyped
<1>3. /\ locks' \in [Targets -> Locks]
      /\ \A t \in Targets : locks'[t] \in {locks[t], NoLock}
  BY <1>0, AdmitMoves, NoLockIsALock DEF Typed
<1>4. during' \in [Targets -> Nat]
  <2>1. during \in [Targets -> Nat]
    BY <1>0 DEF Typed
  <2>2. \/ during' = during
        \/ during' = [t \in Targets |-> IF t \in {work[w].ip, "key"} THEN 0 ELSE during[t]]
    BY DEF Admit
  <2> QED BY <2>1, <2>2
<1>5. admitted' \in Seq([read : Time, real : Time])
  <2>1. admitted \in Seq([read : Time, real : Time])
    BY <1>0 DEF Typed
  <2>2. [read |-> work[w].at, real |-> now] \in [read : Time, real : Time]
    BY <1>0
  <2>3. Append(admitted, [read |-> work[w].at, real |-> now]) \in Seq([read : Time, real : Time])
    BY <2>1, <2>2
  <2> QED BY <2>1, <2>3, AdmitMoves
<1>6. Typed'
  BY <1>1, <1>2, <1>3, <1>4, <1>5 DEF TInv, Typed, Admit, keys, settings
<1>7. FewFails'
  BY <1>3, NoLockIsALock, GateNumbers DEF TInv, FewFails
<1> QED BY <1>1, <1>6, <1>7 DEF TInv

LEMMA FailNoted ==
    ASSUME TInv, NEW w \in Workers, RecordFail(w), NEW t \in Targets
    PROVE  /\ locks'[t] \in Locks /\ Len(locks'[t].fails) < Threshold
           /\ t \notin {work[w].ip, "key"} \/ Locked(t) => locks'[t] = locks[t]
<1>0. work[w].at \in Time /\ now \in Time
  BY DEF TInv, Typed, Calling
<1>1. PICK at \in work[w].at..now :
        locks'[t] =
          IF t \notin {work[w].ip, "key"} \/ locks[t].until > at THEN locks[t]
          ELSE IF Len(Later(locks[t].fails, at - FailWindow)) + 1 >= Threshold
               THEN [fails |-> <<>>, until |-> at + LockTime]
               ELSE [locks[t] EXCEPT !.fails = Append(Later(locks[t].fails, at - FailWindow), at)]
  BY DEF RecordFail
<1>2. /\ at \in Time /\ at <= now
      /\ at + LockTime \in 0..MaxTime + LockTime /\ at - FailWindow \in Int
      /\ locks[t] \in Locks /\ locks[t].fails \in Seq(Time) /\ locks[t].until \in Nat
      /\ Len(locks[t].fails) < Threshold
  BY <1>0, GateNumbers DEF TInv, Typed, FewFails, Time, Locks
<1> PICK kept : kept = Later(locks[t].fails, at - FailWindow)
  OBVIOUS
<1>3. kept \in Seq(Time) /\ Len(kept) \in Nat
  BY <1>2, LaterFacts
<1>4. Locked(t) => locks[t].until > at
  BY <1>0, <1>2, GateNumbers DEF Locked, Time
<1>5. CASE t \notin {work[w].ip, "key"} \/ locks[t].until > at
  <2>1. locks'[t] = locks[t]
    BY <1>1, <1>5
  <2> QED BY <1>2, <2>1
<1>6. CASE ~(t \notin {work[w].ip, "key"} \/ locks[t].until > at) /\ Len(kept) + 1 >= Threshold
  <2>1. locks'[t] = [fails |-> <<>>, until |-> at + LockTime]
    BY <1>1, <1>6
  <2>2. locks'[t] \in Locks /\ Len(locks'[t].fails) = 0
    BY <1>2, <2>1 DEF Locks
  <2> QED BY <1>4, <1>6, <2>2, GateNumbers
<1>7. CASE ~(t \notin {work[w].ip, "key"} \/ locks[t].until > at) /\ ~(Len(kept) + 1 >= Threshold)
  <2> PICK l \in Locks : l = locks[t]
    BY <1>2
  <2> PICK a : a = Append(kept, at)
    OBVIOUS
  <2>1. locks'[t] = [l EXCEPT !.fails = a]
    BY <1>1, <1>7
  <2>2. a \in Seq(Time) /\ Len(a) = Len(kept) + 1
    BY <1>2, <1>3
  <2>3. [l EXCEPT !.fails = a] \in Locks /\ [l EXCEPT !.fails = a].fails = a
    BY <2>2 DEF Locks
  <2>4. Len(a) < Threshold
    BY <1>3, <1>7, <2>2, GateNumbers
  <2> QED BY <1>4, <1>7, <2>1, <2>3, <2>4
<1> QED BY <1>5, <1>6, <1>7

LEMMA RecordFailTyped ==
    ASSUME TInv, NEW w \in Workers, RecordFail(w)
    PROVE  TInv'
<1>1. work' \in [Workers -> Calling] /\ CallsNamed'
  BY RecordFailMoves, CallMovesTyped, IdleIsACall
<1>2. DOMAIN locks' = Targets /\ locks' = [t \in Targets |-> locks'[t]]
  BY DEF RecordFail
<1>3. locks' \in [Targets -> Locks] /\ FewFails'
  BY <1>2, FailNoted DEF FewFails
<1>4. during' \in [Targets -> Nat]
  BY DEF TInv, Typed, RecordFail
<1>5. Typed'
  BY <1>1, <1>3, <1>4 DEF TInv, Typed, RecordFail, keys, settings
<1> QED BY <1>1, <1>3, <1>5 DEF TInv

LEMMA ServeTyped ==
    ASSUME TInv, NEW w \in Workers, NEW does, Serve(w, does)
    PROVE  TInv'
<1>1. work' \in [Workers -> Calling] /\ CallsNamed'
  BY ServeMoves, CallMovesTyped, IdleIsACall
<1>2. Typed'
  BY <1>1 DEF TInv, Typed, Serve, keys, settings, memory
<1>3. FewFails'
  BY DEF TInv, FewFails, Serve, memory
<1> QED BY <1>1, <1>2, <1>3 DEF TInv

LEMMA KeyTurnsTyped ==
    ASSUME TInv, UNCHANGED <<key, keyRow, inForce, work>> \/ \E k : KeyTurns(k),
           publishing' \in BOOLEAN, events' \in 0..MaxEvents, UNCHANGED <<now, settings, memory>>
    PROVE  TInv'
<1>1. /\ key' \in AnyKey /\ keyRow' \in AnyKey /\ inForce' \subseteq AnyKey
      /\ work' \in [Workers -> Calling]
  BY DEF TInv, Typed, KeyTurns, Shown
<1>2. CallsNamed'
  BY DEF TInv, CallsNamed, OnItsWay, KeyTurns, Shown
<1>3. Typed'
  BY <1>1 DEF TInv, Typed, settings, memory
<1>4. FewFails'
  BY DEF TInv, FewFails, memory
<1> QED BY <1>2, <1>3, <1>4 DEF TInv

LEMMA MaxOfTwo ==
    ASSUME NEW a \in Nat, NEW b \in Nat
    PROVE  Max({a, b}) \in Nat /\ a <= Max({a, b}) /\ b <= Max({a, b})
<1>1. \E x \in {a, b} : \A y \in {a, b} : x >= y
  <2>1. CASE a >= b
    BY <2>1
  <2>2. CASE b >= a
    BY <2>2
  <2> QED BY <2>1, <2>2
<1>2. Max({a, b}) \in {a, b} /\ \A y \in {a, b} : Max({a, b}) >= y
  BY <1>1 DEF Max
<1> QED BY <1>2

(* Settings change, and the highest limit keeps up.                        *)
LEMMA LimitsFollow ==
    ASSUME TInv, NEW c \in Settings, NEW o \in Outcomes, SetForActor(c, o)
    PROVE  /\ config' \in Settings /\ configRow' \in Settings
           /\ highest' \in Nat /\ highest <= highest'
           /\ config' = config \/ config'.limit <= highest'
           /\ configRow' = configRow \/ configRow'.limit <= highest'
<1>1. highest \in Nat /\ c.limit \in Nat /\ config \in Settings /\ configRow \in Settings
  BY SettingsHaveLimits DEF TInv, Typed
<1>2. /\ Max({highest, c.limit}) \in Nat /\ highest <= Max({highest, c.limit})
      /\ c.limit <= Max({highest, c.limit})
  BY <1>1, MaxOfTwo
<1>3. CASE Applied(o)
  BY <1>1, <1>2, <1>3 DEF SetForActor
<1>4. CASE ~Applied(o)
  BY <1>1, <1>4 DEF SetForActor, Applied
<1> QED BY <1>3, <1>4

LEMMA SetForActorTyped ==
    ASSUME TInv, NEW c \in Settings, NEW o \in Outcomes, SetForActor(c, o)
    PROVE  TInv'
<1>1. config' \in Settings /\ configRow' \in Settings /\ highest' \in Nat
  BY LimitsFollow
<1>2. Typed'
  BY <1>1, EventTyped DEF TInv, Typed, SetForActor, keys, memory
<1>3. FewFails' /\ CallsNamed'
  BY DEF TInv, FewFails, CallsNamed, OnItsWay, SetForActor, memory
<1> QED BY <1>2, <1>3 DEF TInv

LEMMA RestartLimits ==
    ASSUME TInv, NEW a \in BOOLEAN, NEW b \in BOOLEAN, Restart(a, b)
    PROVE  /\ config' \in Settings /\ configRow' = configRow
           /\ highest' \in Nat /\ highest <= highest' /\ config'.limit <= highest'
<1>1. config' \in Settings
  BY GateConstants DEF TInv, Typed, Restart, loadConfig
<1> PICK l : l = config'.limit
  OBVIOUS
<1>2. highest \in Nat /\ l \in Nat /\ highest' = Max({highest, l})
  BY <1>1, SettingsHaveLimits DEF TInv, Typed, Restart
<1>3. Max({highest, l}) \in Nat /\ highest <= Max({highest, l}) /\ l <= Max({highest, l})
  BY <1>2, MaxOfTwo
<1> QED BY <1>1, <1>2, <1>3 DEF Restart

LEMMA RestartTyped ==
    ASSUME TInv, NEW a \in BOOLEAN, NEW b \in BOOLEAN, Restart(a, b)
    PROVE  TInv'
<1>1. /\ work' \in [Workers -> Calling] /\ \A w \in Workers : work'[w].stage = "idle"
      /\ locks' \in [Targets -> Locks] /\ \A t \in Targets : locks'[t] = NoLock
  BY IdleIsACall, NoLockIsALock DEF Restart
<1>2. /\ nonces' \in [Nonces -> 0..MaxTime + NonceTtl] /\ during' \in [Targets -> Nat]
      /\ uses' \in [Nonces -> Seq(Time)] /\ hits' \in Seq(Time)
      /\ admitted' \in Seq([read : Time, real : Time])
  BY GateNumbers DEF Restart
<1>3. key' \in AnyKey /\ keyRow' \in AnyKey /\ inForce' \subseteq AnyKey
      /\ publishing' \in BOOLEAN /\ now' \in Time
  BY DEF TInv, Typed, Restart, loadKeys, AnyKey
<1>4. config' \in Settings /\ configRow' \in Settings /\ highest' \in Nat
  BY RestartLimits DEF TInv, Typed
<1>5. events' \in 0..MaxEvents
  BY EventTyped DEF TInv, Restart
<1>6. Typed'
  BY <1>1, <1>2, <1>3, <1>4, <1>5 DEF Typed
<1>7. CallsNamed'
  BY <1>1 DEF CallsNamed, OnItsWay
<1>8. FewFails'
  BY <1>1, NoLockIsALock, GateNumbers DEF FewFails
<1> QED BY <1>6, <1>7, <1>8 DEF TInv

LEMMA TickTyped ==
    ASSUME TInv, Tick
    PROVE  TInv'
<1>1. now' \in Time
  BY GateNumbers DEF TInv, Typed, Tick, Time
<1>2. Typed'
  BY <1>1 DEF TInv, Typed, Tick, keys, settings, memory
<1>3. FewFails' /\ CallsNamed'
  BY DEF TInv, FewFails, CallsNamed, OnItsWay, Tick, memory
<1> QED BY <1>2, <1>3 DEF TInv

LEMMA TInvInitially ==
    ASSUME Init
    PROVE  TInv
<1>1. key \in AnyKey /\ keyRow \in AnyKey /\ inForce \subseteq AnyKey
  <2>1. [grant : Grants, revoked : {FALSE}] \subseteq Keys
    BY DEF Keys
  <2> QED BY <2>1 DEF Init, AnyKey
<1>2. config \in Settings /\ configRow \in Settings /\ highest \in Nat
  <2>1. Defaults \in Settings
    BY GateConstants
  <2> QED BY <2>1, SettingsHaveLimits DEF Init
<1>3. /\ work \in [Workers -> Calling] /\ \A w \in Workers : work[w].stage = "idle"
      /\ locks \in [Targets -> Locks] /\ \A t \in Targets : locks[t] = NoLock
  BY IdleIsACall, NoLockIsALock DEF Init
<1>4. /\ nonces \in [Nonces -> 0..MaxTime + NonceTtl] /\ during \in [Targets -> Nat]
      /\ uses \in [Nonces -> Seq(Time)] /\ hits \in Seq(Time)
      /\ admitted \in Seq([read : Time, real : Time])
  BY GateNumbers DEF Init
<1>5. now \in Time /\ publishing \in BOOLEAN /\ events \in 0..MaxEvents
  <2>1. now \in Time /\ events \in 0..MaxEvents
    BY GateNumbers DEF Init
  <2>2. publishing \in BOOLEAN
    BY DEF Init
  <2> QED BY <2>1, <2>2
<1>6. Typed
  BY <1>1, <1>2, <1>3, <1>4, <1>5 DEF Typed
<1>7. CallsNamed
  BY <1>3 DEF CallsNamed, OnItsWay
<1>8. FewFails
  BY <1>3, NoLockIsALock, GateNumbers DEF FewFails
<1> QED BY <1>6, <1>7, <1>8 DEF TInv

(* What a step of the key is: CreateKey, UpdateKey, Revoke, PublishKey.    *)
KeyStep ==
    /\ UNCHANGED <<key, keyRow, inForce, work>> \/ \E k : KeyTurns(k)
    /\ UNCHANGED <<now, settings, memory>>
    /\ publishing' \in BOOLEAN /\ events' \in 0..MaxEvents

LEMMA KeySteps ==
    ASSUME TInv,
           \/ PublishKey
           \/ \E o \in Outcomes : \/ Revoke(o)
                                  \/ \E g \in Grants : CreateKey(g, o) \/ UpdateKey(g, o)
    PROVE  KeyStep
<1>0. Typed /\ publishing \in BOOLEAN /\ events \in 0..MaxEvents
  BY DEF TInv, Typed
<1>1. CASE PublishKey
  <2>1. KeyTurns(keyRow)
    BY <1>1, PublishKeyTurns
  <2> QED BY <1>0, <1>1, <2>1 DEF KeyStep, PublishKey
<1>2. ASSUME NEW o \in Outcomes, Revoke(o)
      PROVE  KeyStep
  <2>1. UNCHANGED <<key, keyRow, inForce, work>> \/ \E k : KeyTurns(k)
    BY <1>2, RevokeTurns
  <2>2. events' \in 0..MaxEvents
    BY <1>0, <1>2, EventTyped DEF Revoke
  <2>3. UNCHANGED <<now, settings, memory, publishing>>
    BY <1>2 DEF Revoke
  <2> QED BY <1>0, <2>1, <2>2, <2>3 DEF KeyStep
<1>3. ASSUME NEW o \in Outcomes, NEW g \in Grants, CreateKey(g, o)
      PROVE  KeyStep
  <2>1. UNCHANGED <<key, keyRow, inForce, work>> \/ \E k : KeyTurns(k)
    BY <1>3, CreateKeyTurns
  <2>2. events' \in 0..MaxEvents
    BY <1>0, <1>3, EventTyped DEF CreateKey
  <2>3. UNCHANGED <<now, settings, memory>> /\ publishing' \in BOOLEAN
    BY <1>3 DEF CreateKey
  <2> QED BY <2>1, <2>2, <2>3 DEF KeyStep
<1>4. ASSUME NEW o \in Outcomes, NEW g \in Grants, UpdateKey(g, o)
      PROVE  KeyStep
  <2>1. UNCHANGED <<key, keyRow, inForce, work>> \/ \E k : KeyTurns(k)
    BY <1>4, UpdateKeyTurns
  <2>2. events' \in 0..MaxEvents
    BY <1>0, <1>4, EventTyped DEF UpdateKey
  <2>3. UNCHANGED <<now, settings, memory, publishing>>
    BY <1>4 DEF UpdateKey
  <2> QED BY <1>0, <2>1, <2>2, <2>3 DEF KeyStep
<1> QED BY <1>1, <1>2, <1>3, <1>4

(* The steps, the ones that serve a call and the ones of the key taken     *)
(* together.                                                               *)
LEMMA Steps ==
    ASSUME TInv, [Next]_vars
    PROVE  \/ \E w \in Workers, n \in Nonces, ip \in Ips, signed \in BOOLEAN :
                 Arrive(w, n, ip, signed)
           \/ \E w \in Workers : CheckKey(w) \/ VerifySignature(w) \/ Admit(w) \/ RecordFail(w)
           \/ \E w \in Workers : \E does : Serve(w, does)
           \/ KeyStep
           \/ \E c \in Settings, o \in Outcomes : SetForActor(c, o)
           \/ \E a, b \in BOOLEAN : Restart(a, b)
           \/ Tick
           \/ UNCHANGED vars
<1>1. ASSUME NEW w \in Workers, NEW c \in Calls,
             Deny(w, c) \/ Query(w, c) \/ NavCommand(w, c) \/ NavCancel(w, c) \/ EmergencyStop(w, c)
      PROVE  \E does : Serve(w, does)
  <2>1. CASE Deny(w, c)
    BY <2>1 DEF Deny
  <2>2. CASE Query(w, c)
    BY <2>2 DEF Query
  <2>3. CASE NavCommand(w, c)
    BY <2>3 DEF NavCommand
  <2>4. CASE NavCancel(w, c)
    BY <2>4 DEF NavCancel
  <2>5. CASE EmergencyStop(w, c)
    BY <2>5 DEF EmergencyStop
  <2> QED BY <1>1, <2>1, <2>2, <2>3, <2>4, <2>5
<1> QED BY <1>1, KeySteps, Zenon DEF Next

LEMMA TInvStep ==
    ASSUME TInv, [Next]_vars
    PROVE  TInv'
<1>1. CASE KeyStep
  BY <1>1, KeyTurnsTyped DEF KeyStep
<1>2. CASE UNCHANGED vars
  <2>1. Typed'
    BY <1>2 DEF TInv, Typed, vars, keys, settings, memory
  <2>2. CallsNamed' /\ FewFails'
    BY <1>2 DEF TInv, CallsNamed, FewFails, OnItsWay, vars, memory
  <2> QED BY <2>1, <2>2 DEF TInv
<1> QED
  BY <1>1, <1>2, Steps, ArriveTyped, CheckKeyTyped, VerifySignatureTyped, AdmitTyped,
     RecordFailTyped, ServeTyped, SetForActorTyped, RestartTyped, TickTyped, Zenon

-----------------------------------------------------------------------------
(* Replays                                                                 *)

(* A use is noted when what is remembered of the nonce has run out.        *)
LEMMA UseNoted ==
    ASSUME NEW u \in Seq(Time), NEW t \in Time, NEW r \in Nat, r <= t,
           \A i \in DOMAIN u : u[i] + NonceTtl <= r,
           \A i, j \in DOMAIN u : i < j => u[j] - u[i] >= NonceTtl
    PROVE  /\ \A i \in DOMAIN Append(u, t) : Append(u, t)[i] + NonceTtl <= t + NonceTtl
           /\ \A i, j \in DOMAIN Append(u, t) :
                 i < j => Append(u, t)[j] - Append(u, t)[i] >= NonceTtl
<1> PICK a : a = Append(u, t)
  OBVIOUS
<1>1. /\ DOMAIN u = 1..Len(u) /\ Len(u) \in Nat /\ DOMAIN a = 1..Len(u) + 1
      /\ a[Len(u) + 1] = t /\ \A i \in 1..Len(u) : a[i] = u[i] /\ u[i] \in Time
  OBVIOUS
<1>2. t \in Nat /\ NonceTtl \in Nat /\ \A i \in 1..Len(u) : u[i] \in Nat
  BY <1>1, GateNumbers
<1>3. ASSUME NEW i \in DOMAIN a
      PROVE  a[i] + NonceTtl <= t + NonceTtl
  <2>1. CASE i = Len(u) + 1
    BY <1>1, <1>2, <2>1
  <2>2. CASE i # Len(u) + 1
    <3>1. i \in 1..Len(u)
      BY <1>1, <2>2
    <3> QED BY <1>1, <1>2, <3>1
  <2> QED BY <2>1, <2>2
<1>4. ASSUME NEW i \in DOMAIN a, NEW j \in DOMAIN a, i < j
      PROVE  a[j] - a[i] >= NonceTtl
  <2>0. i \in 1..Len(u) /\ a[i] = u[i] /\ u[i] \in Nat
    BY <1>1, <1>2, <1>4
  <2>1. CASE j = Len(u) + 1
    <3>1. u[i] + NonceTtl <= r
      BY <1>1, <2>0
    <3> QED BY <1>1, <1>2, <2>0, <2>1, <3>1
  <2>2. CASE j # Len(u) + 1
    <3>1. j \in 1..Len(u)
      BY <1>1, <2>2
    <3> QED BY <1>1, <1>4, <2>0, <3>1
  <2> QED BY <2>1, <2>2
<1> QED BY <1>3, <1>4

LEMMA CheckKeyRemembers ==
    ASSUME TInv, NInv, NEW w \in Workers, CheckKey(w)
    PROVE  NInv'
<1>1. CASE UNCHANGED <<nonces, uses>>
  BY <1>1 DEF NInv, UsesRemembered, ReplaysAreRefused
<1>2. CASE /\ ~Seen(work[w].nonce)
           /\ nonces' = [nonces EXCEPT ![work[w].nonce] = now + NonceTtl]
           /\ uses' = [uses EXCEPT ![work[w].nonce] = Append(uses[work[w].nonce], now)]
  <2> PICK m \in Nonces : m = work[w].nonce
    BY CheckKeyMoves
  <2>1. /\ uses \in [Nonces -> Seq(Time)] /\ now \in Time /\ now \in Nat
        /\ nonces \in [Nonces -> 0..MaxTime + NonceTtl]
    BY GateNumbers DEF TInv, Typed
  <2>2. uses[m] \in Seq(Time) /\ nonces[m] \in Nat /\ nonces[m] <= now
    BY <1>2, <2>1, GateNumbers DEF Seen
  <2>3. /\ \A i \in DOMAIN uses[m] : uses[m][i] + NonceTtl <= nonces[m]
        /\ \A i, j \in DOMAIN uses[m] : i < j => uses[m][j] - uses[m][i] >= NonceTtl
    BY DEF NInv, UsesRemembered, ReplaysAreRefused
  <2>4. /\ uses'[m] = Append(uses[m], now) /\ nonces'[m] = now + NonceTtl
        /\ \A n \in Nonces : n # m => uses'[n] = uses[n] /\ nonces'[n] = nonces[n]
    BY <1>2, <2>1
  <2>5. /\ \A i \in DOMAIN uses'[m] : uses'[m][i] + NonceTtl <= nonces'[m]
        /\ \A i, j \in DOMAIN uses'[m] : i < j => uses'[m][j] - uses'[m][i] >= NonceTtl
    BY <2>1, <2>2, <2>3, <2>4, UseNoted
  <2>6. ASSUME NEW n \in Nonces
        PROVE  /\ \A i \in DOMAIN uses'[n] : uses'[n][i] + NonceTtl <= nonces'[n]
               /\ \A i, j \in DOMAIN uses'[n] : i < j => uses'[n][j] - uses'[n][i] >= NonceTtl
    <3>1. CASE n = m
      BY <2>5, <3>1
    <3>2. CASE n # m
      BY <2>4, <3>2 DEF NInv, UsesRemembered, ReplaysAreRefused
    <3> QED BY <3>1, <3>2
  <2> QED BY <2>6 DEF NInv, UsesRemembered, ReplaysAreRefused
<1> QED BY <1>1, <1>2, CheckKeyMoves

LEMMA NInvStep ==
    ASSUME TInv, NInv, [Next]_vars
    PROVE  NInv'
<1>1. CASE UNCHANGED <<nonces, uses>>
  BY <1>1 DEF NInv, UsesRemembered, ReplaysAreRefused
<1>2. ASSUME NEW w \in Workers, VerifySignature(w) \/ Admit(w) \/ RecordFail(w)
      PROVE  UNCHANGED <<nonces, uses>>
  BY <1>2 DEF VerifySignature, Admit, RecordFail, memory
<1>3. ASSUME NEW w \in Workers, NEW n \in Nonces, NEW ip \in Ips, NEW signed \in BOOLEAN,
             Arrive(w, n, ip, signed)
      PROVE  UNCHANGED <<nonces, uses>>
  BY <1>3 DEF Arrive
<1>4. ASSUME NEW w \in Workers, NEW does, Serve(w, does)
      PROVE  UNCHANGED <<nonces, uses>>
  BY <1>4 DEF Serve, memory
<1>5. ASSUME NEW c \in Settings, NEW o \in Outcomes, SetForActor(c, o)
      PROVE  UNCHANGED <<nonces, uses>>
  BY <1>5 DEF SetForActor, memory
<1>6. ASSUME KeyStep \/ Tick \/ UNCHANGED vars
      PROVE  UNCHANGED <<nonces, uses>>
  BY <1>6 DEF KeyStep, Tick, vars, memory
<1>7. ASSUME NEW a \in BOOLEAN, NEW b \in BOOLEAN, Restart(a, b)
      PROVE  NInv'
  <2>1. uses' = [n \in Nonces |-> <<>>]
    BY <1>7 DEF Restart
  <2>2. \A n \in Nonces : DOMAIN uses'[n] = {}
    BY <2>1
  <2> QED BY <2>2 DEF NInv, UsesRemembered, ReplaysAreRefused
<1> QED BY <1>1, <1>2, <1>3, <1>4, <1>5, <1>6, <1>7, Steps, CheckKeyRemembers, Zenon

LEMMA NInvInitially ==
    ASSUME Init
    PROVE  NInv
<1>1. \A n \in Nonces : DOMAIN uses[n] = {}
  BY DEF Init
<1> QED BY <1>1 DEF NInv, UsesRemembered, ReplaysAreRefused

-----------------------------------------------------------------------------
(* Answered changes of the key                                             *)

(* Call w may go on as x, whatever state the key is in.                    *)
SeenBy(x) ==
    /\ x.stage = "arrived" => key \in x.seen \/ key.revoked
    /\ x.stage \in {"checked", "timed"} => key \in x.seen /\ \E k \in x.seen : ~k.revoked
    /\ x.stage = "admitted" => x.key \in x.seen /\ \E k \in x.seen : ~k.revoked

LEMMA CallMovesSeen ==
    ASSUME TInv, KInv, NEW w \in Workers, NEW x, Moves(w, x), SeenBy(x),
           UNCHANGED <<key, keyRow, inForce>>
    PROVE  KInv'
<1>1. /\ work'[w] = x /\ \A v \in Workers : v # w => work'[v] = work[v]
  BY MovesOne DEF TInv
<1>2. StatesInForce'
  BY DEF KInv, StatesInForce
<1>3. StatesSeen'
  BY <1>1 DEF KInv, StatesSeen, SeenBy
<1>4. AnsweredChangesHold'
  BY <1>1 DEF KInv, AnsweredChangesHold, SeenBy
<1> QED BY <1>2, <1>3, <1>4 DEF KInv

LEMMA ArriveSeen ==
    ASSUME TInv, KInv, NEW w \in Workers, NEW n \in Nonces, NEW ip \in Ips,
           NEW signed \in BOOLEAN, Arrive(w, n, ip, signed)
    PROVE  KInv'
<1>1. PICK x : /\ Moves(w, x)
               /\ x.stage = "failing" \/ (x.stage = "arrived" /\ x.seen = inForce)
  BY ArriveMoves
<1>2. SeenBy(x)
  BY <1>1 DEF SeenBy, KInv, StatesInForce
<1>3. UNCHANGED <<key, keyRow, inForce>>
  BY DEF Arrive, keys
<1> QED BY <1>1, <1>2, <1>3, CallMovesSeen

LEMMA CheckKeySeen ==
    ASSUME TInv, KInv, NEW w \in Workers, CheckKey(w)
    PROVE  KInv'
<1>1. PICK x : /\ Moves(w, x)
               /\ \/ x.stage \in {"idle", "failing"}
                  \/ x.stage = "checked" /\ x.seen = work[w].seen /\ ~key.revoked
  BY CheckKeyMoves
<1>2. key \in work[w].seen \/ key.revoked
  BY CheckKeyMoves DEF KInv, StatesSeen
<1>3. SeenBy(x)
  BY <1>1, <1>2 DEF SeenBy
<1>4. UNCHANGED <<key, keyRow, inForce>>
  BY DEF CheckKey, keys
<1> QED BY <1>1, <1>3, <1>4, CallMovesSeen

LEMMA VerifySignatureSeen ==
    ASSUME TInv, KInv, NEW w \in Workers, VerifySignature(w)
    PROVE  KInv'
<1>1. PICK x : /\ Moves(w, x)
               /\ x.stage = "failing" \/ (x.stage = "timed" /\ x.seen = work[w].seen)
  BY VerifySignatureMoves
<1>2. key \in work[w].seen /\ \E k \in work[w].seen : ~k.revoked
  BY VerifySignatureMoves DEF KInv, StatesSeen
<1>3. SeenBy(x)
  BY <1>1, <1>2 DEF SeenBy
<1>4. UNCHANGED <<key, keyRow, inForce>>
  BY DEF VerifySignature, keys
<1> QED BY <1>1, <1>3, <1>4, CallMovesSeen

LEMMA AdmitSeen ==
    ASSUME TInv, KInv, NEW w \in Workers, Admit(w)
    PROVE  KInv'
<1>1. PICK x : /\ Moves(w, x)
               /\ \/ x.stage = "idle"
                  \/ x.stage = "admitted" /\ x.key = key /\ x.seen = work[w].seen
  BY AdmitMoves
<1>2. key \in work[w].seen /\ \E k \in work[w].seen : ~k.revoked
  BY AdmitMoves DEF KInv, StatesSeen
<1>3. SeenBy(x)
  BY <1>1, <1>2 DEF SeenBy
<1>4. UNCHANGED <<key, keyRow, inForce>>
  BY DEF Admit, keys
<1> QED BY <1>1, <1>3, <1>4, CallMovesSeen

LEMMA IdleSeen ==
    ASSUME TInv, KInv, NEW w \in Workers,
           RecordFail(w) \/ \E does : Serve(w, does)
    PROVE  KInv'
<1>1. Moves(w, Idle)
  BY RecordFailMoves, ServeMoves
<1>2. SeenBy(Idle)
  BY IdleIsACall DEF SeenBy
<1>3. UNCHANGED <<key, keyRow, inForce>>
  BY DEF RecordFail, Serve, keys
<1> QED BY <1>1, <1>2, <1>3, CallMovesSeen

LEMMA KeyTurnsSeen ==
    ASSUME TInv, KInv, NEW k, KeyTurns(k)
    PROVE  KInv'
<1>1. StatesInForce'
  BY DEF KInv, StatesInForce, KeyTurns
<1>2. ASSUME NEW w \in Workers
      PROVE  /\ work'[w].stage = "arrived" => key' \in work'[w].seen \/ key'.revoked
             /\ work'[w].stage \in {"checked", "timed"} =>
                   key' \in work'[w].seen /\ \E l \in work'[w].seen : ~l.revoked
             /\ work'[w].stage = "admitted" =>
                   work'[w].key \in work'[w].seen /\ \E l \in work'[w].seen : ~l.revoked
  <2>0. key' = key \/ key' = k
    BY DEF KeyTurns
  <2>1. CASE work[w].stage \in {"idle", "failing"} /\ work'[w] = work[w]
    BY <2>1
  <2>2. CASE /\ work'[w].stage = work[w].stage /\ work'[w].key = work[w].key
             /\ work'[w].seen = work[w].seen \cup {k}
    BY <2>0, <2>2 DEF KInv, StatesSeen, AnsweredChangesHold
  <2> QED BY <2>1, <2>2 DEF KeyTurns, Shown
<1>3. StatesSeen' /\ AnsweredChangesHold'
  BY <1>2 DEF StatesSeen, AnsweredChangesHold
<1> QED BY <1>1, <1>3 DEF KInv

LEMMA SameSeen ==
    ASSUME KInv, UNCHANGED <<key, keyRow, inForce, work>>
    PROVE  KInv'
BY DEF KInv, StatesInForce, StatesSeen, AnsweredChangesHold

LEMMA RestartSeen ==
    ASSUME TInv, KInv, NEW a \in BOOLEAN, NEW b \in BOOLEAN, Restart(a, b)
    PROVE  KInv'
<1>1. \A w \in Workers : work'[w].stage = "idle"
  BY IdleIsACall DEF Restart
<1>2. keyRow' = keyRow /\ inForce' = inForce /\ key' \in {keyRow, NoKey}
  BY DEF Restart, loadKeys
<1>3. NoKey.revoked
  BY DEF NoKey
<1>4. StatesInForce'
  BY <1>2, <1>3 DEF KInv, StatesInForce
<1>5. StatesSeen' /\ AnsweredChangesHold'
  BY <1>1 DEF StatesSeen, AnsweredChangesHold
<1> QED BY <1>4, <1>5 DEF KInv

LEMMA KInvStep ==
    ASSUME TInv, KInv, [Next]_vars
    PROVE  KInv'
<1>1. CASE KeyStep
  BY <1>1, KeyTurnsSeen, SameSeen DEF KeyStep
<1>2. ASSUME \/ Tick \/ UNCHANGED vars
             \/ \E c \in Settings, o \in Outcomes : SetForActor(c, o)
      PROVE  UNCHANGED <<key, keyRow, inForce, work>>
  BY <1>2 DEF Tick, SetForActor, vars, keys
<1> QED BY <1>1, <1>2, Steps, ArriveSeen, CheckKeySeen, VerifySignatureSeen, AdmitSeen,
           IdleSeen, SameSeen, RestartSeen, Zenon

LEMMA KInvInitially ==
    ASSUME Init
    PROVE  KInv
<1>1. \A w \in Workers : work[w].stage = "idle"
  BY IdleIsACall DEF Init
<1>2. StatesInForce
  BY DEF Init, StatesInForce
<1> QED BY <1>1, <1>2 DEF KInv, StatesSeen, AnsweredChangesHold

-----------------------------------------------------------------------------
(* Failures against a lock                                                 *)

LEMMA WorkersAmong ==
    ASSUME NEW B \in SUBSET Workers
    PROVE  /\ Cardinality(B) \in Nat
           /\ \A A \in SUBSET B : Cardinality(A) \in Nat /\ Cardinality(A) <= Cardinality(B)
           /\ \A w \in B : Cardinality(B \ {w}) = Cardinality(B) - 1
<1>1. IsFiniteSet(B)
  BY WorkersCounted, FS_Subset
<1>2. ASSUME NEW A \in SUBSET B
      PROVE  Cardinality(A) \in Nat /\ Cardinality(A) <= Cardinality(B)
  <2>1. IsFiniteSet(A) /\ Cardinality(A) <= Cardinality(B)
    BY <1>1, FS_Subset
  <2> QED BY <2>1, FS_CardinalityType
<1>3. ASSUME NEW w \in B
      PROVE  Cardinality(B \ {w}) = Cardinality(B) - 1
  <2>1. Cardinality(B \ {w}) = IF w \in B THEN Cardinality(B) - 1 ELSE Cardinality(B)
    BY <1>1, FS_RemoveElement
  <2> QED BY <2>1
<1> QED BY <1>1, <1>2, <1>3, FS_CardinalityType

(* Nothing is locked anew, no failure is added and no call comes upon a    *)
(* lock.                                                                   *)
LEMMA CountsKept ==
    ASSUME TInv, LInv,
           \A t \in Targets : during'[t] = during[t] \/ during'[t] = 0,
           \A t \in Targets : Locked(t)' =>
               Locked(t) /\ during'[t] = during[t] /\ MayFail(t)' \subseteq MayFail(t)
    PROVE  LInv'
<1>1. during \in [Targets -> Nat]
  BY DEF TInv, Typed
<1>2. \A t \in Targets : during'[t] <= Cardinality(Workers) - 1
  <2> TAKE t \in Targets
  <2>1. during[t] <= Cardinality(Workers) - 1
    BY DEF LInv, LockStopsGuessing
  <2> QED BY <2>1, WorkersCounted
<1>3. ASSUME NEW t \in Targets, Locked(t)'
      PROVE  during'[t] + Cardinality(MayFail(t)') <= Cardinality(Workers) - 1
  <2>1. Locked(t) /\ during'[t] = during[t] /\ MayFail(t)' \subseteq MayFail(t)
    BY <1>3
  <2>2. during[t] + Cardinality(MayFail(t)) <= Cardinality(Workers) - 1
    BY <2>1 DEF LInv, LockCounts
  <2>3. MayFail(t) \in SUBSET Workers
    BY DEF MayFail
  <2>4. /\ Cardinality(MayFail(t)) \in Nat /\ Cardinality(MayFail(t)') \in Nat
        /\ Cardinality(MayFail(t)') <= Cardinality(MayFail(t))
    BY <2>1, <2>3, WorkersAmong
  <2> QED BY <1>1, <2>1, <2>2, <2>4, WorkersCounted
<1>4. LockStopsGuessing'
  BY <1>2 DEF LockStopsGuessing
<1>5. LockCounts'
  BY <1>3 DEF LockCounts
<1> QED BY <1>4, <1>5 DEF LInv

(* Call w goes on as x and can fail against t only if it could before.     *)
LEMMA CallMovesMayFail ==
    ASSUME TInv, NEW w \in Workers, NEW x, Moves(w, x), NEW t \in Targets,
           \/ w \in MayFail(t) /\ x.ip = work[w].ip
           \/ x.stage \notin {"arrived", "checked", "timed", "failing"}
           \/ t # "key" /\ x.ip # t
    PROVE  MayFail(t)' \subseteq MayFail(t)
<1>1. work'[w] = x /\ \A v \in Workers : v # w => work'[v] = work[v]
  BY MovesOne DEF TInv
<1>2. ASSUME NEW v \in Workers, v \in MayFail(t)'
      PROVE  v \in MayFail(t)
  <2>1. CASE v = w
    BY <1>1, <1>2, <2>1 DEF MayFail, OnItsWay
  <2>2. CASE v # w
    BY <1>1, <1>2, <2>2 DEF MayFail, OnItsWay
  <2> QED BY <2>1, <2>2
<1> QED BY <1>2 DEF MayFail

LEMMA ArriveCounts ==
    ASSUME TInv, LInv, NEW w \in Workers, NEW n \in Nonces, NEW ip \in Ips,
           NEW signed \in BOOLEAN, Arrive(w, n, ip, signed)
    PROVE  LInv'
<1>1. PICK x : Moves(w, x) /\ x.ip = ip
  BY ArriveMoves
<1>2. during' = during /\ now' = now /\ now \in Nat /\ ~Locked(ip) /\ ~Locked("key")
  BY GateNumbers DEF Arrive, LockedOut, TInv, Typed
<1>3. \A t \in Targets : locks'[t] = locks[t] \/ locks'[t] = NoLock
  BY DEF Arrive, Unlocked
<1>4. ASSUME NEW t \in Targets, Locked(t)'
      PROVE  Locked(t) /\ MayFail(t)' \subseteq MayFail(t)
  <2>1. locks'[t].until > now
    BY <1>2, <1>4 DEF Locked
  <2>2. locks'[t] = locks[t]
    BY <1>2, <1>3, <2>1, NoLockIsALock
  <2>3. Locked(t)
    BY <2>1, <2>2 DEF Locked
  <2>4. t # ip /\ t # "key"
    BY <1>2, <2>3
  <2> QED BY <1>1, <2>3, <2>4, CallMovesMayFail
<1> QED BY <1>2, <1>4, CountsKept

LEMMA CheckKeyCounts ==
    ASSUME TInv, LInv, NEW w \in Workers, CheckKey(w) \/ VerifySignature(w)
    PROVE  LInv'
<1>1. PICK x : /\ Moves(w, x)
               /\ \/ x.ip = work[w].ip
                  \/ x.stage \notin {"arrived", "checked", "timed", "failing"}
  BY CheckKeyMoves, VerifySignatureMoves
<1>2. work[w].stage \in {"arrived", "checked"}
  BY CheckKeyMoves, VerifySignatureMoves
<1>3. during' = during /\ now' = now /\ locks' = locks
  BY DEF CheckKey, VerifySignature, memory
<1>4. ASSUME NEW t \in Targets
      PROVE  MayFail(t)' \subseteq MayFail(t)
  <2>1. CASE w \in MayFail(t)
    BY <1>1, <2>1, CallMovesMayFail
  <2>2. CASE w \notin MayFail(t)
    <3>1. t # "key" /\ work[w].ip # t
      BY <1>2, <2>2 DEF MayFail, OnItsWay
    <3> QED BY <1>1, <3>1, CallMovesMayFail
  <2> QED BY <2>1, <2>2
<1>5. \A t \in Targets : Locked(t)' => Locked(t)
  BY <1>3 DEF Locked
<1> QED BY <1>3, <1>4, <1>5, CountsKept

LEMMA AdmitCounts ==
    ASSUME TInv, LInv, NEW w \in Workers, Admit(w)
    PROVE  LInv'
<1>1. PICK x : Moves(w, x) /\ x.stage \in {"idle", "admitted"}
  BY AdmitMoves
<1>2. now' = now /\ now \in Nat
  BY GateNumbers DEF Admit, TInv, Typed
<1>3. \A t \in Targets : \/ locks'[t] = locks[t] /\ during'[t] = during[t]
                         \/ locks'[t] = NoLock /\ during'[t] = 0
  BY DEF Admit
<1>4. \A t \in Targets : Locked(t)' => Locked(t) /\ during'[t] = during[t]
  BY <1>2, <1>3, NoLockIsALock DEF Locked
<1>5. \A t \in Targets : MayFail(t)' \subseteq MayFail(t)
  BY <1>1, CallMovesMayFail
<1> QED BY <1>3, <1>4, <1>5, CountsKept

LEMMA ServeCounts ==
    ASSUME TInv, LInv, NEW w \in Workers, NEW does, Serve(w, does)
    PROVE  LInv'
<1>1. \A t \in Targets : MayFail(t)' \subseteq MayFail(t)
  BY ServeMoves, IdleIsACall, CallMovesMayFail
<1>2. during' = during /\ now' = now /\ locks' = locks
  BY DEF Serve, memory
<1>3. \A t \in Targets : Locked(t)' => Locked(t)
  BY <1>2 DEF Locked
<1> QED BY <1>1, <1>2, <1>3, CountsKept

LEMMA SameCounts ==
    ASSUME TInv, LInv, UNCHANGED <<locks, during>>, now' \in Nat, now <= now',
           \/ work' = work
           \/ \E k : Shown(k)
    PROVE  LInv'
<1>1. \A t \in Targets : MayFail(t)' \subseteq MayFail(t)
  BY DEF MayFail, OnItsWay, Shown
<1>2. now \in Nat /\ locks \in [Targets -> Locks]
  BY GateNumbers DEF TInv, Typed
<1>3. \A t \in Targets : locks[t].until \in Nat
  BY <1>2, GateNumbers DEF Locks
<1>4. \A t \in Targets : Locked(t)' => Locked(t)
  BY <1>2, <1>3 DEF Locked
<1> QED BY <1>1, <1>4, CountsKept

LEMMA RestartCounts ==
    ASSUME TInv, LInv, NEW a \in BOOLEAN, NEW b \in BOOLEAN, Restart(a, b)
    PROVE  LInv'
<1>1. /\ \A t \in Targets : during'[t] = 0 /\ locks'[t] = NoLock
      /\ now' = now /\ now \in Nat
  BY GateNumbers DEF Restart, TInv, Typed
<1>2. \A t \in Targets : ~Locked(t)'
  BY <1>1, NoLockIsALock DEF Locked
<1> QED BY <1>1, <1>2, CountsKept

(* One failure: a lock that stands is counted up by a call that can then   *)
(* no longer fail; a lock that falls leaves the other workers.             *)
LEMMA RecordFailCounts ==
    ASSUME TInv, LInv, NEW w \in Workers, RecordFail(w)
    PROVE  LInv'
<1>1. work[w].stage = "failing" /\ work[w].ip \in Ips /\ Moves(w, Idle)
  BY RecordFailMoves
<1>2. /\ work'[w] = Idle /\ \A v \in Workers : v # w => work'[v] = work[v]
      /\ now' = now /\ during \in [Targets -> Nat]
  BY <1>1, MovesOne DEF TInv, Typed, RecordFail
<1>3. ASSUME NEW t \in Targets
      PROVE  MayFail(t)' \subseteq MayFail(t) \ {w}
  BY <1>2, IdleIsACall DEF MayFail, OnItsWay
<1>4. ASSUME NEW t \in Targets
      PROVE  /\ MayFail(t) \in SUBSET Workers /\ Cardinality(MayFail(t)) \in Nat
             /\ Cardinality(MayFail(t)') \in Nat
             /\ Cardinality(MayFail(t)') <= Cardinality(MayFail(t))
             /\ w \in MayFail(t) => Cardinality(MayFail(t)') <= Cardinality(MayFail(t)) - 1
             /\ Cardinality(MayFail(t)') <= Cardinality(Workers) - 1
  <2> PICK B : B = MayFail(t)
    OBVIOUS
  <2> PICK A : A = MayFail(t)'
    OBVIOUS
  <2>1. B \in SUBSET Workers /\ A \in SUBSET (B \ {w}) /\ A \in SUBSET B
        /\ A \in SUBSET (Workers \ {w}) /\ B \ {w} \in SUBSET Workers
    BY <1>3 DEF MayFail
  <2>2. Cardinality(B) \in Nat /\ Cardinality(A) \in Nat /\ Cardinality(A) <= Cardinality(B)
    BY <2>1, WorkersAmong
  <2>3. Cardinality(A) <= Cardinality(B \ {w}) /\ Cardinality(A) <= Cardinality(Workers \ {w})
    BY <2>1, WorkersAmong
  <2>4. w \in B => Cardinality(B \ {w}) = Cardinality(B) - 1
    BY <2>1, WorkersAmong
  <2>5. Cardinality(Workers \ {w}) = Cardinality(Workers) - 1
    BY WorkersAmong
  <2> QED BY <2>1, <2>2, <2>3, <2>4, <2>5
<1>5. ASSUME NEW t \in Targets
      PROVE  /\ during'[t] <= Cardinality(Workers) - 1
             /\ Locked(t)' => during'[t] + Cardinality(MayFail(t)') <= Cardinality(Workers) - 1
  <2>0. /\ Cardinality(Workers) \in Nat \ {0} /\ during[t] \in Nat
        /\ during[t] <= Cardinality(Workers) - 1
        /\ Locked(t) => during[t] + Cardinality(MayFail(t)) <= Cardinality(Workers) - 1
    BY <1>2, WorkersCounted DEF LInv, LockStopsGuessing, LockCounts
  <2>1. CASE t \notin {work[w].ip, "key"}
    <3>1. during'[t] = during[t]
      BY <2>1 DEF RecordFail
    <3>2. Locked(t)' => Locked(t)
      BY <1>2, <2>1, FailNoted DEF Locked
    <3> QED BY <1>4, <2>0, <3>1, <3>2
  <2>2. CASE t \in {work[w].ip, "key"} /\ Locked(t)
    <3>1. during'[t] = during[t] + 1
      BY <2>2 DEF RecordFail
    <3>2. w \in MayFail(t)
      BY <1>1, <2>2 DEF MayFail, OnItsWay
    <3> QED BY <1>4, <2>0, <2>2, <3>1, <3>2
  <2>3. CASE t \in {work[w].ip, "key"} /\ ~Locked(t)
    <3>1. during'[t] = 0
      BY <2>3 DEF RecordFail
    <3> QED BY <1>4, <2>0, <3>1
  <2> QED BY <2>1, <2>2, <2>3
<1>6. LockStopsGuessing' /\ LockCounts'
  BY <1>5 DEF LockStopsGuessing, LockCounts
<1> QED BY <1>6 DEF LInv

LEMMA LInvStep ==
    ASSUME TInv, LInv, [Next]_vars
    PROVE  LInv'
<1>0. now \in Nat
  BY GateNumbers DEF TInv, Typed
<1>1. CASE KeyStep
  <2>1. UNCHANGED <<locks, during>> /\ now' = now
    BY <1>1 DEF KeyStep, memory
  <2>2. work' = work \/ \E k : Shown(k)
    BY <1>1 DEF KeyStep, KeyTurns
  <2> QED BY <1>0, <2>1, <2>2, SameCounts
<1>2. ASSUME \/ Tick \/ UNCHANGED vars
             \/ \E c \in Settings, o \in Outcomes : SetForActor(c, o)
      PROVE  LInv'
  <2>1. UNCHANGED <<locks, during, work>>
    BY <1>2 DEF Tick, SetForActor, vars, memory
  <2>2. now' = now \/ now' = now + 1
    BY <1>2 DEF Tick, SetForActor, vars
  <2> QED BY <1>0, <2>1, <2>2, SameCounts
<1> QED BY <1>1, <1>2, Steps, ArriveCounts, CheckKeyCounts, AdmitCounts, RecordFailCounts,
           ServeCounts, RestartCounts, Zenon

LEMMA LInvInitially ==
    ASSUME Init
    PROVE  LInv
<1>1. \A t \in Targets : during[t] = 0 /\ locks[t] = NoLock /\ now = 0
  BY DEF Init
<1>2. LockStopsGuessing
  BY <1>1, WorkersCounted DEF LockStopsGuessing
<1>3. LockCounts
  BY <1>1, NoLockIsALock DEF LockCounts, Locked
<1> QED BY <1>2, <1>3 DEF LInv

-----------------------------------------------------------------------------
(* The rate limit                                                          *)

LEMMA PositionsAmong ==
    ASSUME NEW n \in Nat, NEW B \in SUBSET (1..n)
    PROVE  /\ Cardinality(B) \in Nat /\ Cardinality(B) <= n
           /\ \A A \in SUBSET B : Cardinality(A) \in Nat /\ Cardinality(A) <= Cardinality(B)
           /\ Cardinality(B \cup {n + 1}) = Cardinality(B) + 1
<1>1. IsFiniteSet(1..n) /\ Cardinality(1..n) = n
  <2>1. Cardinality(1..n) = IF 1 > n THEN 0 ELSE n - 1 + 1
    BY FS_Interval
  <2> QED BY <2>1, FS_Interval
<1>2. IsFiniteSet(B) /\ Cardinality(B) <= n /\ Cardinality(B) \in Nat
  <2>1. IsFiniteSet(B) /\ Cardinality(B) <= Cardinality(1..n)
    BY <1>1, FS_Subset
  <2> QED BY <1>1, <2>1, FS_CardinalityType
<1>3. ASSUME NEW A \in SUBSET B
      PROVE  Cardinality(A) \in Nat /\ Cardinality(A) <= Cardinality(B)
  <2>1. IsFiniteSet(A) /\ Cardinality(A) <= Cardinality(B)
    BY <1>2, FS_Subset
  <2> QED BY <2>1, FS_CardinalityType
<1>4. Cardinality(B \cup {n + 1}) = Cardinality(B) + 1
  <2>1. n + 1 \notin B
    OBVIOUS
  <2>2. Cardinality(B \cup {n + 1}) =
           IF n + 1 \in B THEN Cardinality(B) ELSE Cardinality(B) + 1
    BY <1>2, FS_AddElement
  <2> QED BY <2>1, <2>2
<1> QED BY <1>2, <1>3, <1>4

(* How many times of list s are later than y.                              *)
Beyond(s, y) == Cardinality({i \in DOMAIN s : s[i] > y})

LEMMA BeyondOfPrefix ==
    ASSUME NEW r \in Seq(Time), NEW q \in Seq(Time), Len(r) <= Len(q),
           \A i \in 1..Len(r) : q[i] = r[i], NEW y \in Int
    PROVE  /\ Beyond(r, y) \in Nat /\ Beyond(q, y) \in Nat
           /\ Beyond(r, y) <= Beyond(q, y) /\ Beyond(q, y) <= Len(q)
<1> DEFINE A == {i \in DOMAIN r : r[i] > y}
           B == {i \in DOMAIN q : q[i] > y}
<1>1. DOMAIN r = 1..Len(r) /\ DOMAIN q = 1..Len(q) /\ Len(r) \in Nat /\ Len(q) \in Nat
  OBVIOUS
<1>2. B \in SUBSET (1..Len(q)) /\ A \in SUBSET B
  BY <1>1
<1>3. Beyond(r, y) = Cardinality(A) /\ Beyond(q, y) = Cardinality(B)
  BY DEF Beyond
<1> HIDE DEF A, B
<1> QED BY <1>1, <1>2, <1>3, PositionsAmong

LEMMA BeyondOneMore ==
    ASSUME NEW r \in Seq(Time), NEW t \in Time, NEW y \in Int, t > y
    PROVE  Beyond(Append(r, t), y) = Beyond(r, y) + 1
<1> PICK q : q = Append(r, t)
  OBVIOUS
<1> DEFINE A == {i \in DOMAIN r : r[i] > y}
           B == {i \in DOMAIN q : q[i] > y}
<1>1. /\ DOMAIN r = 1..Len(r) /\ DOMAIN q = 1..Len(r) + 1 /\ Len(r) \in Nat
      /\ q[Len(r) + 1] = t /\ \A i \in 1..Len(r) : q[i] = r[i]
  OBVIOUS
<1>2. A \in SUBSET (1..Len(r)) /\ B = A \cup {Len(r) + 1}
  BY <1>1
<1>3. Beyond(r, y) = Cardinality(A) /\ Beyond(q, y) = Cardinality(B)
  BY DEF Beyond
<1> HIDE DEF A, B
<1> QED BY <1>1, <1>2, <1>3, PositionsAmong

LEMMA BeyondTyped ==
    ASSUME NEW s \in Seq(Time), NEW y \in Int
    PROVE  Beyond(s, y) \in Nat /\ Beyond(s, y) <= Len(s)
<1>1. Len(s) \in Nat
  OBVIOUS
<1> QED BY <1>1, BeyondOfPrefix

LEMMA BeyondRecent ==
    ASSUME Typed, NEW at \in Time
    PROVE  /\ Len(Recent(at)) <= Len(hits)
           /\ \A y \in Int : y >= at - RateWindow => Beyond(hits, y) <= Beyond(Recent(at), y)
<1>1. hits \in Seq(Time)
  BY DEF Typed
<1> PICK cut \in Int : cut = at - RateWindow
  BY GateNumbers
<1>2. Recent(at) = Later(hits, cut)
  BY DEF Recent
<1>3. Len(Later(hits, cut)) <= Len(hits)
  BY <1>1, LaterFacts
<1>4. ASSUME NEW y \in Int, y >= cut
      PROVE  Beyond(hits, y) <= Beyond(Later(hits, cut), y)
  BY <1>1, <1>4, LaterFacts DEF Beyond
<1> QED BY <1>2, <1>3, <1>4

LEMMA MemberOfList ==
    ASSUME NEW S, NEW s \in Seq(S), NEW i \in DOMAIN s
    PROVE  s[i] \in S
OBVIOUS

(* The calls let in that RateIsBounded counts for the window ending at x.  *)
Within(x) == {i \in DOMAIN admitted : admitted[i].read > x - RateWindow /\ admitted[i].real <= x}

LEMMA AdmittedCounted ==
    ASSUME Typed
    PROVE  /\ Len(admitted) \in Nat /\ DOMAIN admitted = 1..Len(admitted)
           /\ \A y \in Int : /\ Admitted(y) \in SUBSET (1..Len(admitted))
                             /\ Cardinality(Admitted(y)) \in Nat
           /\ \A x \in Time : /\ x \in Int /\ x - RateWindow \in Int
                              /\ Within(x) \in SUBSET Admitted(x - RateWindow)
                              /\ Cardinality(Within(x)) \in Nat
<1>1. Len(admitted) \in Nat /\ DOMAIN admitted = 1..Len(admitted)
  BY DEF Typed
<1>2. ASSUME NEW y \in Int
      PROVE  /\ Admitted(y) \in SUBSET (1..Len(admitted)) /\ Cardinality(Admitted(y)) \in Nat
             /\ \A A \in SUBSET Admitted(y) : Cardinality(A) \in Nat
  <2>1. Admitted(y) \in SUBSET (1..Len(admitted))
    BY <1>1 DEF Admitted
  <2> QED BY <1>1, <2>1, PositionsAmong
<1>3. \A x \in Time : x \in Int /\ x - RateWindow \in Int
  BY GateNumbers
<1>4. \A x \in Time : Within(x) \in SUBSET Admitted(x - RateWindow)
  BY DEF Within, Admitted
<1> QED BY <1>1, <1>2, <1>3, <1>4

LEMMA RateKept ==
    ASSUME TInv, RInv, UNCHANGED <<hits, admitted>>, now' \in Nat, now <= now',
           highest' \in Nat, highest <= highest', LimitsKnown'
    PROVE  RInv'
<1>0. now \in Nat /\ highest \in Nat /\ hits \in Seq(Time) /\ Len(hits) \in Nat
      /\ admitted \in Seq([read : Time, real : Time])
  BY GateNumbers DEF TInv, Typed
<1>1. AdmittedIsCounted'
  <2>1. \A y : Admitted(y)' = Admitted(y) /\ Hits(y)' = Hits(y)
    BY DEF Admitted, Hits
  <2>2. \A x \in Time : x >= now' => x >= now
    BY <1>0, GateNumbers
  <2> QED BY <2>1, <2>2 DEF RInv, AdmittedIsCounted, Admitted, Hits
<1>2. RateIsBounded'
  <2>1. ASSUME NEW x \in Time
        PROVE  Cardinality(Within(x)) <= highest'
    <3>1. Cardinality(Within(x)) <= highest
      BY DEF RInv, RateIsBounded, Within
    <3>2. Cardinality(Within(x)) \in Nat
      BY AdmittedCounted DEF TInv
    <3> QED BY <1>0, <3>1, <3>2
  <2> QED BY <2>1 DEF RateIsBounded, Within
<1>3. Len(hits') <= highest'
  BY <1>0 DEF RInv
<1>4. \A i \in DOMAIN admitted' : admitted'[i].real <= now'
  <2> SUFFICES ASSUME NEW i \in DOMAIN admitted
               PROVE  admitted[i].real <= now'
    OBVIOUS
  <2>1. admitted[i] \in [read : Time, real : Time]
    BY <1>0, MemberOfList
  <2>2. admitted[i].real \in Nat /\ admitted[i].real <= now
    BY <2>1, GateNumbers DEF RInv
  <2> QED BY <1>0, <2>2
<1> QED BY <1>1, <1>2, <1>3, <1>4 DEF RInv

LEMMA CallMovesKnown ==
    ASSUME TInv, LimitsKnown, NEW w \in Workers, NEW x, Moves(w, x),
           x.stage = "timed" => x.limit <= highest /\ x.at <= now,
           UNCHANGED <<now, settings>>
    PROVE  LimitsKnown'
<1>1. work'[w] = x /\ \A v \in Workers : v # w => work'[v] = work[v]
  BY MovesOne DEF TInv
<1> QED BY <1>1 DEF LimitsKnown, settings

(* A call that is refused leaves the times it counted in place.            *)
LEMMA RefusalKeepsRate ==
    ASSUME TInv, RInv, LimitsKnown', NEW at \in Time, at <= now, hits' = Compacted(at),
           UNCHANGED <<now, admitted, highest>>
    PROVE  RInv'
<1>0. /\ Typed /\ hits \in Seq(Time) /\ Len(hits) \in Nat /\ now \in Nat
      /\ at - RateWindow \in Int /\ at \in Nat /\ RateWindow \in Nat
  BY GateNumbers DEF TInv, Typed
<1> PICK r : r = Recent(at)
  OBVIOUS
<1>1. /\ r \in Seq(Time) /\ Len(r) \in Nat /\ Len(r) <= Len(hits)
      /\ \A y \in Int : y >= at - RateWindow => Beyond(hits, y) <= Beyond(r, y)
  BY <1>0, RecentTyped, BeyondRecent
<1>2. /\ hits' \in Seq(Time) /\ Len(hits') = Len(hits)
      /\ \A i \in 1..Len(r) : hits'[i] = r[i]
  BY <1>0, RecentTyped
<1>3. ASSUME NEW x \in Time, x >= now
      PROVE  Cardinality(Admitted(x - RateWindow)) <= Beyond(hits', x - RateWindow)
  <2> PICK y \in Int : y = x - RateWindow
    BY <1>0, AdmittedCounted
  <2>1. y >= at - RateWindow
    BY <1>0, <1>3, GateNumbers
  <2>2. Cardinality(Admitted(y)) <= Beyond(hits, y)
    BY <1>3 DEF RInv, AdmittedIsCounted, Hits, Beyond
  <2>3. /\ Beyond(r, y) \in Nat /\ Beyond(hits', y) \in Nat
        /\ Beyond(r, y) <= Beyond(hits', y)
    BY <1>1, <1>2, BeyondOfPrefix
  <2>4. Beyond(hits, y) \in Nat
    BY <1>0, BeyondTyped
  <2>5. Cardinality(Admitted(y)) \in Nat
    BY <1>0, AdmittedCounted
  <2> QED BY <1>1, <2>1, <2>2, <2>3, <2>4, <2>5
<1>4. AdmittedIsCounted'
  BY <1>3 DEF AdmittedIsCounted, Admitted, Hits, Beyond
<1>5. RateIsBounded' /\ \A i \in DOMAIN admitted' : admitted'[i].real <= now'
  BY DEF RInv, RateIsBounded
<1> QED BY <1>2, <1>4, <1>5 DEF RInv

(* A call that read the clock at the moment at is let in.                  *)
LetIn(at) ==
    hits' = Counted(at) /\ admitted' = Append(admitted, [read |-> at, real |-> now])

LEMMA LetInAppends ==
    ASSUME Typed, NEW at \in Time, LetIn(at), NEW n \in Nat, n = Len(admitted)
    PROVE  /\ DOMAIN admitted = 1..n /\ DOMAIN admitted' = 1..n + 1
           /\ admitted'[n + 1].read = at /\ admitted'[n + 1].real = now
           /\ \A i \in 1..n : admitted'[i] = admitted[i]
<1>1. now \in Time /\ admitted \in Seq([read : Time, real : Time])
  BY DEF Typed
<1> PICK e : e = [read |-> at, real |-> now]
  OBVIOUS
<1>2. e \in [read : Time, real : Time] /\ e.read = at /\ e.real = now
  BY <1>1
<1>3. admitted' = Append(admitted, e)
  BY DEF LetIn
<1>4. /\ DOMAIN admitted = 1..n /\ DOMAIN Append(admitted, e) = 1..n + 1
      /\ Append(admitted, e)[n + 1] = e
      /\ \A i \in 1..n : Append(admitted, e)[i] = admitted[i]
  BY <1>1, <1>2
<1> QED BY <1>2, <1>3, <1>4

(* Such a call is one more on either side.                                 *)
LEMMA AdmissionKeepsRate ==
    ASSUME TInv, RInv, LimitsKnown', NEW at \in Time, at <= now, NEW l \in Nat, l <= highest,
           Len(Recent(at)) < l, LetIn(at), UNCHANGED <<now, highest>>
    PROVE  RInv'
<1>0. /\ Typed /\ hits \in Seq(Time) /\ Len(hits) \in Nat /\ now \in Nat /\ now \in Time
      /\ at - RateWindow \in Int /\ at \in Nat /\ RateWindow \in Nat /\ highest \in Nat
  BY GateNumbers DEF TInv, Typed
<1> PICK r : r = Recent(at)
  OBVIOUS
<1> PICK n \in Nat : n = Len(admitted)
  BY <1>0, AdmittedCounted
<1>1. /\ r \in Seq(Time) /\ Len(r) \in Nat /\ Len(r) <= Len(hits) /\ Len(r) < l
      /\ \A y \in Int : y >= at - RateWindow => Beyond(hits, y) <= Beyond(r, y)
  BY <1>0, RecentTyped, BeyondRecent
<1>2. /\ hits' \in Seq(Time) /\ Len(hits') = Len(r) + 1 /\ hits' = Append(r, at)
      /\ \A i \in 1..Len(r) : hits'[i] = r[i]
  BY <1>0, RecentTyped DEF Counted, LetIn
<1>3. /\ DOMAIN admitted = 1..n /\ DOMAIN admitted' = 1..n + 1
      /\ \A i \in 1..n : admitted'[i] = admitted[i]
  BY <1>0, LetInAppends
<1>4. admitted'[n + 1].read = at /\ admitted'[n + 1].real = now
  BY <1>0, LetInAppends
<1>5. Len(hits') <= highest
  BY <1>0, <1>1, <1>2
<1>6. ASSUME NEW x \in Time, x >= now
      PROVE  /\ Cardinality(Admitted(x - RateWindow)') <= Beyond(hits', x - RateWindow)
             /\ Admitted(x - RateWindow)' \in SUBSET (1..n + 1)
  <2> PICK y \in Int : y = x - RateWindow
    BY <1>0, AdmittedCounted
  <2>1. y >= at - RateWindow
    BY <1>0, <1>6, GateNumbers
  <2>2. Cardinality(Admitted(y)) <= Beyond(hits, y)
    BY <1>6 DEF RInv, AdmittedIsCounted, Hits, Beyond
  <2>3. /\ Beyond(r, y) \in Nat /\ Beyond(hits', y) \in Nat
        /\ Beyond(r, y) <= Beyond(hits', y)
    <3>1. Len(r) <= Len(hits')
      BY <1>1, <1>2
    <3> QED BY <1>1, <1>2, <3>1, BeyondOfPrefix
  <2>4. Beyond(hits, y) \in Nat
    BY <1>0, BeyondTyped
  <2>5. Cardinality(Admitted(y)) \in Nat /\ Admitted(y) \in SUBSET (1..n)
    BY <1>0, AdmittedCounted
  <2>6. Cardinality(Admitted(y)) <= Beyond(r, y)
    BY <1>1, <2>1, <2>2, <2>3, <2>4, <2>5
  <2>7. CASE at > y
    <3>1. Admitted(y)' = Admitted(y) \cup {n + 1}
      BY <1>3, <1>4, <2>7 DEF Admitted
    <3>2. Cardinality(Admitted(y)') = Cardinality(Admitted(y)) + 1
      BY <2>5, <3>1, PositionsAmong
    <3>3. Beyond(hits', y) = Beyond(r, y) + 1
      BY <1>1, <1>2, <2>7, BeyondOneMore
    <3> QED BY <2>3, <2>5, <2>6, <3>1, <3>2, <3>3
  <2>8. CASE ~(at > y)
    <3>1. Admitted(y)' = Admitted(y)
      BY <1>3, <1>4, <2>8 DEF Admitted
    <3> QED BY <2>3, <2>5, <2>6, <3>1
  <2> QED BY <2>7, <2>8
<1>7. AdmittedIsCounted'
  BY <1>6 DEF AdmittedIsCounted, Admitted, Hits, Beyond
<1>8. ASSUME NEW x \in Time
      PROVE  Cardinality(Within(x)') <= highest
  <2>1. CASE x >= now
    <3> PICK A : A = Admitted(x - RateWindow)'
      OBVIOUS
    <3> PICK B : B = Within(x)'
      OBVIOUS
    <3>1. A \in SUBSET (1..n + 1) /\ Cardinality(A) <= Beyond(hits', x - RateWindow)
      BY <1>6, <2>1
    <3>2. B \in SUBSET A
      BY DEF Within, Admitted
    <3>3. Cardinality(B) \in Nat /\ Cardinality(A) \in Nat /\ Cardinality(B) <= Cardinality(A)
      <4>1. n + 1 \in Nat
        OBVIOUS
      <4> QED BY <3>1, <3>2, <4>1, PositionsAmong
    <3>4. /\ Beyond(hits', x - RateWindow) \in Nat /\ Len(hits') \in Nat
          /\ Beyond(hits', x - RateWindow) <= Len(hits')
      <4>1. x - RateWindow \in Int
        BY <1>0, AdmittedCounted
      <4>2. Len(hits') \in Nat
        BY <1>1, <1>2
      <4> QED BY <1>2, <4>1, <4>2, BeyondTyped
    <3> QED BY <1>0, <1>5, <3>1, <3>3, <3>4
  <2>2. CASE ~(x >= now)
    <3>1. ~(now <= x)
      BY <1>0, <2>2, GateNumbers
    <3>2. Within(x)' = Within(x)
      BY <1>3, <1>4, <3>1 DEF Within
    <3> QED BY <3>2 DEF RInv, RateIsBounded, Within
  <2> QED BY <2>1, <2>2
<1>9. RateIsBounded'
  BY <1>8 DEF RateIsBounded, Within
<1>10. \A i \in DOMAIN admitted' : admitted'[i].real <= now'
  <2> TAKE i \in DOMAIN admitted'
  <2>1. CASE i = n + 1
    BY <1>0, <1>3, <1>4, <2>1
  <2>2. CASE i # n + 1
    <3>1. i \in 1..n
      BY <1>3, <2>2
    <3> QED BY <1>3, <3>1 DEF RInv
  <2> QED BY <2>1, <2>2
<1> QED BY <1>5, <1>7, <1>9, <1>10 DEF RInv

LEMMA AdmitKeepsRate ==
    ASSUME TInv, RInv, NEW w \in Workers, Admit(w)
    PROVE  RInv'
<1>1. /\ work[w].at \in Time /\ work[w].limit \in Nat
      /\ work[w].limit <= highest /\ work[w].at <= now /\ LimitsKnown
  BY AdmitMoves DEF RInv, LimitsKnown
<1>2. UNCHANGED <<now, settings>> /\ highest' = highest
  BY DEF Admit, settings
<1>3. LimitsKnown'
  <2>1. PICK x : Moves(w, x) /\ x.stage \in {"idle", "admitted"}
    BY AdmitMoves
  <2> QED BY <1>1, <1>2, <2>1, CallMovesKnown
<1>4. CASE hits' = Compacted(work[w].at) /\ admitted' = admitted
  BY <1>1, <1>2, <1>3, <1>4, RefusalKeepsRate
<1>5. CASE /\ hits' = Counted(work[w].at) /\ Len(Recent(work[w].at)) < work[w].limit
           /\ admitted' = Append(admitted, [read |-> work[w].at, real |-> now])
  BY <1>1, <1>2, <1>3, <1>5, AdmissionKeepsRate DEF LetIn
<1> QED BY <1>4, <1>5, AdmitMoves

(* The other steps of a call.                                              *)
LEMMA CallKeepsRate ==
    ASSUME TInv, RInv, NEW w \in Workers,
           \/ \E n \in Nonces, ip \in Ips, signed \in BOOLEAN : Arrive(w, n, ip, signed)
           \/ CheckKey(w) \/ VerifySignature(w) \/ RecordFail(w)
           \/ \E does : Serve(w, does)
    PROVE  RInv'
<1>0. /\ now \in Nat /\ highest \in Nat /\ LimitsKnown /\ config.limit <= highest
      /\ config.limit \in Nat
  BY GateNumbers, SettingsHaveLimits DEF TInv, Typed, RInv, LimitsKnown
<1>1. PICK x : /\ Moves(w, x)
               /\ x.stage = "timed" => x.limit = config.limit /\ x.at = now
  <2>1. CASE \E n \in Nonces, ip \in Ips, signed \in BOOLEAN : Arrive(w, n, ip, signed)
    <3>1. PICK x : Moves(w, x) /\ x.stage # "timed"
      BY <2>1, ArriveMoves
    <3> QED BY <3>1
  <2>2. CASE CheckKey(w)
    <3>1. PICK x : Moves(w, x) /\ x.stage # "timed"
      BY <2>2, CheckKeyMoves
    <3> QED BY <3>1
  <2>3. CASE VerifySignature(w)
    <3>1. PICK x : /\ Moves(w, x)
                   /\ x.stage = "failing" \/ (x.at = now /\ x.limit = config.limit)
      BY <2>3, VerifySignatureMoves
    <3> QED BY <3>1
  <2>4. CASE RecordFail(w) \/ \E does : Serve(w, does)
    BY <2>4, RecordFailMoves, ServeMoves, IdleIsACall
  <2> QED BY <2>1, <2>2, <2>3, <2>4
<1>2. UNCHANGED <<now, settings, hits, admitted, highest>>
  BY DEF Arrive, CheckKey, VerifySignature, RecordFail, Serve, settings, memory
<1>3. x.stage = "timed" => x.limit <= highest /\ x.at <= now
  BY <1>0, <1>1
<1>4. LimitsKnown'
  BY <1>0, <1>1, <1>2, <1>3, CallMovesKnown
<1> QED BY <1>0, <1>2, <1>4, RateKept

LEMMA KeyStepKeepsRate ==
    ASSUME TInv, RInv, KeyStep
    PROVE  RInv'
<1>0. now \in Nat /\ highest \in Nat
  BY GateNumbers DEF TInv, Typed
<1>1. UNCHANGED <<now, hits, admitted, config, configRow, highest>>
  BY DEF KeyStep, settings, memory
<1>2. work' = work \/ \E k : Shown(k)
  BY DEF KeyStep, KeyTurns
<1>3. ASSUME NEW w \in Workers, work'[w].stage = "timed"
      PROVE  work'[w].limit <= highest /\ work'[w].at <= now
  <2>1. work[w].stage = "timed" /\ work'[w].limit = work[w].limit /\ work'[w].at = work[w].at
    BY <1>2, <1>3 DEF Shown
  <2> QED BY <2>1 DEF RInv, LimitsKnown
<1>4. LimitsKnown'
  BY <1>1, <1>3 DEF RInv, LimitsKnown
<1> QED BY <1>0, <1>1, <1>4, RateKept

LEMMA SettingsKeepRate ==
    ASSUME TInv, RInv, NEW c \in Settings, NEW o \in Outcomes, SetForActor(c, o)
    PROVE  RInv'
<1>0. /\ now \in Nat /\ highest \in Nat /\ work \in [Workers -> Calling]
      /\ config.limit \in Nat /\ configRow.limit \in Nat
      /\ config.limit <= highest /\ configRow.limit <= highest
  BY GateNumbers, SettingsHaveLimits DEF TInv, Typed, RInv, LimitsKnown
<1>1. UNCHANGED <<now, hits, admitted, work>>
  BY DEF SetForActor, memory
<1>2. /\ highest' \in Nat /\ highest <= highest'
      /\ config' = config \/ config'.limit <= highest'
      /\ configRow' = configRow \/ configRow'.limit <= highest'
  BY LimitsFollow
<1>3. config'.limit <= highest' /\ configRow'.limit <= highest'
  BY <1>0, <1>2
<1>4. ASSUME NEW w \in Workers, work[w].stage = "timed"
      PROVE  work[w].limit <= highest' /\ work[w].at <= now
  <2>1. work[w].limit \in Nat /\ work[w].limit <= highest /\ work[w].at <= now
    BY <1>0, <1>4 DEF Calling, RInv, LimitsKnown
  <2> QED BY <1>0, <1>2, <2>1
<1>5. LimitsKnown'
  BY <1>1, <1>3, <1>4 DEF LimitsKnown
<1> QED BY <1>0, <1>1, <1>2, <1>5, RateKept

LEMMA TickKeepsRate ==
    ASSUME TInv, RInv, Tick \/ UNCHANGED vars
    PROVE  RInv'
<1>0. now \in Nat /\ highest \in Nat /\ work \in [Workers -> Calling]
  BY GateNumbers DEF TInv, Typed
<1>1. UNCHANGED <<hits, admitted, work, config, configRow, highest>>
  BY DEF Tick, vars, memory, settings
<1>2. now' = now \/ now' = now + 1
  BY DEF Tick, vars
<1>3. ASSUME NEW w \in Workers, work[w].stage = "timed"
      PROVE  work[w].limit <= highest /\ work[w].at <= now'
  <2>1. work[w].at \in Nat /\ work[w].limit <= highest /\ work[w].at <= now
    BY <1>0, <1>3, GateNumbers DEF Calling, RInv, LimitsKnown
  <2> QED BY <1>0, <1>2, <2>1
<1>4. LimitsKnown'
  BY <1>1, <1>3 DEF RInv, LimitsKnown
<1> QED BY <1>0, <1>1, <1>2, <1>4, RateKept

(* No position of an empty list counts.                                    *)
LEMMA NothingAdmitted ==
    ASSUME NEW s, s = <<>>, NEW t, t = <<>>
    PROVE  /\ DOMAIN s = {} /\ Len(s) = 0
           /\ \A y : Cardinality({i \in DOMAIN s : s[i].read > y}) <=
                      Cardinality({i \in DOMAIN t : t[i] > y})
           /\ \A x : Cardinality({i \in DOMAIN s : /\ s[i].read > x - RateWindow
                                                   /\ s[i].real <= x}) = 0
<1>1. DOMAIN s = {} /\ DOMAIN t = {} /\ Len(s) = 0
  OBVIOUS
<1>2. Cardinality({}) = 0
  BY FS_EmptySet
<1>3. \A y : {i \in DOMAIN s : s[i].read > y} = {} /\ {i \in DOMAIN t : t[i] > y} = {}
  BY <1>1
<1>4. \A x : {i \in DOMAIN s : s[i].read > x - RateWindow /\ s[i].real <= x} = {}
  BY <1>1
<1>5. \A y : Cardinality({i \in DOMAIN s : s[i].read > y}) = 0
             /\ Cardinality({i \in DOMAIN t : t[i] > y}) = 0
  BY <1>2, <1>3, Zenon
<1>6. \A y : Cardinality({i \in DOMAIN s : s[i].read > y}) <=
                      Cardinality({i \in DOMAIN t : t[i] > y})
  <2> TAKE y
  <2> PICK c : c = Cardinality({i \in DOMAIN s : s[i].read > y})
    OBVIOUS
  <2> PICK d : d = Cardinality({i \in DOMAIN t : t[i] > y})
    OBVIOUS
  <2>1. c = 0 /\ d = 0
    BY <1>5
  <2>2. c <= d
    BY <2>1
  <2> QED BY <2>2, Zenon
<1>7. \A x : Cardinality({i \in DOMAIN s : s[i].read > x - RateWindow /\ s[i].real <= x}) = 0
  BY <1>2, <1>4, Zenon
<1> QED BY <1>1, <1>6, <1>7, Zenon

LEMMA RestartKeepsRate ==
    ASSUME TInv, RInv, NEW a \in BOOLEAN, NEW b \in BOOLEAN, Restart(a, b)
    PROVE  RInv'
<1>0. highest \in Nat /\ configRow.limit \in Nat /\ configRow.limit <= highest
  BY SettingsHaveLimits DEF TInv, Typed, RInv, LimitsKnown
<1>1. hits' = <<>> /\ admitted' = <<>> /\ \A w \in Workers : work'[w].stage = "idle"
  BY IdleIsACall DEF Restart
<1>2. /\ highest' \in Nat /\ highest <= highest' /\ config'.limit <= highest'
      /\ configRow' = configRow
  BY RestartLimits
<1>3. configRow'.limit <= highest'
  BY <1>0, <1>2
<1>4. LimitsKnown'
  BY <1>1, <1>2, <1>3 DEF LimitsKnown
<1>5. AdmittedIsCounted'
  BY <1>1, NothingAdmitted DEF AdmittedIsCounted, Admitted, Hits
<1>6. RateIsBounded'
  BY <1>1, <1>2, NothingAdmitted DEF RateIsBounded
<1>7. Len(hits') <= highest' /\ DOMAIN admitted' = {}
  BY <1>1, <1>2, NothingAdmitted
<1> QED BY <1>4, <1>5, <1>6, <1>7 DEF RInv

LEMMA RInvStep ==
    ASSUME TInv, RInv, [Next]_vars
    PROVE  RInv'
BY Steps, AdmitKeepsRate, CallKeepsRate, KeyStepKeepsRate, SettingsKeepRate, TickKeepsRate,
   RestartKeepsRate, Zenon

LEMMA RInvInitially ==
    ASSUME Init
    PROVE  RInv
<1>1. highest \in Nat
  BY TInvInitially DEF TInv, Typed
<1>2. LimitsKnown
  <2>1. \A w \in Workers : work[w].stage = "idle"
    BY IdleIsACall DEF Init
  <2>2. config.limit <= highest /\ configRow.limit <= highest
    BY <1>1 DEF Init
  <2> QED BY <2>1, <2>2 DEF LimitsKnown
<1>3. hits = <<>> /\ admitted = <<>>
  BY DEF Init
<1>4. AdmittedIsCounted
  BY <1>3, NothingAdmitted DEF AdmittedIsCounted, Admitted, Hits
<1>5. RateIsBounded
  BY <1>1, <1>3, NothingAdmitted DEF RateIsBounded
<1>6. Len(hits) <= highest /\ DOMAIN admitted = {}
  BY <1>1, <1>3, NothingAdmitted
<1> QED BY <1>2, <1>4, <1>5, <1>6 DEF RInv

-----------------------------------------------------------------------------
(* The theorems                                                            *)

GateInv == TInv /\ NInv /\ KInv /\ LInv /\ RInv

LEMMA GateInvariance == Spec => []GateInv
<1>1. Init => GateInv
  BY TInvInitially, NInvInitially, KInvInitially, LInvInitially, RInvInitially DEF GateInv
<1>2. GateInv /\ [Next]_vars => GateInv'
  <2> SUFFICES ASSUME GateInv, [Next]_vars PROVE GateInv'
    OBVIOUS
  <2>1. TInv /\ NInv /\ KInv /\ LInv /\ RInv
    BY DEF GateInv
  <2> QED BY <2>1, TInvStep, NInvStep, KInvStep, LInvStep, RInvStep DEF GateInv
<1> QED BY <1>1, <1>2, PTL DEF Spec

(* The types of the gate: among them that the list of hits never grows     *)
(* beyond the highest rate_limit there was, and the failures noted of an   *)
(* address or the key stay below open_lockout_threshold.                   *)
THEOREM GateTypes == Spec => []TypeOK
<1>1. GateInv => TypeOK
  <2> SUFFICES ASSUME GateInv PROVE TypeOK
    OBVIOUS
  <2>1. Typed /\ FewFails /\ Len(hits) <= highest
    BY DEF GateInv, TInv, RInv
  <2>2. {key, keyRow} \cup inForce \subseteq Keys \cup {NoKey}
    BY <2>1 DEF Typed, AnyKey
  <2>3. \A t \in Targets : locks[t].until \in 0..MaxTime + LockTime
                           /\ Len(locks[t].fails) < Threshold
    BY <2>1 DEF Typed, Locks, FewFails
  <2>4. DOMAIN work = Workers /\ \A w \in Workers : work[w].stage \in Stages
    BY <2>1 DEF Typed, Calling
  <2>5. now \in Time /\ publishing \in BOOLEAN /\ nonces \in [Nonces -> 0..MaxTime + NonceTtl]
        /\ {config, configRow} \subseteq Settings /\ events \in 0..MaxEvents
    BY <2>1 DEF Typed
  <2> QED BY <2>1, <2>2, <2>3, <2>4, <2>5 DEF TypeOK
<1> QED BY <1>1, GateInvariance, PTL

(* The nonce check of authenticate: for any number of copies arriving      *)
(* together, in any order, and any clock, the same signed message passes   *)
(* it again only NonceTtl after it last did.                               *)
THEOREM NoEarlyReplay == Spec => []ReplaysAreRefused
<1>1. GateInv => ReplaysAreRefused
  BY DEF GateInv, NInv
<1> QED BY <1>1, GateInvariance, PTL

(* The rate limit of authenticate, counted with a clock that was read      *)
(* before the mutex was taken: no window lets in more than the highest     *)
(* rate_limit there was.                                                   *)
THEOREM NoWindowOverfull == Spec => []RateIsBounded
<1>1. GateInv => RateIsBounded
  BY DEF GateInv, RInv
<1> QED BY <1>1, GateInvariance, PTL

(* locked() and recordFail, which take the mutex one after the other: a    *)
(* lock leaves room for one more failure of each other worker.             *)
THEOREM FewGuessesAgainstALock == Spec => []LockStopsGuessing
<1>1. GateInv => LockStopsGuessing
  BY DEF GateInv, LInv
<1> QED BY <1>1, GateInvariance, PTL

(* CreateKeyWithExpiry, UpdateKey, Revoke and loadKeys against calls under *)
(* way: a call that arrives after an answer is served with a state of the  *)
(* key in force from then on, and not served once the key is revoked.      *)
THEOREM ServedAsAnswered == Spec => []AnsweredChangesHold
<1>1. GateInv => AnsweredChangesHold
  BY DEF GateInv, KInv
<1> QED BY <1>1, GateInvariance, PTL

=============================================================================
