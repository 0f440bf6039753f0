------------------------- MODULE OrganisationProofs -------------------------
(***************************************************************************)
(* Proofs about Organisation for any number of administrators at work,     *)
(* accounts and groups, any quotas, failed writes and restarts.            *)
(*                                                                         *)
(* A quota is checked in one critical section and used in a later one.     *)
(* What bounds the members of a group is that they and the accounts that   *)
(* requests have found room for are, together, at most one for each other  *)
(* worker above the highest quota there was (HeldIsBounded).               *)
(***************************************************************************)
EXTENDS Organisation, FiniteSetTheorems, TLAPS

Requests ==
    [stage : Stages, user : Users \cup {NoUser}, name : Names \cup {"none"},
     group : 0..MaxGroups, orphan : BOOLEAN]

Changing(w) == work[w].stage \in {"found", "fits"}
Deleting(w) == work[w].stage \in {"memberless", "vacant"}

Typed ==
    /\ users \in [Names -> Users \cup {NoUser}]
    /\ userRows \in [Names -> Users \cup {NoUser}]
    /\ groups \in [GroupIds -> Quotas \cup {NoGroup}]
    /\ groupRows \in [GroupIds -> Quotas \cup {NoGroup}]
    /\ peak \in [GroupIds -> [Limited -> Nat]]
    /\ seq \in 0..MaxGroups
    /\ work \in [Workers -> Requests]
    /\ doubt \subseteq Names /\ lost \subseteq GroupIds
    /\ unsure \in BOOLEAN /\ events \in 0..MaxEvents

(* A request under way knows what it is about.                             *)
RequestsNamed ==
    \A w \in Workers :
        /\ Changing(w) => work[w].name \in Names /\ work[w].user.role \in Limited
        /\ Deleting(w) => work[w].group \in GroupIds

(* The role of an account does not change while the pointer to it holds.   *)
RoleStays ==
    \A w \in Workers :
        Changing(w) /\ ~work[w].orphan => users[work[w].name].role = work[w].user.role

(* Every super in memory is one in the table, and there is one.            *)
SupersStored ==
    ~unsure => /\ Supers # {}
               /\ \A n \in Supers : userRows[n].role = "super"

(* A group past the check of members still has none.                       *)
DeletedIsMemberless ==
    \A w \in Workers : Deleting(w) =>
        \A n \in Names \ doubt : work[w].group \notin users[n].groups

(* A group in memory is in the table.                                      *)
GroupsStored ==
    \A g \in GroupIds \ lost : Exists(g) => groupRows[g] # NoGroup

(* No quota in memory or in the table is above the highest there was.      *)
PeaksHold ==
    \A g \in GroupIds, r \in Limited :
        groups[g][r] <= peak[g][r] /\ groupRows[g][r] <= peak[g][r]

(* Request w has found room in group g for the account n, of role r.       *)
Reserves(w, n, r, g) ==
    /\ work[w].stage = "fits" /\ work[w].name = n
    /\ work[w].user.role = r /\ g \in work[w].user.groups

Reserved(r, g) == {n \in Names : \E w \in Workers : Reserves(w, n, r, g)}

(* The members of a group, and those who are about to be.                  *)
Held(r, g) == (Members(r, g) \ doubt) \cup Reserved(r, g)

HeldIsBounded ==
    \A g \in GroupIds, r \in Limited :
        Cardinality(Held(r, g)) <= peak[g][r] + Cardinality(Workers) - 1

IInv ==
    /\ Typed /\ RequestsNamed /\ RoleStays
    /\ SupersStored /\ AccountsMatchRows
    /\ GroupsOfAccountsExist /\ DeletedIsMemberless /\ GroupsStored
    /\ PeaksHold /\ HeldIsBounded

-----------------------------------------------------------------------------
(* Numbers and sets                                                        *)

LEMMA WorkersCounted == IsFiniteSet(Workers) /\ Cardinality(Workers) \in Nat \ {0}
BY OrganisationConstants, FS_CardinalityType, FS_EmptySet

LEMMA QuotaNumbers ==
    ASSUME NEW q \in Quotas \cup {NoGroup}
    PROVE  /\ q \in [Limited -> Nat]
           /\ q \in Quotas => q # NoGroup
BY OrganisationConstants DEF NoGroup, Limited

LEMMA MaxOfTwo ==
    ASSUME NEW a \in Nat, NEW b \in Nat
    PROVE  Max({a, b}) \in Nat /\ a <= Max({a, b}) /\ b <= Max({a, b})
<1>1. \E x \in {a, b} : \A y \in {a, b} : x >= y
  <2>1. CASE a >= b
    BY <2>1
  <2>2. CASE b >= a
    BY <2>2
  <2> QED BY <2>1, <2>2
<1>2. Max({a, b}) \in {a, b} /\ \A y \in {a, b} : Max({a, b}) >= y
  BY <1>1 DEF Max
<1> QED BY <1>2

LEMMA RaiseBounds ==
    ASSUME NEW q \in [Limited -> Nat], NEW p \in [Limited -> Nat]
    PROVE  /\ Raise(q, p) \in [Limited -> Nat]
           /\ \A r \in Limited : q[r] <= Raise(q, p)[r] /\ p[r] <= Raise(q, p)[r]
<1>1. \A r \in Limited : /\ Max({q[r], p[r]}) \in Nat
                         /\ q[r] <= Max({q[r], p[r]}) /\ p[r] <= Max({q[r], p[r]})
  BY MaxOfTwo
<1> QED BY <1>1 DEF Raise

(* Values that others than w0 give are fewer than Workers.                 *)
LEMMA FewValues ==
    ASSUME NEW S, NEW f, NEW w0 \in Workers,
           \A n \in S : \E w \in Workers \ {w0} : f[w] = n
    PROVE  IsFiniteSet(S) /\ Cardinality(S) \in Nat /\ Cardinality(S) <= Cardinality(Workers) - 1
<1> DEFINE T == {w \in Workers \ {w0} : f[w] \in S}
           h == [w \in T |-> f[w]]
<1>1. h \in Surjection(T, S)
  BY DEF Surjection
<1>2. IsFiniteSet(Workers \ {w0}) /\ Cardinality(Workers \ {w0}) = Cardinality(Workers) - 1
  BY WorkersCounted, FS_RemoveElement
<1>3. T \in SUBSET (Workers \ {w0})
  OBVIOUS
<1> HIDE DEF T, h
<1>4. IsFiniteSet(T) /\ Cardinality(T) <= Cardinality(Workers) - 1
  BY <1>2, <1>3, FS_Subset
<1>5. IsFiniteSet(S) /\ Cardinality(S) <= Cardinality(T)
  BY <1>1, <1>4, FS_Surjection
<1>6. Cardinality(S) \in Nat /\ Cardinality(T) \in Nat
  BY <1>4, <1>5, FS_CardinalityType
<1> QED BY <1>4, <1>5, <1>6, WorkersCounted

(* A set that shrinks while the bound grows.                               *)
LEMMA BoundKept ==
    ASSUME NEW S \in SUBSET Names, NEW T \in SUBSET S, NEW p \in Nat, NEW k \in Nat,
           Cardinality(S) <= p + Cardinality(Workers) - 1, p <= k
    PROVE  Cardinality(T) <= k + Cardinality(Workers) - 1
<1>1. IsFiniteSet(S)
  BY OrganisationConstants, FS_Subset
<1>2. IsFiniteSet(T) /\ Cardinality(T) <= Cardinality(S)
  BY <1>1, FS_Subset
<1>3. Cardinality(T) \in Nat /\ Cardinality(S) \in Nat
  BY <1>1, <1>2, FS_CardinalityType
<1> QED BY <1>2, <1>3, WorkersCounted

(* A member more, where there was room for one.                            *)
LEMMA BoundReached ==
    ASSUME NEW M \in SUBSET Names, NEW R \in SUBSET Names, NEW n \in Names,
           NEW T \in SUBSET (M \cup {n} \cup R), NEW q \in Nat, NEW p \in Nat,
           Cardinality(M) < q, q <= p, Cardinality(R) <= Cardinality(Workers) - 1
    PROVE  Cardinality(T) <= p + Cardinality(Workers) - 1
<1>1. IsFiniteSet(M) /\ IsFiniteSet(R)
  BY OrganisationConstants, FS_Subset
<1>0. Cardinality(M) \in Nat /\ Cardinality(R) \in Nat
  BY <1>1, FS_CardinalityType
<1>2. IsFiniteSet(M \cup {n}) /\ Cardinality(M \cup {n}) <= Cardinality(M) + 1
  <2>1. /\ IsFiniteSet(M \cup {n})
        /\ Cardinality(M \cup {n}) = IF n \in M THEN Cardinality(M) ELSE Cardinality(M) + 1
    BY <1>1, FS_AddElement, Zenon
  <2> QED BY <1>0, <2>1
<1>3. /\ IsFiniteSet((M \cup {n}) \cup R)
      /\ Cardinality((M \cup {n}) \cup R) =
            Cardinality(M \cup {n}) + Cardinality(R) - Cardinality((M \cup {n}) \cap R)
  BY <1>1, <1>2, FS_Union
<1>4. IsFiniteSet((M \cup {n}) \cap R)
  BY <1>2, FS_Intersection
<1>5. IsFiniteSet(T) /\ Cardinality(T) <= Cardinality((M \cup {n}) \cup R)
  BY <1>3, FS_Subset
<1>6. Cardinality(T) \in Nat /\ Cardinality((M \cup {n}) \cap R) \in Nat
      /\ Cardinality(M \cup {n}) \in Nat /\ Cardinality((M \cup {n}) \cup R) \in Nat
  BY <1>2, <1>3, <1>4, <1>5, FS_CardinalityType
<1> QED BY <1>0, <1>2, <1>3, <1>5, <1>6, WorkersCounted

(* Where some request has reserved nothing, less is reserved than there    *)
(* are requests.                                                           *)
LEMMA ReservedFew ==
    ASSUME NEW r, NEW g, NEW w0 \in Workers, work[w0].stage # "fits"
    PROVE  Reserved(r, g) \in SUBSET Names
           /\ Cardinality(Reserved(r, g)) <= Cardinality(Workers) - 1
<1> DEFINE f == [w \in Workers |-> work[w].name]
<1>1. \A n \in Reserved(r, g) : \E w \in Workers \ {w0} : f[w] = n
  BY DEF Reserved, Reserves
<1> HIDE DEF f
<1>2. Cardinality(Reserved(r, g)) <= Cardinality(Workers) - 1
  BY <1>1, FewValues
<1> QED BY <1>2 DEF Reserved

LEMMA IdleIsARequest == Idle \in Requests /\ Idle.stage = "idle" /\ Idle.name = "none"
BY OrganisationConstants DEF Idle, Requests, Stages

-----------------------------------------------------------------------------
(* One request moves on and nothing else changes.                          *)

LEMMA RequestMoves ==
    ASSUME IInv, NEW w \in Workers, NEW x \in Requests,
           work' = [work EXCEPT ![w] = x],
           UNCHANGED <<accounts, grouping, history, events>>,
           x.stage \in {"found", "fits"} =>
              /\ x.name \in Names /\ x.user.role \in Limited
              /\ ~x.orphan => users[x.name].role = x.user.role,
           x.stage \in {"memberless", "vacant"} =>
              /\ x.group \in GroupIds
              /\ \A n \in Names \ doubt : x.group \notin users[n].groups,
           x.stage = "fits" =>
              /\ work[w].stage # "fits"
              /\ \A g \in x.user.groups : RoomIn(x.user.role, g, {x.name})
    PROVE  IInv'
<1> USE DEF accounts, grouping, history
<1>0. Typed
  BY DEF IInv
<1>1. /\ work \in [Workers -> Requests] /\ work' \in [Workers -> Requests]
      /\ work'[w] = x /\ \A v \in Workers : v # w => work'[v] = work[v]
  BY <1>0 DEF Typed
<1>2. Typed'
  BY <1>0, <1>1 DEF Typed
<1>3. RequestsNamed'
  BY <1>1 DEF IInv, RequestsNamed, Changing, Deleting
<1>4. RoleStays'
  BY <1>1 DEF IInv, RoleStays, Changing
<1>5. SupersStored'
  BY DEF IInv, SupersStored, Supers
<1>6. AccountsMatchRows'
  BY DEF IInv, AccountsMatchRows
<1>7. GroupsOfAccountsExist' /\ GroupsStored' /\ PeaksHold'
  BY DEF IInv, GroupsOfAccountsExist, GroupsStored, PeaksHold, Exists
<1>8. DeletedIsMemberless'
  BY <1>1 DEF IInv, DeletedIsMemberless, Deleting
<1>9. ASSUME NEW g \in GroupIds, NEW r \in Limited
      PROVE  Cardinality(Held(r, g)') <= peak'[g][r] + Cardinality(Workers) - 1
  <2>1. Held(r, g) \in SUBSET Names /\ Members(r, g) \in SUBSET Names
    BY DEF Held, Members, Reserved
  <2>2. peak[g][r] \in Nat /\ groups[g][r] \in Nat /\ groups[g][r] <= peak[g][r]
        /\ Cardinality(Held(r, g)) <= peak[g][r] + Cardinality(Workers) - 1
    BY <1>0, QuotaNumbers DEF Typed, IInv, PeaksHold, HeldIsBounded
  <2>3. Members(r, g)' = Members(r, g)
    BY DEF Members
  <2>4. CASE x.stage = "fits" /\ x.user.role = r /\ g \in x.user.groups
    <3>1. Reserved(r, g)' \subseteq {x.name} \cup Reserved(r, g)
      BY <1>1 DEF Reserved, Reserves
    <3>2. Held(r, g)' \in SUBSET ((Members(r, g) \ {x.name}) \cup {x.name} \cup Reserved(r, g))
      BY <2>3, <3>1 DEF Held
    <3>3. Cardinality(Members(r, g) \ {x.name}) < groups[g][r] /\ x.name \in Names
      BY <2>4 DEF RoomIn
    <3>4. Reserved(r, g) \in SUBSET Names
          /\ Cardinality(Reserved(r, g)) <= Cardinality(Workers) - 1
      BY <2>4, ReservedFew
    <3> HIDE DEF accounts, grouping, history
    <3>5. Members(r, g) \ {x.name} \in SUBSET Names
      BY <2>1
    <3>6. Cardinality(Held(r, g)') <= peak[g][r] + Cardinality(Workers) - 1
      BY <2>2, <3>2, <3>3, <3>4, <3>5, BoundReached
    <3> QED BY <3>6 DEF history
  <2>5. CASE ~(x.stage = "fits" /\ x.user.role = r /\ g \in x.user.groups)
    <3>1. Reserved(r, g)' \subseteq Reserved(r, g)
      BY <1>1, <2>5 DEF Reserved, Reserves
    <3>2. Held(r, g)' \in SUBSET Held(r, g)
      BY <2>3, <3>1 DEF Held
    <3>3. Cardinality(Held(r, g)') <= peak[g][r] + Cardinality(Workers) - 1
      BY <2>1, <2>2, <3>2, BoundKept
    <3> QED BY <3>3
  <2> QED BY <2>4, <2>5
<1>10. HeldIsBounded'
  BY <1>9 DEF HeldIsBounded
<1> QED BY <1>2, <1>3, <1>4, <1>5, <1>6, <1>7, <1>8, <1>10 DEF IInv

-----------------------------------------------------------------------------
(* One account changes, in memory from users[n] to u and in the table from *)
(* userRows[n] to v.  A request may end, or lose its account.              *)

(* Requests go on, those of account n only while its role stays, or end.   *)
RequestsFollow(n, u) ==
    \A w \in Workers :
        \/ work'[w].stage = "idle"
        \/ /\ work'[w].stage = work[w].stage /\ work'[w].name = work[w].name
           /\ work'[w].user = work[w].user /\ work'[w].group = work[w].group
           /\ work[w].orphan => work'[w].orphan
           /\ work[w].name = n /\ ~work'[w].orphan /\ Changing(w) =>
                 u.role = users[n].role

(* The account is in doubt, or stored, in groups that exist and had room.  *)
Settled(n, u, v) ==
    n \notin doubt' =>
        /\ u = v /\ ~BeingDeleted(u.groups)
        /\ u.role \in Limited => \A g \in u.groups \ lost : Exists(g)
        /\ \A r \in Limited : \A g \in GroupIds :
              u.role = r /\ g \in u.groups =>
                 \/ n \in Held(r, g)
                 \/ /\ Cardinality(Members(r, g)) < groups[g][r]
                    /\ \E w \in Workers : work[w].stage # "fits"

(* There is a super besides, unless this account is one that is stored.    *)
SuperStays(n, u, v) ==
    ~unsure' => /\ ~unsure
                /\ u.role = "super" => v.role = "super"
                /\ u.role # "super" => \E m \in Supers : m # n

AccountTurns(n, u, v) ==
    /\ users' = [users EXCEPT ![n] = u] /\ userRows' = [userRows EXCEPT ![n] = v]
    /\ doubt' \subseteq Names /\ doubt \ {n} \subseteq doubt'
    /\ unsure' \in BOOLEAN /\ events' \in 0..MaxEvents
    /\ UNCHANGED <<grouping, lost, peak>>
    /\ work' \in [Workers -> Requests]
    /\ RequestsFollow(n, u) /\ Settled(n, u, v) /\ SuperStays(n, u, v)

LEMMA AccountChanges ==
    ASSUME IInv, NEW n \in Names,
           NEW u \in Users \cup {NoUser}, NEW v \in Users \cup {NoUser},
           AccountTurns(n, u, v)
    PROVE  IInv'
<1> USE DEF grouping, AccountTurns, RequestsFollow, Settled, SuperStays
<1>0. Typed
  BY DEF IInv
<1>1. /\ users \in [Names -> Users \cup {NoUser}] /\ users' \in [Names -> Users \cup {NoUser}]
      /\ userRows \in [Names -> Users \cup {NoUser}] /\ userRows' \in [Names -> Users \cup {NoUser}]
      /\ users'[n] = u /\ \A m \in Names : m # n => users'[m] = users[m]
      /\ userRows'[n] = v /\ \A m \in Names : m # n => userRows'[m] = userRows[m]
  BY <1>0 DEF Typed
<1>2. Typed'
  BY <1>0, <1>1 DEF Typed
<1>3. RequestsNamed'
  BY DEF IInv, RequestsNamed, Changing, Deleting
<1>4. RoleStays'
  <2> SUFFICES ASSUME NEW w \in Workers, Changing(w)', ~work'[w].orphan
               PROVE  users'[work'[w].name].role = work'[w].user.role
    BY DEF RoleStays
  <2>1. /\ work'[w].stage = work[w].stage /\ work'[w].name = work[w].name
        /\ work'[w].user = work[w].user /\ Changing(w)
        /\ work[w].name = n => u.role = users[n].role
    BY DEF Changing
  <2>2. work'[w] \in Requests /\ work'[w].orphan \in BOOLEAN
    BY DEF Requests
  <2>3. ~work[w].orphan
    BY <2>1, <2>2 DEF Changing
  <2>4. users[work[w].name].role = work[w].user.role /\ work[w].name \in Names
    BY <2>1, <2>3 DEF IInv, RoleStays, RequestsNamed
  <2> QED BY <1>1, <2>1, <2>4
<1>5. SupersStored'
  <2> SUFFICES ASSUME ~unsure'
               PROVE  Supers' # {} /\ \A m \in Supers' : userRows'[m].role = "super"
    BY DEF SupersStored
  <2>1. \A m \in Supers : userRows[m].role = "super"
    BY DEF IInv, SupersStored
  <2>2. Supers' # {}
    BY <1>1 DEF Supers
  <2>3. \A m \in Supers' : userRows'[m].role = "super"
    BY <1>1, <2>1 DEF Supers
  <2> QED BY <2>2, <2>3
<1>6. AccountsMatchRows'
  BY <1>1 DEF IInv, AccountsMatchRows
<1>7. GroupsOfAccountsExist'
  BY <1>1 DEF IInv, GroupsOfAccountsExist, Exists
<1>8. GroupsStored' /\ PeaksHold'
  BY DEF IInv, GroupsStored, PeaksHold, Exists
<1>9. DeletedIsMemberless'
  <2> SUFFICES ASSUME NEW w \in Workers, Deleting(w)', NEW m \in Names \ doubt'
               PROVE  work'[w].group \notin users'[m].groups
    BY DEF DeletedIsMemberless
  <2>1. Deleting(w) /\ work'[w].group = work[w].group
    BY DEF Deleting
  <2>2. CASE m = n
    BY <1>1, <2>1, <2>2 DEF BeingDeleted, Deleting
  <2>3. CASE m # n
    BY <1>1, <2>1, <2>3 DEF IInv, DeletedIsMemberless
  <2> QED BY <2>2, <2>3
<1>10. ASSUME NEW g \in GroupIds, NEW r \in Limited
       PROVE  Cardinality(Held(r, g)') <= peak'[g][r] + Cardinality(Workers) - 1
  <2>1. Held(r, g) \in SUBSET Names /\ Members(r, g) \in SUBSET Names
    BY DEF Held, Members, Reserved
  <2>2. peak[g][r] \in Nat /\ groups[g][r] \in Nat /\ groups[g][r] <= peak[g][r]
        /\ Cardinality(Held(r, g)) <= peak[g][r] + Cardinality(Workers) - 1
    BY <1>0, QuotaNumbers DEF Typed, IInv, PeaksHold, HeldIsBounded
  <2>3. Reserved(r, g)' \subseteq Reserved(r, g)
    BY DEF Reserved, Reserves
  <2>4. \A m \in Members(r, g)' \ doubt' : m # n => m \in Members(r, g) \ doubt
    BY <1>1 DEF Members
  <2>5. n \in Members(r, g)' => u.role = r /\ g \in u.groups
    BY <1>1 DEF Members
  <2>6. CASE n \notin Members(r, g)' \ doubt' \/ n \in Held(r, g)
    <3>1. Held(r, g)' \in SUBSET Held(r, g)
      BY <2>3, <2>4, <2>6 DEF Held
    <3>2. Cardinality(Held(r, g)') <= peak[g][r] + Cardinality(Workers) - 1
      BY <2>1, <2>2, <3>1, BoundKept
    <3> QED BY <3>2
  <2>7. CASE ~(n \notin Members(r, g)' \ doubt' \/ n \in Held(r, g))
    <3>1. PICK w \in Workers : Cardinality(Members(r, g)) < groups[g][r] /\ work[w].stage # "fits"
      BY <2>5, <2>7
    <3>2. Held(r, g)' \in SUBSET (Members(r, g) \cup {n} \cup Reserved(r, g))
      BY <2>3, <2>4 DEF Held
    <3>3. Reserved(r, g) \in SUBSET Names
          /\ Cardinality(Reserved(r, g)) <= Cardinality(Workers) - 1
      BY <3>1, ReservedFew
    <3>4. Cardinality(Held(r, g)') <= peak[g][r] + Cardinality(Workers) - 1
      BY <2>1, <2>2, <3>1, <3>2, <3>3, BoundReached
    <3> QED BY <3>4
  <2> QED BY <2>6, <2>7
<1>11. HeldIsBounded'
  BY <1>10 DEF HeldIsBounded
<1> QED BY <1>2, <1>3, <1>4, <1>5, <1>6, <1>7, <1>8, <1>9, <1>11 DEF IInv

-----------------------------------------------------------------------------
(* One group changes, in memory to q and in the table to p.  A request may *)
(* end with it.                                                            *)

GroupTurns(g, q, p, k) ==
    /\ groups' = [groups EXCEPT ![g] = q] /\ groupRows' = [groupRows EXCEPT ![g] = p]
    /\ peak' = [peak EXCEPT ![g] = k]
    /\ \A r \in Limited : q[r] <= k[r] /\ p[r] <= k[r] /\ peak[g][r] <= k[r]
    /\ seq' \in 0..MaxGroups /\ lost' \subseteq GroupIds /\ lost \subseteq lost'
    /\ events' \in 0..MaxEvents
    /\ UNCHANGED <<accounts, doubt, unsure>>
    /\ work' \in [Workers -> Requests]
    /\ \A w \in Workers : work'[w].stage = "idle" \/ work'[w] = work[w]
    /\ g \notin lost' =>
          /\ q # NoGroup => p # NoGroup
          /\ q = NoGroup /\ Exists(g) =>
                \A n \in Names \ doubt : g \notin users[n].groups

LEMMA GroupChanges ==
    ASSUME IInv, NEW g \in GroupIds,
           NEW q \in Quotas \cup {NoGroup}, NEW p \in Quotas \cup {NoGroup},
           NEW k \in [Limited -> Nat], GroupTurns(g, q, p, k)
    PROVE  IInv'
<1> USE DEF accounts, GroupTurns
<1>0. Typed
  BY DEF IInv
<1>1. /\ groups'[g] = q /\ \A h \in GroupIds : h # g => groups'[h] = groups[h]
      /\ groupRows'[g] = p /\ \A h \in GroupIds : h # g => groupRows'[h] = groupRows[h]
      /\ peak'[g] = k /\ \A h \in GroupIds : h # g => peak'[h] = peak[h]
  BY <1>0 DEF Typed
<1>2. Typed'
  BY <1>0 DEF Typed
<1>3. RequestsNamed'
  BY DEF IInv, RequestsNamed, Changing, Deleting
<1>4. RoleStays'
  BY DEF IInv, RoleStays, Changing
<1>5. SupersStored'
  BY DEF IInv, SupersStored, Supers
<1>6. AccountsMatchRows'
  BY DEF IInv, AccountsMatchRows
<1>7. GroupsOfAccountsExist'
  <2> SUFFICES ASSUME NEW n \in Names \ doubt, users[n].role \in Limited,
                      NEW h \in users[n].groups \ lost'
               PROVE  groups'[h] # NoGroup
    BY DEF GroupsOfAccountsExist, Exists
  <2>1. h \in GroupIds
    BY <1>0 DEF Typed, Users, NoUser
  <2>2. groups[h] # NoGroup
    BY DEF IInv, GroupsOfAccountsExist, Exists
  <2> QED BY <1>1, <2>1, <2>2 DEF Exists
<1>8. GroupsStored'
  BY <1>1 DEF IInv, GroupsStored, Exists
<1>9. DeletedIsMemberless'
  BY DEF IInv, DeletedIsMemberless, Deleting
<1>10. PeaksHold'
  BY <1>1 DEF IInv, PeaksHold
<1>11. ASSUME NEW h \in GroupIds, NEW r \in Limited
       PROVE  Cardinality(Held(r, h)') <= peak'[h][r] + Cardinality(Workers) - 1
  <2>1. Held(r, h) \in SUBSET Names
    BY DEF Held, Members, Reserved
  <2>2. peak[h][r] \in Nat /\ peak'[h][r] \in Nat /\ peak[h][r] <= peak'[h][r]
        /\ Cardinality(Held(r, h)) <= peak[h][r] + Cardinality(Workers) - 1
    BY <1>0, <1>1 DEF Typed, IInv, HeldIsBounded
  <2>3. Reserved(r, h)' \subseteq Reserved(r, h) /\ Members(r, h)' = Members(r, h)
    BY DEF Reserved, Reserves, Members
  <2>4. Held(r, h)' \in SUBSET Held(r, h)
    BY <2>3 DEF Held
  <2> QED BY <2>1, <2>2, <2>4, BoundKept
<1>12. HeldIsBounded'
  BY <1>11 DEF HeldIsBounded
<1> QED BY <1>2, <1>3, <1>4, <1>5, <1>6, <1>7, <1>8, <1>9, <1>10, <1>12 DEF IInv

(* Accounts not in doubt keep what they are or turn super, and no account  *)
(* loses the role of super.  Requests go on or end.                        *)
LEMMA AccountsKept ==
    ASSUME IInv,
           users' \in [Names -> Users \cup {NoUser}],
           userRows' \in [Names -> Users \cup {NoUser}],
           doubt \subseteq doubt', doubt' \subseteq Names, events' \in 0..MaxEvents,
           UNCHANGED <<lost, unsure, peak, groupRows>>,
           groups' \in [GroupIds -> Quotas \cup {NoGroup}], seq' \in 0..MaxGroups,
           \A g \in GroupIds : groups'[g] \in {groups[g], groupRows[g]},
           work' \in [Workers -> Requests],
           \A w \in Workers :
              \/ work'[w].stage = "idle"
              \/ work'[w] = work[w] /\ \A n \in Names : users'[n].role = users[n].role,
           \A n \in Names \ doubt' :
              /\ users'[n] = userRows'[n]
              /\ \/ users'[n] = users[n]
                 \/ users'[n].role = "super" /\ users'[n].groups = {},
           ~unsure => /\ Supers' # {}
                      /\ \A n \in Supers' : userRows'[n].role = "super"
    PROVE  IInv'
<1>0. Typed
  BY DEF IInv
<1>2. Typed'
  BY <1>0 DEF Typed
<1>3. RequestsNamed'
  BY DEF IInv, RequestsNamed, Changing, Deleting
<1>4. RoleStays'
  BY DEF IInv, RoleStays, RequestsNamed, Changing
<1>5. SupersStored'
  BY DEF IInv, SupersStored
<1>6. AccountsMatchRows'
  BY DEF AccountsMatchRows
<1>7. GroupsOfAccountsExist'
  <2> SUFFICES ASSUME NEW n \in Names \ doubt', users'[n].role \in Limited,
                      NEW h \in users'[n].groups \ lost
               PROVE  groups'[h] # NoGroup
    BY DEF GroupsOfAccountsExist, Exists
  <2>1. users'[n] = users[n]
    BY DEF Limited
  <2>2. h \in GroupIds
    BY <1>0, <2>1 DEF Typed, Users, NoUser
  <2>3. groups[h] # NoGroup
    BY <2>1 DEF IInv, GroupsOfAccountsExist, Exists
  <2>4. groupRows[h] # NoGroup
    BY <2>2, <2>3 DEF IInv, GroupsStored, Exists
  <2> QED BY <2>2, <2>3, <2>4
<1>8. GroupsStored'
  BY DEF IInv, GroupsStored, Exists
<1>9. DeletedIsMemberless'
  BY DEF IInv, DeletedIsMemberless, Deleting
<1>10. PeaksHold'
  BY DEF IInv, PeaksHold
<1>11. ASSUME NEW h \in GroupIds, NEW r \in Limited
       PROVE  Cardinality(Held(r, h)') <= peak'[h][r] + Cardinality(Workers) - 1
  <2>1. Held(r, h) \in SUBSET Names
    BY DEF Held, Members, Reserved
  <2>2. peak[h][r] \in Nat /\ Cardinality(Held(r, h)) <= peak[h][r] + Cardinality(Workers) - 1
    BY <1>0 DEF Typed, IInv, HeldIsBounded
  <2>3. Reserved(r, h)' \subseteq Reserved(r, h)
    BY DEF Reserved, Reserves
  <2>4. Members(r, h)' \ doubt' \subseteq Members(r, h) \ doubt
    BY DEF Members, Limited
  <2>5. Held(r, h)' \in SUBSET Held(r, h)
    BY <2>3, <2>4 DEF Held
  <2>6. Cardinality(Held(r, h)') <= peak[h][r] + Cardinality(Workers) - 1
    BY <2>1, <2>2, <2>5, BoundKept
  <2> QED BY <2>6
<1>12. HeldIsBounded'
  BY <1>11 DEF HeldIsBounded
<1> QED BY <1>2, <1>3, <1>4, <1>5, <1>6, <1>7, <1>8, <1>9, <1>10, <1>12 DEF IInv

-----------------------------------------------------------------------------
(* Every action keeps the invariant.                                       *)

LEMMA FoundIsARequest ==
    ASSUME NEW n \in Names, NEW u \in Users
    PROVE  [Idle EXCEPT !.stage = "found", !.name = n, !.user = u] \in Requests
<1>1. \A x \in Requests : \A s \in Stages :
         [x EXCEPT !.stage = s, !.name = n, !.user = u] \in Requests
  BY DEF Requests
<1> QED BY <1>1, IdleIsARequest DEF Stages

LEMMA CreateUserKeeps ==
    ASSUME IInv, NEW n \in Names, NEW u \in Users, NEW o \in Outcomes,
           \E w \in Workers : work[w] = Idle, CreateUser(n, u, o)
    PROVE  IInv'
<1> PICK a : a = IF o = "ok" THEN u ELSE users[n]
  OBVIOUS
<1> PICK b : b = IF Applied(o) THEN u ELSE userRows[n]
  OBVIOUS
<1>0. Typed
  BY DEF IInv
<1>1. a \in Users \cup {NoUser} /\ b \in Users \cup {NoUser} /\ users[n] = NoUser
  BY <1>0 DEF Typed, CreateUser
<1>2. users' = [users EXCEPT ![n] = a] /\ userRows' = [userRows EXCEPT ![n] = b]
  BY <1>0 DEF Typed, CreateUser
<1>3. doubt' \subseteq Names /\ doubt \ {n} \subseteq doubt'
  BY <1>0 DEF Typed, CreateUser
<1>4. events' \in 0..MaxEvents /\ unsure' \in BOOLEAN /\ work' \in [Workers -> Requests]
  BY <1>0, OrganisationConstants DEF Typed, CreateUser, Event
<1>5. UNCHANGED <<grouping, lost, peak, work, unsure>>
  BY DEF CreateUser
<1>6. \A w \in Workers : work[w].name = n /\ ~work[w].orphan /\ Changing(w) => FALSE
  BY <1>1 DEF IInv, RoleStays, RequestsNamed, NoUser, Limited
<1>7. ASSUME n \notin doubt'
      PROVE  /\ a = b /\ ~BeingDeleted(a.groups)
             /\ a.role \in Limited => \A g \in a.groups \ lost : Exists(g)
             /\ \A r \in Limited : \A g \in GroupIds :
                   a.role = r /\ g \in a.groups =>
                      /\ Cardinality(Members(r, g)) < groups[g][r]
                      /\ \E w \in Workers : work[w].stage # "fits"
  <2>1. CASE o = "ok"
    <3>1. a = u /\ b = u /\ ~BeingDeleted(u.groups)
      BY <1>7, <2>1 DEF CreateUser, Applied
    <3>2. u.role \in Limited => \A g \in u.groups : RoomIn(u.role, g, {})
      BY DEF CreateUser, Limited
    <3>3. \A r, g : RoomIn(r, g, {}) => Exists(g) /\ Cardinality(Members(r, g)) < groups[g][r]
      <4>1. \A r, g : Members(r, g) \ {} = Members(r, g)
        OBVIOUS
      <4> QED BY <4>1 DEF RoomIn
    <3>4. \E w \in Workers : work[w].stage # "fits"
      BY IdleIsARequest
    <3> QED BY <3>1, <3>2, <3>3, <3>4
  <2>2. CASE o = "failed"
    <3>1. a = NoUser /\ b = userRows[n] /\ n \notin doubt
      BY <1>1, <1>7, <2>2 DEF CreateUser, Applied
    <3>2. b = NoUser
      BY <1>1, <3>1 DEF IInv, AccountsMatchRows
    <3>3. NoUser.groups = {} /\ NoUser.role = "none"
      BY DEF NoUser
    <3> QED BY <3>1, <3>2, <3>3 DEF BeingDeleted, Limited
  <2>3. CASE o = "unanswered"
    BY <1>7, <2>3 DEF CreateUser
  <2> QED BY <2>1, <2>2, <2>3 DEF Outcomes
<1>8. ASSUME ~unsure'
      PROVE  /\ ~unsure
             /\ a.role = "super" => b.role = "super"
             /\ a.role # "super" => \E m \in Supers : m # n
  <2>1. ~unsure
    BY <1>5, <1>8
  <2>2. a.role = "super" => b.role = "super"
    BY <1>1 DEF Applied, NoUser
  <2>3. \E m \in Supers : m # n
    BY <1>1, <2>1 DEF IInv, SupersStored, Supers, NoUser
  <2> QED BY <2>1, <2>2, <2>3
<1>9. RequestsFollow(n, a)
  BY <1>5, <1>6 DEF RequestsFollow
<1>10. Settled(n, a, b)
  BY <1>7 DEF Settled
<1>11. SuperStays(n, a, b)
  BY <1>8 DEF SuperStays
<1>12. UNCHANGED <<grouping, lost, peak>>
  BY <1>5
<1>13. AccountTurns(n, a, b)
  BY <1>2, <1>3, <1>4, <1>9, <1>10, <1>11, <1>12 DEF AccountTurns
<1> QED BY <1>1, <1>13, AccountChanges

LEMMA SetGroupsKeeps ==
    ASSUME IInv, NEW w \in Workers, NEW n \in Names, NEW gs \in SUBSET GroupIds,
           SetGroups(w, n, gs)
    PROVE  IInv'
<1> PICK u : u = [role |-> users[n].role, groups |-> gs]
  OBVIOUS
<1> PICK x : x = [Idle EXCEPT !.stage = "found", !.name = n, !.user = u]
  OBVIOUS
<1>0. u \in Users
  BY DEF SetGroups, Users
<1>1. x \in Requests
  BY <1>0, FoundIsARequest
<1>2. x.stage = "found" /\ x.name = n /\ x.user = u /\ u.role = users[n].role
  BY DEF Idle
<1>3. work' = [work EXCEPT ![w] = x] /\ UNCHANGED <<accounts, grouping, history, events>>
      /\ users[n].role \in Limited
  BY DEF SetGroups
<1> QED BY <1>1, <1>2, <1>3, RequestMoves

LEMMA EndKeeps ==
    ASSUME IInv, NEW w \in Workers, work' = [work EXCEPT ![w] = Idle],
           UNCHANGED <<accounts, grouping, history, events>>
    PROVE  IInv'
BY IdleIsARequest, RequestMoves

LEMMA checkQuotaForKeeps ==
    ASSUME IInv, NEW w \in Workers, checkQuotaFor(w)
    PROVE  IInv'
<1>0. /\ work \in [Workers -> Requests] /\ work[w] \in Requests
      /\ work[w].stage = "found" /\ work[w].name \in Names /\ work[w].user.role \in Limited
      /\ ~work[w].orphan => users[work[w].name].role = work[w].user.role
  BY DEF IInv, Typed, checkQuotaFor, RequestsNamed, RoleStays, Changing
<1>1. UNCHANGED <<accounts, grouping, history, events>>
  BY DEF checkQuotaFor
<1>2. CASE \A g \in work[w].user.groups : RoomIn(work[w].user.role, g, {work[w].name})
  <2> PICK x : x = [work[w] EXCEPT !.stage = "fits"]
    OBVIOUS
  <2>1. x \in Requests
    BY <1>0 DEF Requests, Stages
  <2>2. x.stage = "fits" /\ x.name = work[w].name /\ x.user = work[w].user
        /\ x.orphan = work[w].orphan
    BY <1>0 DEF Requests
  <2>3. work' = [work EXCEPT ![w] = x]
    BY <1>0, <1>2 DEF checkQuotaFor
  <2> QED BY <1>0, <1>1, <1>2, <2>1, <2>2, <2>3, RequestMoves
<1>3. CASE ~\A g \in work[w].user.groups : RoomIn(work[w].user.role, g, {work[w].name})
  <2>1. work' = [work EXCEPT ![w] = Idle]
    BY <1>0, <1>3 DEF checkQuotaFor
  <2> QED BY <1>1, <2>1, EndKeeps
<1> QED BY <1>2, <1>3

LEMMA SaveGroupsKeeps ==
    ASSUME IInv, NEW w \in Workers, NEW o \in Outcomes, SaveGroups(w, o)
    PROVE  IInv'
<1> PICK n : n = work[w].name
  OBVIOUS
<1> PICK u : u = work[w].user
  OBVIOUS
<1> PICK orphan : orphan = work[w].orphan
  OBVIOUS
<1> PICK a : a = IF ~orphan /\ o = "ok" THEN [users[n] EXCEPT !.groups = u.groups] ELSE users[n]
  OBVIOUS
<1> PICK b : b = IF Applied(o) THEN u ELSE userRows[n]
  OBVIOUS
<1>0. Typed /\ work[w] \in Requests /\ work \in [Workers -> Requests]
  BY DEF IInv, Typed
<1>1. /\ n \in Names /\ u.role \in Limited /\ u \in Users
      /\ ~orphan => users[n].role = u.role
      /\ orphan \in BOOLEAN /\ Changing(w) /\ work[w].stage = "fits"
  BY <1>0 DEF IInv, RequestsNamed, RoleStays, Changing, SaveGroups, Requests, NoUser, Limited
<1>2. ~orphan => /\ users[n] \in Users
                 /\ [users[n] EXCEPT !.groups = u.groups] = u
  <2>1. users[n] \in Users \cup {NoUser}
    BY <1>0, <1>1 DEF Typed
  <2>2. ~orphan => users[n] \in Users
    BY <1>1, <2>1 DEF NoUser, Limited
  <2> QED BY <1>1, <2>2 DEF Users
<1>3. a \in Users \cup {NoUser} /\ b \in Users \cup {NoUser}
  BY <1>0, <1>1, <1>2 DEF Typed
<1>4. users' = [users EXCEPT ![n] = a] /\ userRows' = [userRows EXCEPT ![n] = b]
  BY <1>0, <1>1 DEF Typed, SaveGroups, GroupsInMemory
<1>5. doubt' \subseteq Names /\ doubt \ {n} \subseteq doubt'
  BY <1>0, <1>1 DEF Typed, SaveGroups
<1>6. events' \in 0..MaxEvents /\ unsure' \in BOOLEAN /\ work' \in [Workers -> Requests]
  BY <1>0, OrganisationConstants, IdleIsARequest DEF Typed, SaveGroups, Event
<1>7. UNCHANGED <<grouping, lost, peak>>
  BY DEF SaveGroups
<1>8. a.role = users[n].role
  BY <1>0, <1>1, <1>2
<1>9. \A v \in Workers : work'[v].stage = "idle" \/ work'[v] = work[v]
  BY <1>0, IdleIsARequest DEF SaveGroups
<1>10. ASSUME n \notin doubt'
       PROVE  /\ a = b /\ ~BeingDeleted(a.groups)
              /\ a.role \in Limited => \A g \in a.groups \ lost : Exists(g)
              /\ \A r \in Limited : \A g \in GroupIds :
                    a.role = r /\ g \in a.groups => n \in Held(r, g)
  <2>1. CASE o = "failed"
    <3>1. a = users[n] /\ b = userRows[n] /\ n \notin doubt
      BY <1>10, <2>1 DEF SaveGroups, Applied
    <3>2. a = b /\ (a.role \in Limited => \A g \in a.groups \ lost : Exists(g))
      BY <1>1, <3>1 DEF IInv, AccountsMatchRows, GroupsOfAccountsExist
    <3>3. ~BeingDeleted(a.groups)
      BY <1>1, <3>1 DEF IInv, DeletedIsMemberless, Deleting, BeingDeleted
    <3>4. \A r \in Limited : \A g \in GroupIds : a.role = r /\ g \in a.groups => n \in Held(r, g)
      BY <1>1, <3>1 DEF Held, Members
    <3> QED BY <3>2, <3>3, <3>4
  <2>2. CASE o # "failed"
    <3>1. o = "ok" /\ ~orphan /\ ~BeingDeleted(u.groups) /\ \A g \in u.groups : Exists(g)
      BY <1>10, <2>2 DEF SaveGroups, Outcomes
    <3>2. a = u /\ b = u
      BY <1>2, <3>1 DEF Applied
    <3>3. \A r \in Limited : \A g \in GroupIds : u.role = r /\ g \in u.groups => n \in Held(r, g)
      BY <1>1 DEF Held, Reserved, Reserves
    <3> QED BY <3>1, <3>2, <3>3
  <2> QED BY <2>1, <2>2
<1>11. ASSUME ~unsure'
       PROVE  /\ ~unsure
              /\ a.role = "super" => b.role = "super"
              /\ a.role # "super" => \E m \in Supers : m # n
  <2>1. ~unsure /\ ~(orphan /\ Applied(o) /\ userRows[n].role = "super")
    BY <1>11 DEF SaveGroups
  <2>2. Supers # {} /\ \A m \in Supers : userRows[m].role = "super"
    BY <2>1 DEF IInv, SupersStored
  <2>3. a.role # "super" => \E m \in Supers : m # n
    BY <1>8, <2>2 DEF Supers
  <2>4. a.role = "super" => b.role = "super"
    BY <1>1, <1>8, <2>1, <2>2 DEF Supers, Limited
  <2> QED BY <2>1, <2>3, <2>4
<1>12. RequestsFollow(n, a)
  BY <1>8, <1>9 DEF RequestsFollow
<1>13. Settled(n, a, b)
  BY <1>10 DEF Settled
<1>14. SuperStays(n, a, b)
  BY <1>11 DEF SuperStays
<1>15. AccountTurns(n, a, b)
  BY <1>4, <1>5, <1>6, <1>7, <1>12, <1>13, <1>14 DEF AccountTurns
<1> QED BY <1>1, <1>3, <1>15, AccountChanges

(* What was settled and is left alone stays so.                            *)
LEMMA KeptIsSettled ==
    ASSUME IInv, NEW n \in Names, n \notin doubt' => n \notin doubt
    PROVE  Settled(n, users[n], userRows[n])
<1> SUFFICES ASSUME n \notin doubt
             PROVE  /\ users[n] = userRows[n] /\ ~BeingDeleted(users[n].groups)
                    /\ users[n].role \in Limited =>
                          \A g \in users[n].groups \ lost : Exists(g)
                    /\ \A r \in Limited : \A g \in GroupIds :
                          users[n].role = r /\ g \in users[n].groups => n \in Held(r, g)
  BY DEF Settled
<1>1. users[n] = userRows[n]
  BY DEF IInv, AccountsMatchRows
<1>2. ~BeingDeleted(users[n].groups)
  BY DEF IInv, DeletedIsMemberless, Deleting, BeingDeleted
<1>3. users[n].role \in Limited => \A g \in users[n].groups \ lost : Exists(g)
  BY DEF IInv, GroupsOfAccountsExist
<1>4. \A r \in Limited : \A g \in GroupIds :
         users[n].role = r /\ g \in users[n].groups => n \in Held(r, g)
  BY DEF Held, Members
<1> QED BY <1>1, <1>2, <1>3, <1>4

LEMMA SaveAccountKeeps ==
    ASSUME IInv, NEW n \in Names, NEW o \in Outcomes, SaveAccount(n, o)
    PROVE  IInv'
<1> PICK a : a = users[n]
  OBVIOUS
<1>0. Typed
  BY DEF IInv
<1>1. a \in Users \cup {NoUser}
  BY <1>0 DEF Typed
<1>2. users' = [users EXCEPT ![n] = a] /\ userRows' = [userRows EXCEPT ![n] = a]
  BY <1>0 DEF Typed, SaveAccount
<1>3. /\ doubt' \subseteq Names /\ doubt \ {n} \subseteq doubt'
      /\ unsure' \in BOOLEAN /\ work' \in [Workers -> Requests]
  BY <1>0 DEF Typed, SaveAccount, history
<1>4. events' \in 0..MaxEvents
  BY <1>0, OrganisationConstants DEF Typed, SaveAccount, Event
<1>5. UNCHANGED <<grouping, lost, peak>> /\ UNCHANGED <<work, doubt, unsure>>
  BY DEF SaveAccount, history
<1>6. RequestsFollow(n, a)
  BY <1>5 DEF RequestsFollow
<1>7. Settled(n, a, a)
  BY <1>5, KeptIsSettled DEF Settled
<1>8. SuperStays(n, a, a)
  BY <1>5 DEF SuperStays, IInv, SupersStored, Supers
<1>9. AccountTurns(n, a, a)
  BY <1>2, <1>3, <1>4, <1>5, <1>6, <1>7, <1>8 DEF AccountTurns
<1> QED BY <1>1, <1>9, AccountChanges

LEMMA AnotherSuper ==
    ASSUME NEW n \in Supers, Cardinality(Supers) > 1
    PROVE  \E m \in Supers : m # n
<1>1. CASE Supers = {n}
  <2>1. Cardinality(Supers) = 1
    BY <1>1, FS_Singleton
  <2> QED BY <2>1
<1> QED BY <1>1

LEMMA DeleteUserKeeps ==
    ASSUME IInv, NEW n \in Names, NEW o \in Outcomes, DeleteUser(n, o)
    PROVE  IInv'
<1> PICK a : a = IF o = "ok" THEN NoUser ELSE users[n]
  OBVIOUS
<1> PICK b : b = IF Applied(o) THEN NoUser ELSE userRows[n]
  OBVIOUS
<1>0. Typed /\ work \in [Workers -> Requests]
  BY DEF IInv, Typed
<1>1. a \in Users \cup {NoUser} /\ b \in Users \cup {NoUser}
  BY <1>0 DEF Typed
<1>2. users' = [users EXCEPT ![n] = a] /\ userRows' = [userRows EXCEPT ![n] = b]
  BY <1>0 DEF Typed, DeleteUser
<1>3. doubt' \subseteq Names /\ doubt \ {n} \subseteq doubt' /\ unsure' \in BOOLEAN
  BY <1>0 DEF Typed, DeleteUser, Outcomes
<1>4. events' \in 0..MaxEvents
  BY <1>0, OrganisationConstants DEF Typed, DeleteUser, Event
<1>5. UNCHANGED <<grouping, lost, peak>>
  BY DEF DeleteUser
<1>6. \A x \in Requests : /\ [x EXCEPT !.orphan = TRUE] \in Requests
                          /\ [x EXCEPT !.orphan = TRUE].stage = x.stage
                          /\ [x EXCEPT !.orphan = TRUE].name = x.name
                          /\ [x EXCEPT !.orphan = TRUE].user = x.user
                          /\ [x EXCEPT !.orphan = TRUE].group = x.group
                          /\ [x EXCEPT !.orphan = TRUE].orphan
  BY DEF Requests
<1>7. /\ work' \in [Workers -> Requests]
      /\ \A w \in Workers : \/ work'[w] = work[w] /\ (o = "ok" => work[w].name # n)
                            \/ work'[w] = [work[w] EXCEPT !.orphan = TRUE]
  BY <1>0, <1>6 DEF DeleteUser
<1>8. o # "ok" => a.role = users[n].role
  OBVIOUS
<1>9. RequestsFollow(n, a)
  <2> SUFFICES ASSUME NEW w \in Workers
               PROVE  /\ work'[w].stage = work[w].stage /\ work'[w].name = work[w].name
                      /\ work'[w].user = work[w].user /\ work'[w].group = work[w].group
                      /\ work[w].orphan => work'[w].orphan
                      /\ work[w].name = n /\ ~work'[w].orphan /\ Changing(w) =>
                            a.role = users[n].role
    BY DEF RequestsFollow
  <2>1. CASE work'[w] = work[w] /\ (o = "ok" => work[w].name # n)
    BY <1>8, <2>1
  <2>2. CASE work'[w] = [work[w] EXCEPT !.orphan = TRUE]
    <3>1. work[w] \in Requests
      BY <1>0
    <3> QED BY <1>6, <2>2, <3>1
  <2> QED BY <1>7, <2>1, <2>2
<1>10. Settled(n, a, b)
  <2>1. CASE o = "ok"
    <3>1. a = NoUser /\ b = NoUser /\ NoUser.groups = {} /\ NoUser.role = "none"
      BY <2>1 DEF Applied, NoUser
    <3> QED BY <3>1 DEF Settled, BeingDeleted, Limited
  <2>2. CASE o = "failed"
    <3>1. a = users[n] /\ b = userRows[n] /\ doubt' = doubt
      BY <2>2 DEF DeleteUser, Applied
    <3> QED BY <3>1, KeptIsSettled
  <2>3. CASE o = "unanswered"
    <3>1. n \in doubt'
      BY <2>3 DEF DeleteUser
    <3> QED BY <3>1 DEF Settled
  <2> QED BY <2>1, <2>2, <2>3 DEF Outcomes
<1>11. SuperStays(n, a, b)
  <2> SUFFICES ASSUME ~unsure'
               PROVE  /\ ~unsure
                      /\ a.role = "super" => b.role = "super"
                      /\ a.role # "super" => \E m \in Supers : m # n
    BY DEF SuperStays
  <2>1. ~unsure /\ ~(o = "unanswered" /\ users[n].role = "super")
    BY DEF DeleteUser
  <2>2. Supers # {} /\ \A m \in Supers : userRows[m].role = "super"
    BY <2>1 DEF IInv, SupersStored
  <2>3. NoUser.role = "none"
    BY DEF NoUser
  <2>4. a.role = "super" => b.role = "super"
    BY <2>1, <2>2, <2>3 DEF Supers, Outcomes, Applied
  <2>5. CASE n \in Supers
    <3>1. a.role # "super" => Cardinality(Supers) > 1
      BY <2>5 DEF DeleteUser, MayDelete, Supers
    <3> QED BY <2>1, <2>4, <2>5, <3>1, AnotherSuper
  <2>6. CASE n \notin Supers
    BY <2>1, <2>2, <2>4, <2>6
  <2> QED BY <2>5, <2>6
<1>12. AccountTurns(n, a, b)
  BY <1>2, <1>3, <1>4, <1>5, <1>7, <1>9, <1>10, <1>11 DEF AccountTurns
<1> QED BY <1>1, <1>12, AccountChanges

LEMMA ListUsersKeeps ==
    ASSUME IInv, NEW actor, ListUsers(actor)
    PROVE  IInv'
<1> PICK listed : listed = {n \in Names : intersects(actor.groups, users[n].groups)}
  OBVIOUS
<1>0. Typed
  BY DEF IInv
<1>1. \A u \in Users \cup {NoUser} : /\ [u EXCEPT !.groups = {}] \in Users \cup {NoUser}
                                    /\ [u EXCEPT !.groups = {}].role = u.role
  BY DEF Users, NoUser
<1>2. /\ users' = [n \in Names |-> IF n \in listed THEN [users[n] EXCEPT !.groups = {}]
                                   ELSE users[n]]
      /\ doubt' = doubt \cup listed
      /\ UNCHANGED <<userRows, groups, groupRows, seq, work, lost, unsure, peak>>
  BY DEF ListUsers, grouping
<1>3. \A n \in Names : users'[n] \in Users \cup {NoUser} /\ users'[n].role = users[n].role
  BY <1>0, <1>1, <1>2 DEF Typed
<1>4. users' \in [Names -> Users \cup {NoUser}] /\ userRows' \in [Names -> Users \cup {NoUser}]
  BY <1>0, <1>2, <1>3 DEF Typed
<1>5. /\ doubt \subseteq doubt' /\ doubt' \subseteq Names
      /\ groups' \in [GroupIds -> Quotas \cup {NoGroup}] /\ seq' \in 0..MaxGroups
      /\ work' \in [Workers -> Requests]
  BY <1>0, <1>2 DEF Typed
<1>6. events' \in 0..MaxEvents
  BY <1>0, OrganisationConstants DEF Typed, ListUsers, Event
<1>7. \A n \in Names \ doubt' : users'[n] = users[n] /\ users'[n] = userRows'[n]
  BY <1>2 DEF IInv, AccountsMatchRows
<1>8. ~unsure => Supers' # {} /\ \A n \in Supers' : userRows'[n].role = "super"
  BY <1>2, <1>3 DEF IInv, SupersStored, Supers
<1> QED BY <1>2, <1>3, <1>4, <1>5, <1>6, <1>7, <1>8, AccountsKept

(* Numbers up to a limit have a highest one.                               *)
LEMMA HighestExists ==
    ASSUME NEW N \in Nat, NEW S \in SUBSET (0..N), S # {}
    PROVE  Max(S) \in 0..N
<1> DEFINE T == {N - x : x \in S}
<1>1. T \subseteq Nat /\ T # {}
  OBVIOUS
<1>2. \E t \in T : \A y \in T : ~(<<y, t>> \in OpToRel(<, Nat))
  BY <1>1, WFMin, NatLessThanWellFounded
<1>3. PICK t \in T : \A y \in T : ~(y < t)
  BY <1>1, <1>2 DEF OpToRel
<1>4. PICK x \in S : t = N - x
  BY <1>3
<1>5. \A y \in S : x >= y
  <2> TAKE y \in S
  <2>1. N - y \in T
    OBVIOUS
  <2>2. ~(N - y < N - x)
    BY <1>3, <1>4, <2>1
  <2>3. x \in 0..N /\ y \in 0..N
    OBVIOUS
  <2> QED BY <2>2, <2>3
<1>6. Max(S) \in S
  BY <1>5 DEF Max
<1> QED BY <1>6

LEMMA CreateGroupKeeps ==
    ASSUME IInv, NEW o \in Outcomes, CreateGroup(o)
    PROVE  IInv'
<1> PICK g : g = seq + 1
  OBVIOUS
<1> PICK q : q = IF o = "ok" THEN DefaultQuota ELSE groups[g]
  OBVIOUS
<1> PICK p : p = IF Applied(o) THEN DefaultQuota ELSE groupRows[g]
  OBVIOUS
<1> PICK k : k = Raise(DefaultQuota, peak[g])
  OBVIOUS
<1>0. Typed /\ g \in GroupIds /\ DefaultQuota \in Quotas
  BY OrganisationConstants DEF IInv, CreateGroup
<1>1. q \in Quotas \cup {NoGroup} /\ p \in Quotas \cup {NoGroup}
  BY <1>0 DEF Typed
<1>2. DefaultQuota \in [Limited -> Nat] /\ DefaultQuota # NoGroup
      /\ peak[g] \in [Limited -> Nat]
  BY <1>0, QuotaNumbers DEF Typed
<1>3. /\ k \in [Limited -> Nat]
      /\ \A r \in Limited : DefaultQuota[r] <= k[r] /\ peak[g][r] <= k[r]
  BY <1>2, RaiseBounds
<1>4. \A r \in Limited : groups[g][r] <= peak[g][r] /\ groupRows[g][r] <= peak[g][r]
                        /\ groups[g][r] \in Nat /\ groupRows[g][r] \in Nat
  BY <1>0, QuotaNumbers DEF Typed, IInv, PeaksHold
<1>5. \A r \in Limited : q[r] <= k[r] /\ p[r] <= k[r] /\ peak[g][r] <= k[r]
  <2> TAKE r \in Limited
  <2>1. groups[g][r] <= k[r] /\ groupRows[g][r] <= k[r]
    BY <1>2, <1>3, <1>4
  <2> QED BY <1>3, <2>1
<1>6. /\ groups' = [groups EXCEPT ![g] = q] /\ groupRows' = [groupRows EXCEPT ![g] = p]
      /\ peak' = [peak EXCEPT ![g] = k]
  BY <1>0 DEF Typed, CreateGroup
<1>7. seq' \in 0..MaxGroups /\ lost' \subseteq GroupIds /\ lost \subseteq lost'
      /\ work' \in [Workers -> Requests] /\ work' = work
  BY <1>0 DEF Typed, CreateGroup, GroupIds
<1>8. events' \in 0..MaxEvents
  BY <1>0, OrganisationConstants DEF Typed, CreateGroup, Event
<1>9. UNCHANGED <<accounts, doubt, unsure>>
  BY DEF CreateGroup
<1>10. g \notin lost' => /\ q # NoGroup => p # NoGroup
                         /\ ~(q = NoGroup /\ Exists(g))
  <2>1. CASE o = "ok"
    BY <1>2, <2>1 DEF Applied
  <2>2. CASE o # "ok"
    <3>1. lost' = lost /\ groupRows[g] = NoGroup /\ q = groups[g]
      BY <2>2 DEF CreateGroup
    <3>2. g \notin lost => ~Exists(g)
      BY <1>0, <3>1 DEF IInv, GroupsStored
    <3> QED BY <3>1, <3>2 DEF Exists
  <2> QED BY <2>1, <2>2
<1>11. \A w \in Workers : work'[w].stage = "idle" \/ work'[w] = work[w]
  BY <1>7
<1>12. GroupTurns(g, q, p, k)
  BY <1>5, <1>6, <1>7, <1>8, <1>9, <1>10, <1>11 DEF GroupTurns
<1> QED BY <1>0, <1>1, <1>3, <1>12, GroupChanges

LEMMA UpdateGroupKeeps ==
    ASSUME IInv, NEW g \in GroupIds, NEW q \in Quotas, NEW o \in Outcomes, UpdateGroup(g, q, o)
    PROVE  IInv'
<1> PICK p : p = IF Applied(o) /\ groupRows[g] # NoGroup THEN q ELSE groupRows[g]
  OBVIOUS
<1> PICK k : k = Raise(q, peak[g])
  OBVIOUS
<1>0. Typed
  BY DEF IInv
<1>1. p \in Quotas \cup {NoGroup}
  BY <1>0 DEF Typed
<1>2. q \in [Limited -> Nat] /\ q # NoGroup /\ peak[g] \in [Limited -> Nat]
  BY <1>0, QuotaNumbers DEF Typed
<1>3. /\ k \in [Limited -> Nat]
      /\ \A r \in Limited : q[r] <= k[r] /\ peak[g][r] <= k[r]
  BY <1>2, RaiseBounds
<1>4. \A r \in Limited : groupRows[g][r] <= peak[g][r] /\ groupRows[g][r] \in Nat
  BY <1>0, QuotaNumbers DEF Typed, IInv, PeaksHold
<1>5. \A r \in Limited : q[r] <= k[r] /\ p[r] <= k[r] /\ peak[g][r] <= k[r]
  <2> TAKE r \in Limited
  <2>1. groupRows[g][r] <= k[r]
    BY <1>2, <1>3, <1>4
  <2> QED BY <1>3, <2>1
<1>6. /\ groups' = [groups EXCEPT ![g] = q] /\ groupRows' = [groupRows EXCEPT ![g] = p]
      /\ peak' = [peak EXCEPT ![g] = k]
  BY <1>0 DEF Typed, UpdateGroup
<1>7. seq' \in 0..MaxGroups /\ lost' \subseteq GroupIds /\ lost \subseteq lost' /\ lost' = lost
      /\ work' \in [Workers -> Requests] /\ work' = work
  BY <1>0 DEF Typed, UpdateGroup
<1>8. events' \in 0..MaxEvents
  BY <1>0, OrganisationConstants DEF Typed, UpdateGroup, Event
<1>9. UNCHANGED <<accounts, doubt, unsure>>
  BY DEF UpdateGroup
<1>10. g \notin lost' => p # NoGroup
  BY <1>2, <1>7 DEF UpdateGroup, IInv, GroupsStored
<1>11. \A w \in Workers : work'[w].stage = "idle" \/ work'[w] = work[w]
  BY <1>7
<1>12. GroupTurns(g, q, p, k)
  BY <1>2, <1>5, <1>6, <1>7, <1>8, <1>9, <1>10, <1>11 DEF GroupTurns
<1> QED BY <1>1, <1>3, <1>12, GroupChanges

LEMMA CheckMembersKeeps ==
    ASSUME IInv, NEW w \in Workers, NEW g \in GroupIds, CheckMembers(w, g)
    PROVE  IInv'
<1> PICK x : x = [Idle EXCEPT !.stage = "memberless", !.group = g]
  OBVIOUS
<1>0. \A y \in Requests :
         /\ [y EXCEPT !.stage = "memberless", !.group = g] \in Requests
         /\ [y EXCEPT !.stage = "memberless", !.group = g].stage = "memberless"
         /\ [y EXCEPT !.stage = "memberless", !.group = g].group = g
  <2>1. g \in 0..MaxGroups /\ "memberless" \in Stages
    BY OrganisationConstants DEF GroupIds, Stages
  <2> QED BY <2>1 DEF Requests
<1>1. x \in Requests /\ x.stage = "memberless" /\ x.group = g
  BY <1>0, IdleIsARequest
<1>2. work' = [work EXCEPT ![w] = x] /\ UNCHANGED <<accounts, grouping, history, events>>
  BY DEF CheckMembers
<1>3. \A n \in Names \ doubt : g \notin users[n].groups
  BY DEF CheckMembers, groupHasMembers
<1> QED BY <1>1, <1>2, <1>3, RequestMoves

LEMMA CheckVehiclesKeeps ==
    ASSUME IInv, NEW w \in Workers, CheckVehicles(w)
    PROVE  IInv'
<1>0. work \in [Workers -> Requests] /\ work[w] \in Requests
      /\ work[w].group \in GroupIds
      /\ \A n \in Names \ doubt : work[w].group \notin users[n].groups
  BY DEF IInv, Typed, CheckVehicles, RequestsNamed, DeletedIsMemberless, Deleting
<1>1. UNCHANGED <<accounts, grouping, history, events>>
  BY DEF CheckVehicles
<1>2. CASE work' = [work EXCEPT ![w].stage = "vacant"]
  <2> PICK x : x = [work[w] EXCEPT !.stage = "vacant"]
    OBVIOUS
  <2>1. x \in Requests /\ x.stage = "vacant" /\ x.group = work[w].group
    BY <1>0 DEF Requests, Stages
  <2>2. work' = [work EXCEPT ![w] = x]
    BY <1>0, <1>2
  <2> QED BY <1>0, <1>1, <2>1, <2>2, RequestMoves
<1>3. CASE work' = [work EXCEPT ![w] = Idle]
  BY <1>1, <1>3, EndKeeps
<1> QED BY <1>2, <1>3 DEF CheckVehicles

LEMMA DeleteGroupKeeps ==
    ASSUME IInv, NEW w \in Workers, NEW o \in Outcomes, DeleteGroup(w, o)
    PROVE  IInv'
<1> PICK g : g = work[w].group
  OBVIOUS
<1>0. Typed /\ work \in [Workers -> Requests]
  BY DEF IInv, Typed
<1>1. g \in GroupIds /\ \A n \in Names \ doubt : g \notin users[n].groups
  BY DEF IInv, DeleteGroup, RequestsNamed, DeletedIsMemberless, Deleting
<1>2. CASE ~Exists(g)
  <2>1. UNCHANGED <<accounts, grouping, history, events>> /\ work' = [work EXCEPT ![w] = Idle]
    BY <1>2 DEF DeleteGroup, grouping, history
  <2> QED BY <2>1, EndKeeps
<1>3. CASE Exists(g)
  <2> PICK q : q = IF o = "ok" THEN NoGroup ELSE groups[g]
    OBVIOUS
  <2> PICK p : p = IF Applied(o) THEN NoGroup ELSE groupRows[g]
    OBVIOUS
  <2> PICK k : k = peak[g]
    OBVIOUS
  <2>1. q \in Quotas \cup {NoGroup} /\ p \in Quotas \cup {NoGroup} /\ k \in [Limited -> Nat]
    BY <1>0, <1>1 DEF Typed
  <2>2. \A r \in Limited : NoGroup[r] = 0 /\ k[r] \in Nat /\ groups[g][r] <= k[r]
                           /\ groupRows[g][r] <= k[r]
    BY <1>1, <2>1 DEF NoGroup, IInv, PeaksHold
  <2>3. \A r \in Limited : q[r] <= k[r] /\ p[r] <= k[r] /\ peak[g][r] <= k[r]
    BY <2>2
  <2>4. /\ groups' = [groups EXCEPT ![g] = q] /\ groupRows' = [groupRows EXCEPT ![g] = p]
        /\ peak' = [peak EXCEPT ![g] = k]
    BY <1>0, <1>1, <1>3 DEF Typed, DeleteGroup
  <2>5. seq' \in 0..MaxGroups /\ lost' \subseteq GroupIds /\ lost \subseteq lost'
    BY <1>0, <1>1, <1>3 DEF Typed, DeleteGroup
  <2>6. events' \in 0..MaxEvents
    BY <1>0, <1>3, OrganisationConstants DEF Typed, DeleteGroup, Event
  <2>7. UNCHANGED <<accounts, doubt, unsure>>
    BY DEF DeleteGroup
  <2>8. work' \in [Workers -> Requests]
        /\ \A v \in Workers : work'[v].stage = "idle" \/ work'[v] = work[v]
    BY <1>0, IdleIsARequest DEF DeleteGroup
  <2>9. g \notin lost' => (q # NoGroup => p # NoGroup)
    BY <1>1, <1>3 DEF DeleteGroup, Outcomes, Applied, IInv, GroupsStored, Exists
  <2>10. GroupTurns(g, q, p, k)
    BY <1>1, <2>3, <2>4, <2>5, <2>6, <2>7, <2>8, <2>9 DEF GroupTurns
  <2> QED BY <1>1, <2>1, <2>10, GroupChanges
<1> QED BY <1>2, <1>3

LEMMA RestartKeeps ==
    ASSUME IInv, NEW seeded \in SUBSET Bootstrap, Restart(seeded)
    PROVE  IInv'
<1> PICK super : super = [role |-> "super", groups |-> {}]
  OBVIOUS
<1>0. Typed /\ super \in Users /\ super.role = "super" /\ super.groups = {}
  BY DEF IInv, Users
<1>1. /\ users' = [n \in Names |-> IF n \in seeded /\ userRows[n] = NoUser
                                   THEN super ELSE userRows[n]]
      /\ userRows' = users'
  BY DEF Restart
<1>2. users' \in [Names -> Users \cup {NoUser}] /\ userRows' \in [Names -> Users \cup {NoUser}]
  BY <1>0, <1>1 DEF Typed
<1>3. /\ groups' = groupRows /\ groupRows' = groupRows
      /\ UNCHANGED <<doubt, lost, unsure, peak>>
      /\ work' = [w \in Workers |-> Idle]
  BY DEF Restart, history
<1>4. seq' \in 0..MaxGroups
  <2>1. {0} \cup {g \in GroupIds : groupRows[g] # NoGroup} \in SUBSET (0..MaxGroups)
    BY OrganisationConstants DEF GroupIds
  <2>2. MaxGroups \in Nat
    BY OrganisationConstants
  <2>3. {0} \cup {g \in GroupIds : groupRows[g] # NoGroup} # {}
    OBVIOUS
  <2> QED BY <2>1, <2>2, <2>3, HighestExists DEF Restart
<1>5. events' \in 0..MaxEvents
  BY <1>0, OrganisationConstants DEF Typed, Restart, Event
<1>6. work' \in [Workers -> Requests] /\ \A w \in Workers : work'[w].stage = "idle"
  BY <1>3, IdleIsARequest
<1>7. doubt \subseteq doubt' /\ doubt' \subseteq Names
      /\ groups' \in [GroupIds -> Quotas \cup {NoGroup}]
      /\ \A g \in GroupIds : groups'[g] \in {groups[g], groupRows[g]}
  BY <1>0, <1>3 DEF Typed
<1>8. \A n \in Names \ doubt' :
         /\ users'[n] = userRows'[n]
         /\ \/ users'[n] = users[n]
            \/ users'[n].role = "super" /\ users'[n].groups = {}
  BY <1>0, <1>1, <1>3 DEF IInv, AccountsMatchRows
<1>9. ~unsure => Supers' # {} /\ \A n \in Supers' : userRows'[n].role = "super"
  <2>1. \A n \in Supers' : userRows'[n].role = "super"
    BY <1>1 DEF Supers
  <2>2. ASSUME ~unsure PROVE Supers' # {}
    <3>1. PICK n \in Supers : userRows[n].role = "super"
      BY <2>2 DEF IInv, SupersStored
    <3>2. n \in Names /\ users'[n].role = "super"
      BY <1>0, <1>1, <3>1 DEF Supers
    <3> QED BY <3>2 DEF Supers
  <2> QED BY <2>1, <2>2
<1> QED BY <1>2, <1>3, <1>4, <1>5, <1>6, <1>7, <1>8, <1>9, AccountsKept

-----------------------------------------------------------------------------

LEMMA Initially == Init => IInv
<1> SUFFICES ASSUME Init PROVE IInv
  OBVIOUS
<1> PICK super : super = [role |-> "super", groups |-> {}]
  OBVIOUS
<1>0. super \in Users /\ super.role = "super"
  BY DEF Users
<1>1. PICK s \in Names, others \in [Names -> Initial \cup {NoUser}] :
         users = [n \in Names |-> IF n = s THEN super ELSE others[n]]
  BY DEF Init
<1>2. Initial \subseteq Users
  BY OrganisationConstants DEF Users
<1>3. users \in [Names -> Users \cup {NoUser}] /\ userRows = users
  BY <1>0, <1>1, <1>2 DEF Init
<1>4. /\ groups = [g \in GroupIds |-> DefaultQuota] /\ groupRows = groups /\ peak = groups
      /\ DefaultQuota \in Quotas /\ DefaultQuota \in [Limited -> Nat]
  BY OrganisationConstants, QuotaNumbers DEF Init
<1>5. work = [w \in Workers |-> Idle] /\ work \in [Workers -> Requests]
      /\ \A w \in Workers : work[w].stage = "idle"
  BY IdleIsARequest DEF Init
<1>6. Typed
  <2>1. MaxGroups \in 0..MaxGroups /\ 0 \in 0..MaxEvents
    BY OrganisationConstants
  <2>2. /\ groups \in [GroupIds -> Quotas \cup {NoGroup}]
        /\ peak \in [GroupIds -> [Limited -> Nat]]
    BY <1>4
  <2> QED BY <1>3, <1>4, <1>5, <2>1, <2>2 DEF Init, Typed
<1>7. RequestsNamed /\ RoleStays /\ DeletedIsMemberless
  BY <1>5 DEF RequestsNamed, RoleStays, DeletedIsMemberless, Changing, Deleting
<1>8. SupersStored
  BY <1>0, <1>1, <1>3 DEF SupersStored, Supers
<1>9. AccountsMatchRows
  BY <1>3 DEF AccountsMatchRows
<1>10. \A g \in GroupIds : groups[g] # NoGroup
  BY <1>4, QuotaNumbers
<1>11. GroupsOfAccountsExist
  <2> SUFFICES ASSUME NEW n \in Names, users[n].role \in Limited, NEW g \in users[n].groups
               PROVE  groups[g] # NoGroup
    BY DEF GroupsOfAccountsExist, Exists
  <2>1. g \in GroupIds
    BY <1>3 DEF Users, NoUser
  <2> QED BY <1>10, <2>1
<1>12. GroupsStored
  BY <1>4 DEF GroupsStored, Exists
<1>13. PeaksHold
  BY <1>4 DEF PeaksHold
<1>14. ASSUME NEW g \in GroupIds, NEW r \in Limited
       PROVE  Cardinality(Held(r, g)) <= peak[g][r] + Cardinality(Workers) - 1
  <2>1. Reserved(r, g) = {} /\ doubt = {}
    BY <1>5 DEF Init, Reserved, Reserves
  <2>2. Held(r, g) = Members(r, g)
    BY <2>1 DEF Held
  <2>3. Cardinality(Members(r, g)) <= groups[g][r] /\ groups[g][r] = peak[g][r]
        /\ peak[g][r] \in Nat
    BY <1>4 DEF Init
  <2>4. IsFiniteSet(Members(r, g))
    BY OrganisationConstants, FS_Subset DEF Members
  <2>5. Cardinality(Members(r, g)) \in Nat
    BY <2>4, FS_CardinalityType
  <2> QED BY <2>2, <2>3, <2>5, WorkersCounted
<1>15. HeldIsBounded
  BY <1>14 DEF HeldIsBounded
<1> QED BY <1>6, <1>7, <1>8, <1>9, <1>11, <1>12, <1>13, <1>15 DEF IInv

LEMMA RequestKeeps ==
    ASSUME IInv, NEW o \in Outcomes, \E w \in Workers : work[w] = Idle, Request(o)
    PROVE  IInv'
BY CreateUserKeeps, SaveAccountKeeps, DeleteUserKeeps, CreateGroupKeeps, UpdateGroupKeeps
   DEF Request

LEMMA StutterKeeps ==
    ASSUME IInv, UNCHANGED vars
    PROVE  IInv'
BY DEF vars, accounts, grouping, history, IInv, Typed, RequestsNamed, RoleStays, SupersStored,
       AccountsMatchRows, GroupsOfAccountsExist, DeletedIsMemberless, GroupsStored, PeaksHold,
       HeldIsBounded, Held, Reserved, Reserves, Members, Supers, Exists, Changing, Deleting

LEMMA Step == IInv /\ [Next]_vars => IInv'
<1> SUFFICES ASSUME IInv, [Next]_vars PROVE IInv'
  OBVIOUS
<1>1. CASE Next
  BY <1>1, RequestKeeps, SaveGroupsKeeps, DeleteGroupKeeps, SetGroupsKeeps,
     checkQuotaForKeeps, CheckMembersKeeps, CheckVehiclesKeeps, ListUsersKeeps, RestartKeeps
     DEF Next
<1>2. CASE UNCHANGED vars
  BY <1>2, StutterKeeps
<1> QED BY <1>1, <1>2

LEMMA Invariance == Spec => []IInv
BY Initially, Step, PTL DEF Spec

(* Accounts, groups, their rows and the requests under way keep their      *)
(* types (admin.go, groups.go): no row or entry is ever half an account.   *)
THEOREM OrganisationTypes == Spec => []TypeOK
<1>1. IInv => TypeOK
  BY DEF IInv, Typed, TypeOK, Requests
<1> QED BY <1>1, Invariance, PTL

(* Whoever deletes whom at the same time (DeleteUser), one account is      *)
(* super in memory and in the table, unless a write to a super's row went  *)
(* unanswered or a stale SetGroups overwrote it.                           *)
THEOREM SuperIsLeft == Spec => []SuperRemains
<1>1. IInv => SuperRemains
  BY DEF IInv, SupersStored, SuperRemains
<1> QED BY <1>1, Invariance, PTL

(* CreateUser, SetGroups, DeleteUser and a restart leave an account in     *)
(* memory as it is in auth_users, unless it is in doubt.                   *)
THEOREM AccountsAreRows == Spec => []AccountsMatchRows
<1>1. IInv => AccountsMatchRows
  BY DEF IInv
<1> QED BY <1>1, Invariance, PTL

(* The deletion of a group, which looks for members in one critical        *)
(* section and deletes in another, leaves no account in a group that is    *)
(* gone, but for accounts put there in between.                            *)
THEOREM NoGroupLostUnderMembers == Spec => []GroupsOfAccountsExist
<1>1. IInv => GroupsOfAccountsExist
  BY DEF IInv
<1> QED BY <1>1, Invariance, PTL

(* SetGroups checks a quota in one critical section and uses it in         *)
(* another: with any number of requests at once a group exceeds its        *)
(* highest quota by at most the requests beyond the first.                 *)
THEOREM QuotaOvershoot == Spec => []QuotaOvershootIsBounded
<1>1. ASSUME IInv, NEW g \in GroupIds, NEW r \in Limited
      PROVE  Cardinality(Members(r, g) \ doubt) <= peak[g][r] + Cardinality(Workers) - 1
  <2>1. Held(r, g) \in SUBSET Names /\ Members(r, g) \ doubt \in SUBSET Held(r, g)
    BY DEF Held, Members, Reserved
  <2>2. peak[g][r] \in Nat /\ Cardinality(Held(r, g)) <= peak[g][r] + Cardinality(Workers) - 1
    BY <1>1 DEF IInv, Typed, HeldIsBounded
  <2> QED BY <2>1, <2>2, BoundKept
<1>2. IInv => QuotaOvershootIsBounded
  BY <1>1 DEF QuotaOvershootIsBounded
<1> QED BY <1>2, Invariance, PTL

=============================================================================
