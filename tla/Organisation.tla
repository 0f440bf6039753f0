---------------------------- MODULE Organisation ----------------------------
(***************************************************************************)
(* The accounts and groups of the platform (server/fleet/admin.go and      *)
(* groups.go, with the rows of auth.go).                                   *)
(*                                                                         *)
(* Accounts are kept in a map under one mutex and groups in another, each  *)
(* with its row in PostgreSQL.  Creating and deleting an account is one    *)
(* critical section.  Changing the groups of an account takes three, and   *)
(* deleting a group takes three as well: between them other requests run,  *)
(* and the account or group that was checked may be another when it is     *)
(* written.                                                                *)
(*                                                                         *)
(* A worker is a goroutine that serves an administrator.  Names, passwords *)
(* and telephone numbers are left out, vehicles too: whether a group has   *)
(* any is another module's matter.                                         *)
(***************************************************************************)
EXTENDS Integers, FiniteSets, FiniteSetsExt

CONSTANTS
    Workers,
    Names,          \* user names
    MaxGroups,      \* bound: the highest group number, of the identifier g-<n>
    Bootstrap,      \* the name of RA_BOOTSTRAP_ADMIN, {} where it is not set
    MaxSupers,      \* maxSuperAdmins
    DefaultQuota,   \* MaxAdmins and MaxUsers of a new group
    Quotas,         \* the quotas an administrator may ask for
    Initial,        \* bound: the accounts other than one super at the start
    MaxEvents       \* bound: changes made, failed writes and restarts together

GroupIds == 1..MaxGroups

(* Roles whose number a group limits: Group.MaxAdmins and Group.MaxUsers.   *)
Limited == {"group_admin", "user"}

ASSUME OrganisationConstants ==
    /\ MaxGroups \in Nat /\ MaxSupers \in Nat \ {0} /\ MaxEvents \in Nat
    /\ Quotas \subseteq [Limited -> Nat \ {0}] /\ DefaultQuota \in Quotas
    /\ Initial \subseteq [role : Limited, groups : SUBSET GroupIds]
    /\ Bootstrap \subseteq Names /\ Cardinality(Bootstrap) <= 1
    /\ IsFiniteSet(Workers) /\ Workers # {} /\ IsFiniteSet(Names)

Users == [role : Limited \cup {"super"}, groups : SUBSET GroupIds]
NoUser == [role |-> "none", groups |-> {}]

NoGroup == [r \in Limited |-> 0]

(* A request between two critical sections: SetGroups has found the        *)
(* account and then its quota, or the deletion of a group has found no     *)
(* member and then no vehicle.  SetGroups holds a pointer to the account;  *)
(* it is orphaned when the account is deleted meanwhile.                   *)
Idle == [stage |-> "idle", user |-> NoUser, name |-> "none", group |-> 0,
         orphan |-> FALSE]
Stages == {"idle", "found", "fits", "memberless", "vacant"}

VARIABLES
    users,          \* a.users
    userRows,       \* auth_users
    groups,         \* gs.groups: the quotas of a group
    groupRows,      \* org_groups
    seq,            \* gs.seq
    work,           \* the requests being served
    doubt,          \* history: accounts an unanswered write, a listing or the
                    \* crossing of two requests has touched since their
                    \* groups were last set
    lost,           \* history: groups whose deletion went unanswered
    unsure,         \* history: the row of a super was touched like that
    peak,           \* history: the highest quotas of each group number
    events          \* counts what MaxEvents bounds

accounts == <<users, userRows>>
grouping == <<groups, groupRows, seq>>
history == <<doubt, lost, unsure, peak>>
vars == <<accounts, grouping, work, history, events>>

(* The outcomes of a write: an error may come before or after its effect.  *)
Outcomes == {"ok", "failed", "unanswered"}
Applied(o) == o \in {"ok", "unanswered"}
Event == events < MaxEvents /\ events' = events + 1

intersects(a, b) == a \cap b # {}

(* The accounts that count against a quota of group g.                     *)
Members(role, g) == {n \in Names : users[n].role = role /\ g \in users[n].groups}

(* a.groups.Get *)
Exists(g) == groups[g] # NoGroup

Supers == {n \in Names : users[n].role = "super"}

(* A process that was started on tables that satisfy the quotas.           *)
Init ==
    /\ \E s \in Names, others \in [Names -> Initial \cup {NoUser}] :
        users = [n \in Names |-> IF n = s THEN [role |-> "super", groups |-> {}]
                                 ELSE others[n]]
    /\ userRows = users
    /\ groups = [g \in GroupIds |-> DefaultQuota]
    /\ \A g \in GroupIds, r \in Limited : Cardinality(Members(r, g)) <= groups[g][r]
    /\ groupRows = groups /\ peak = groups
    /\ seq = MaxGroups
    /\ work = [w \in Workers |-> Idle]
    /\ doubt = {} /\ lost = {} /\ unsure = FALSE
    /\ events = 0

-----------------------------------------------------------------------------
(* Who may do what                                                         *)

(* The sessions that make requests.  A session keeps the groups its login  *)
(* found or the last change of groups gave it.                             *)
Actors ==
    UNION {{[users[n] EXCEPT !.groups = gs] : gs \in {users[n].groups, userRows[n].groups}} :
              n \in {m \in Names : users[m].role \in {"super", "group_admin"}}}

(* The check of POST /api/admin/users; an administrator's own groups stand *)
(* in for those that are not named.                                        *)
MayCreate(actor, u) ==
    \/ actor.role = "super"
    \/ u.role # "super" /\ intersects(actor.groups, u.groups)

(* The check of SetGroups, ResetPassword and DeleteUser on the account.    *)
MayManage(actor, n, into) ==
    \/ actor.role = "super"
    \/ /\ users[n].role # "super"
       /\ intersects(actor.groups, users[n].groups) \/ intersects(actor.groups, into)

-----------------------------------------------------------------------------
(* Accounts                                                                *)

(* Mutant: a full group takes one more.                                    *)
RoomInOneTooMany(role, g, except) ==
    Exists(g) /\ Cardinality(Members(role, g) \ except) <= groups[g][role]

(* The quota check of CreateUser and checkQuotaFor.                        *)
RoomIn(role, g, except) ==
    Exists(g) /\ Cardinality(Members(role, g) \ except) < groups[g][role]

(* A request that deletes one of these groups is past its check of members.*)
BeingDeleted(gs) ==
    \E w \in Workers : work[w].stage \in {"memberless", "vacant"} /\ work[w].group \in gs

(* CreateUser, one critical section.                                       *)
CreateUser(n, u, o) ==
    /\ users[n] = NoUser
    /\ \E actor \in Actors : MayCreate(actor, u)
    /\ IF u.role = "super" THEN Cardinality(Supers) < MaxSupers
       ELSE u.groups # {} /\ \A g \in u.groups : RoomIn(u.role, g, {})
    /\ Event
    /\ userRows' = IF Applied(o) THEN [userRows EXCEPT ![n] = u] ELSE userRows
    /\ users' = IF o = "ok" THEN [users EXCEPT ![n] = u] ELSE users
    /\ doubt' = CASE o = "failed" -> doubt
                  [] o # "failed" /\ (o = "unanswered" \/ BeingDeleted(u.groups)) ->
                        doubt \cup {n}
                  [] OTHER -> doubt \ {n}
    /\ UNCHANGED <<grouping, work, lost, unsure, peak>>

(* SetGroups: the first critical section finds the account.                *)
SetGroups(w, n, gs) ==
    /\ work[w] = Idle
    /\ users[n].role \in Limited
    /\ \E actor \in Actors : MayManage(actor, n, gs)
    /\ work' = [work EXCEPT ![w] = [Idle EXCEPT !.stage = "found", !.name = n,
                                       !.user = [role |-> users[n].role, groups |-> gs]]]
    /\ UNCHANGED <<accounts, grouping, history, events>>

(* The second checks the quotas, the account itself left out by its name.  *)
checkQuotaFor(w) ==
    LET u == work[w].user IN
    /\ work[w].stage = "found"
    /\ work' = [work EXCEPT
                  ![w] = IF \A g \in u.groups : RoomIn(u.role, g, {work[w].name})
                         THEN [@ EXCEPT !.stage = "fits"] ELSE Idle]
    /\ UNCHANGED <<accounts, grouping, history, events>>

(* Mutant: the groups stay changed in memory when they could not be saved. *)
GroupsInMemoryKept(n, gs, o) == [users EXCEPT ![n].groups = gs]

(* SetGroups puts the old groups back when the new ones cannot be saved.   *)
GroupsInMemory(n, gs, o) ==
    IF o = "ok" THEN [users EXCEPT ![n].groups = gs] ELSE users

(* The third writes what the pointer points at, be the account still in    *)
(* the map or not.                                                         *)
SaveGroups(w, o) ==
    LET n == work[w].name  u == work[w].user  orphan == work[w].orphan IN
    /\ work[w].stage = "fits"
    /\ Event
    /\ userRows' = IF Applied(o) THEN [userRows EXCEPT ![n] = u] ELSE userRows
    /\ users' = IF orphan THEN users ELSE GroupsInMemory(n, u.groups, o)
    /\ work' = [work EXCEPT ![w] = Idle]
    /\ doubt' = CASE o = "failed" -> doubt
                  [] /\ o # "failed"
                     /\ \/ orphan \/ o = "unanswered" \/ BeingDeleted(u.groups)
                        \/ \E g \in u.groups : ~Exists(g) -> doubt \cup {n}
                  [] OTHER -> doubt \ {n}
    /\ unsure' = (unsure \/ (orphan /\ Applied(o) /\ userRows[n].role = "super"))
    /\ UNCHANGED <<grouping, lost, peak>>

(* ResetPassword, ChangePassword and SetPhone save the account they find.  *)
SaveAccount(n, o) ==
    /\ users[n] # NoUser
    /\ userRows[n] # users[n] /\ Applied(o)
    /\ Event
    /\ userRows' = [userRows EXCEPT ![n] = users[n]]
    /\ UNCHANGED <<users, grouping, work, history>>

(* Mutant: the last super may go.                                          *)
MayDeleteAny(n) == \E actor \in Actors : MayManage(actor, n, {})

(* The checks of DeleteUser.                                               *)
MayDelete(n) ==
    /\ \E actor \in Actors : MayManage(actor, n, {})
    /\ users[n].role = "super" => Cardinality(Supers) > 1

DeleteUser(n, o) ==
    /\ users[n] # NoUser
    /\ MayDelete(n)
    /\ Event
    /\ userRows' = IF Applied(o) THEN [userRows EXCEPT ![n] = NoUser] ELSE userRows
    /\ users' = IF o = "ok" THEN [users EXCEPT ![n] = NoUser] ELSE users
    /\ work' = IF o = "ok"
               THEN [w \in Workers |-> IF work[w].name = n
                                       THEN [work[w] EXCEPT !.orphan = TRUE] ELSE work[w]]
               ELSE work
    /\ doubt' = CASE o = "ok" -> doubt \ {n}
                  [] o = "failed" -> doubt
                  [] o = "unanswered" -> doubt \cup {n}
    /\ unsure' = (unsure \/ (o = "unanswered" /\ users[n].role = "super"))
    /\ UNCHANGED <<grouping, lost, peak>>

(* GET /api/admin/users by a group administrator: the accounts listed are  *)
(* those in the map, and their groups are blanked there.                   *)
ListUsers(actor) ==
    LET listed == {n \in Names : intersects(actor.groups, users[n].groups)} IN
    /\ actor.role = "group_admin" /\ listed # {}
    /\ Event
    /\ users' = [n \in Names |-> IF n \in listed THEN [users[n] EXCEPT !.groups = {}]
                                 ELSE users[n]]
    /\ doubt' = doubt \cup listed
    /\ UNCHANGED <<userRows, grouping, work, lost, unsure, peak>>

-----------------------------------------------------------------------------
(* Groups                                                                  *)

Raise(q, p) == [r \in Limited |-> Max({q[r], p[r]})]

(* Create; a number whose row is left from an unanswered insertion is      *)
(* refused by the primary key, and seq goes back.                          *)
CreateGroup(o) ==
    LET g == seq + 1 IN
    /\ g \in GroupIds /\ groupRows[g] = NoGroup
    /\ \E actor \in Actors : actor.role = "super"
    /\ Event
    /\ groupRows' = IF Applied(o) THEN [groupRows EXCEPT ![g] = DefaultQuota] ELSE groupRows
    /\ groups' = IF o = "ok" THEN [groups EXCEPT ![g] = DefaultQuota] ELSE groups
    /\ seq' = IF o = "ok" THEN g ELSE seq
    /\ peak' = [peak EXCEPT ![g] = Raise(DefaultQuota, @)]
    /\ UNCHANGED <<accounts, work, doubt, lost, unsure>>

(* Update: the quotas change in memory even when they cannot be saved.     *)
UpdateGroup(g, q, o) ==
    /\ Exists(g) /\ groups[g] # q
    /\ \E actor \in Actors : actor.role = "super"
    /\ Event
    /\ groups' = [groups EXCEPT ![g] = q]
    /\ groupRows' = IF Applied(o) /\ groupRows[g] # NoGroup
                    THEN [groupRows EXCEPT ![g] = q] ELSE groupRows
    /\ peak' = [peak EXCEPT ![g] = Raise(q, @)]
    /\ UNCHANGED <<accounts, seq, work, doubt, lost, unsure>>

(* Mutant: a group with members is taken for empty.                        *)
groupHasMembersNever(g) == FALSE

groupHasMembers(g) == \E n \in Names : g \in users[n].groups

(* POST /api/admin/groups/{id}/delete looks for members, ...               *)
CheckMembers(w, g) ==
    /\ work[w] = Idle
    /\ \E actor \in Actors : actor.role = "super"
    /\ ~groupHasMembers(g)
    /\ work' = [work EXCEPT ![w] = [Idle EXCEPT !.stage = "memberless", !.group = g]]
    /\ UNCHANGED <<accounts, grouping, history, events>>

(* ... for vehicles, ...                                                   *)
CheckVehicles(w) ==
    /\ work[w].stage = "memberless"
    /\ work' \in {[work EXCEPT ![w].stage = "vacant"], [work EXCEPT ![w] = Idle]}
    /\ UNCHANGED <<accounts, grouping, history, events>>

(* ... and deletes the group.                                              *)
DeleteGroup(w, o) ==
    LET g == work[w].group IN
    /\ work[w].stage = "vacant"
    /\ work' = [work EXCEPT ![w] = Idle]
    /\ IF Exists(g)
       THEN /\ Event
            /\ groupRows' = IF Applied(o) THEN [groupRows EXCEPT ![g] = NoGroup] ELSE groupRows
            /\ groups' = IF o = "ok" THEN [groups EXCEPT ![g] = NoGroup] ELSE groups
            /\ lost' = IF o = "unanswered" THEN lost \cup {g} ELSE lost
       ELSE UNCHANGED <<groups, groupRows, lost, events>>
    /\ UNCHANGED <<accounts, seq, doubt, unsure, peak>>

-----------------------------------------------------------------------------

(* NewGroupStore, loadUsers and SeedUser at the start of a process.        *)
Restart(seeded) ==
    LET seed == [n \in Names |-> IF n \in seeded /\ userRows[n] = NoUser
                                 THEN [role |-> "super", groups |-> {}] ELSE userRows[n]]
    IN
    /\ Event
    /\ users' = seed /\ userRows' = seed
    /\ groups' = groupRows
    /\ seq' = Max({0} \cup {g \in GroupIds : groupRows[g] # NoGroup})
    /\ work' = [w \in Workers |-> Idle]
    /\ UNCHANGED <<groupRows, history>>

(* The requests that take one critical section.                            *)
Request(o) ==
    \/ \E n \in Names :
        \/ \E u \in Users : CreateUser(n, u, o)
        \/ SaveAccount(n, o)
        \/ DeleteUser(n, o)
    \/ CreateGroup(o)
    \/ \E g \in GroupIds, q \in Quotas : UpdateGroup(g, q, o)

Next ==
    \/ \E o \in Outcomes :
        \/ (\E w \in Workers : work[w] = Idle) /\ Request(o)
        \/ \E w \in Workers : SaveGroups(w, o) \/ DeleteGroup(w, o)
    \/ \E w \in Workers :
        \/ \E n \in Names, gs \in SUBSET GroupIds : SetGroups(w, n, gs)
        \/ checkQuotaFor(w)
        \/ \E g \in GroupIds : CheckMembers(w, g)
        \/ CheckVehicles(w)
    \/ \E actor \in Actors : ListUsers(actor)
    \/ \E seeded \in SUBSET Bootstrap : Restart(seeded)

Spec == Init /\ [][Next]_vars

-----------------------------------------------------------------------------
(* Properties                                                              *)

(* Every variable has its type.                                            *)
TypeOK ==
    /\ {users, userRows} \subseteq [Names -> Users \cup {NoUser}]
    /\ {groups, groupRows} \subseteq [GroupIds -> Quotas \cup {NoGroup}]
    /\ peak \in [GroupIds -> [Limited -> Nat]]
    /\ seq \in 0..MaxGroups
    /\ DOMAIN work = Workers /\ \A w \in Workers : work[w].stage \in Stages
    /\ doubt \subseteq Names /\ lost \subseteq GroupIds
    /\ unsure \in BOOLEAN /\ events \in 0..MaxEvents

(* Somebody can always administer the platform: one account is super both  *)
(* in this process and in the table the next one starts from, whoever      *)
(* deletes whom at the same time, unless a deletion went unanswered or the *)
(* row was overwritten by a change to the account of that name before it.  *)
SuperRemains ==
    ~unsure => \E n \in Supers : userRows[n].role = "super"

(* Accounts in memory and in the table are the same, whichever requests    *)
(* and failures they went through, except those in doubt.                  *)
AccountsMatchRows ==
    \A n \in Names \ doubt : users[n] = userRows[n]

(* Requests that check a quota at the same time may exceed it, by no more  *)
(* than one member for each request beyond the first.                      *)
QuotaOvershootIsBounded ==
    \A g \in GroupIds, r \in Limited :
        Cardinality(Members(r, g) \ doubt) <= peak[g][r] + Cardinality(Workers) - 1

(* Every group of an account exists: none was deleted under its members,   *)
(* and no account was put in a group while that was being deleted, except  *)
(* those that crossed such a deletion.                                     *)
GroupsOfAccountsExist ==
    \A n \in Names \ doubt :
        users[n].role \in Limited => \A g \in users[n].groups \ lost : Exists(g)

=============================================================================
