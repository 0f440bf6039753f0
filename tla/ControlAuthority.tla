-------------------------- MODULE ControlAuthority --------------------------
(***************************************************************************)
(* The cloud's control authority (server/fleet/durable_authority.go): the  *)
(* PostgreSQL tables control_leases, vehicle_control_epochs and            *)
(* control_lease_renewals, and the LeaseGrant messages put into the outbox *)
(* by the transaction that changes them.                                   *)
(*                                                                         *)
(* Several Fleet instances run these operations at the same time.  Every   *)
(* operation is one serializable transaction that locks the epoch row or   *)
(* the lease row, so each is one action; a refused operation is rolled     *)
(* back as a whole and changes nothing.  A driver stands for an operator   *)
(* together with the control device the lease names.                       *)
(***************************************************************************)
EXTENDS Integers

CONSTANTS
    Vehicles,
    Drivers,
    LeaseIds,       \* identifiers randomID may return; a lease takes a fresh one
    RequestIds,     \* client-generated identifiers of renewals
    LeaseTTL,       \* leaseTTL
    Grace,          \* grace
    Standings,      \* the standings a vehicle may be in
    MaxFencing,     \* bound: highest fencing token
    Horizon         \* bound: last instant of the clock

NoId == "none"

(* What a lease needs of its vehicle: an active gateway whose certificate  *)
(* has not expired, a capability row that allows control, and a lifecycle  *)
(* and recent telemetry that make it live.                                 *)
Needs == {"gateway", "capability", "live"}

ASSUME AuthorityConstants ==
    /\ NoId \notin LeaseIds /\ NoId \notin Vehicles /\ NoId \notin Drivers
    /\ LeaseTTL \in Nat \ {0} /\ Grace \in Nat
    /\ Standings \subseteq SUBSET Needs /\ Needs \in Standings
    /\ MaxFencing \in Nat /\ Horizon \in Nat

LeaseStates == {"none", "active", "released", "expired", "revoked"}

Rows ==
    [vehicle : Vehicles \cup {NoId}, driver : Drivers \cup {NoId},
     fencing : Nat, until : Nat, state : LeaseStates]

NoRow ==
    [vehicle |-> NoId, driver |-> NoId, fencing |-> 0, until |-> 0,
     state |-> "none"]

Messages ==
    [action : {"grant", "revoke"}, vehicle : Vehicles,
     lease : LeaseIds \cup {NoId}, fencing : Nat, until : Nat, sent : Nat]

Renewals == [lease : LeaseIds, request : RequestIds, until : Nat]

VARIABLES
    now,            \* the clock of the database and of the Fleet instances
    leases,         \* control_leases, NoRow where there is none
    epoch,          \* vehicle_control_epochs.fencing_token
    renewals,       \* control_lease_renewals
    outbox,         \* the LeaseGrant messages enqueued so far
    standing,       \* which of Needs each vehicle has
    lastFit         \* history: when the vehicle's leases could last be renewed

vars == <<now, leases, epoch, renewals, outbox, standing, lastFit>>

Issued(l) == leases[l].state # "none"

Active(l) == leases[l].state = "active"

Valid(l) == Active(l) /\ leases[l].until > now

(* A renewal looks at the capability and at liveness, not at the gateway.  *)
Fit(v) == {"capability", "live"} \subseteq standing[v]

Init ==
    /\ now = 0
    /\ leases = [l \in LeaseIds |-> NoRow]
    /\ epoch = [v \in Vehicles |-> 0]
    /\ renewals = {}
    /\ outbox = {}
    /\ standing = [v \in Vehicles |-> Needs]
    /\ lastFit = [v \in Vehicles |-> 0]

-----------------------------------------------------------------------------
(* publishGrantTx: the message is enqueued by the same transaction.  A     *)
(* revocation is published with a validity in the past, which the vehicle  *)
(* does not look at.                                                       *)

Grant(l, row) ==
    [action |-> "grant", vehicle |-> row.vehicle, lease |-> l,
     fencing |-> row.fencing, until |-> row.until, sent |-> now]

Revocation(v, l, fencing) ==
    [action |-> "revoke", vehicle |-> v, lease |-> l, fencing |-> fencing,
     until |-> 0, sent |-> now]

-----------------------------------------------------------------------------
(* Request                                                                 *)

(* The leases of the vehicle whose validity is over are marked first.      *)
ExpireOverdue(v) ==
    [l \in LeaseIds |->
        IF Active(l) /\ leases[l].vehicle = v /\ leases[l].until <= now
        THEN [leases[l] EXCEPT !.state = "expired"]
        ELSE leases[l]]

(* The transaction's own checks: nobody holds the vehicle, and the driver  *)
(* holds no other.                                                         *)
Vacant(d, v) ==
    ~ \E l \in LeaseIds :
        Valid(l) /\ (leases[l].vehicle = v \/ leases[l].driver = d)

(* Mutant: without the index per driver of migration 0015.                 *)
IndexPerVehicleOnly(rows, d, v) ==
    ~ \E l \in LeaseIds : rows[l].state = "active" /\ rows[l].vehicle = v

(* The unique indexes one_active_control_lease_per_vehicle and             *)
(* one_active_control_lease_per_driver refuse the INSERT otherwise.        *)
IndexesAllow(rows, d, v) ==
    ~ \E l \in LeaseIds :
        rows[l].state = "active" /\ (rows[l].vehicle = v \/ rows[l].driver = d)

Request(d, v, l) ==
    LET rows == ExpireOverdue(v)
        row  == [vehicle |-> v, driver |-> d, fencing |-> epoch[v] + 1,
                 until |-> now + LeaseTTL, state |-> "active"]
    IN  /\ standing[v] = Needs
        /\ Vacant(d, v)
        /\ IndexesAllow(rows, d, v)
        /\ ~ Issued(l)
        /\ epoch[v] < MaxFencing
        /\ leases' = [rows EXCEPT ![l] = row]
        /\ epoch' = [epoch EXCEPT ![v] = @ + 1]
        /\ outbox' = outbox \cup {Grant(l, row)}
        /\ UNCHANGED <<now, renewals, standing, lastFit>>

-----------------------------------------------------------------------------
(* Renew                                                                   *)

(* Mutant: an overdue lease is renewed whatever became of its vehicle.     *)
RenewableUnfit(d, l) ==
    /\ Active(l) /\ leases[l].driver = d
    /\ now <= leases[l].until + Grace

(* Mutant: a lease that already ended is renewed.                          *)
RenewableEnded(d, l) ==
    /\ Issued(l) /\ leases[l].driver = d
    /\ Fit(leases[l].vehicle)
    /\ now <= leases[l].until + Grace

Renewable(d, l) ==
    /\ Active(l) /\ leases[l].driver = d
    /\ Fit(leases[l].vehicle)
    /\ now <= leases[l].until + Grace

Saved(l, r) == {s \in renewals : s.lease = l /\ s.request = r}

(* Mutant: a repeated request is published with a new validity that is not *)
(* stored.                                                                 *)
RenewAgainExtends(d, l, r) ==
    /\ Renewable(d, l)
    /\ \E s \in Saved(l, r) :
          outbox' = outbox \cup
              {Grant(l, [leases[l] EXCEPT !.until = now + LeaseTTL])}
    /\ UNCHANGED <<now, leases, epoch, renewals, standing, lastFit>>

(* A repeated request publishes the validity it was given the first time.  *)
RenewAgain(d, l, r) ==
    /\ Renewable(d, l)
    /\ \E s \in Saved(l, r) :
          outbox' = outbox \cup {Grant(l, [leases[l] EXCEPT !.until = s.until])}
    /\ UNCHANGED <<now, leases, epoch, renewals, standing, lastFit>>

RenewFirst(d, l, r) ==
    LET row == [leases[l] EXCEPT !.until = now + LeaseTTL]
    IN  /\ Renewable(d, l)
        /\ Saved(l, r) = {}
        /\ leases' = [leases EXCEPT ![l] = row]
        /\ renewals' = renewals \cup
              {[lease |-> l, request |-> r, until |-> row.until]}
        /\ outbox' = outbox \cup {Grant(l, row)}
        /\ UNCHANGED <<now, epoch, standing, lastFit>>

Renew(d, l, r) == RenewAgain(d, l, r) \/ RenewFirst(d, l, r)

-----------------------------------------------------------------------------
(* Release and EmergencyStop: both open a new epoch.                       *)

(* Mutant: a release keeps the epoch.                                      *)
ReleaseKeepsEpoch(d, l) ==
    /\ Active(l) /\ leases[l].driver = d
    /\ leases' = [leases EXCEPT ![l].state = "released"]
    /\ outbox' = outbox \cup
          {Revocation(leases[l].vehicle, l, epoch[leases[l].vehicle])}
    /\ UNCHANGED <<now, epoch, renewals, standing, lastFit>>

Release(d, l) ==
    LET v == leases[l].vehicle
    IN  /\ Active(l) /\ leases[l].driver = d
        /\ epoch[v] < MaxFencing
        /\ leases' = [leases EXCEPT ![l].state = "released"]
        /\ epoch' = [epoch EXCEPT ![v] = @ + 1]
        /\ outbox' = outbox \cup {Revocation(v, l, epoch[v] + 1)}
        /\ UNCHANGED <<now, renewals, standing, lastFit>>

EmergencyStop(v) ==
    /\ "gateway" \in standing[v]
    /\ epoch[v] < MaxFencing
    /\ leases' = [l \in LeaseIds |->
          IF Active(l) /\ leases[l].vehicle = v
          THEN [leases[l] EXCEPT !.state = "revoked"]
          ELSE leases[l]]
    /\ epoch' = [epoch EXCEPT ![v] = @ + 1]
    /\ outbox' = outbox \cup {Revocation(v, NoId, epoch[v] + 1)}
    /\ UNCHANGED <<now, renewals, standing, lastFit>>

-----------------------------------------------------------------------------
(* The rest of the platform: gateways are activated and revoked, vehicles  *)
(* are quarantined, go offline and come back.                              *)

StandingChanges(v, s) ==
    /\ s # standing[v]
    /\ standing' = [standing EXCEPT ![v] = s]
    /\ lastFit' = [lastFit EXCEPT
          ![v] = IF {"capability", "live"} \subseteq s THEN now ELSE @]
    /\ UNCHANGED <<now, leases, epoch, renewals, outbox>>

AdvanceClock ==
    /\ now < Horizon
    /\ now' = now + 1
    /\ lastFit' = [v \in Vehicles |-> IF Fit(v) THEN now + 1 ELSE lastFit[v]]
    /\ UNCHANGED <<leases, epoch, renewals, outbox, standing>>

Next ==
    \/ \E d \in Drivers, v \in Vehicles, l \in LeaseIds : Request(d, v, l)
    \/ \E d \in Drivers, l \in LeaseIds, r \in RequestIds : Renew(d, l, r)
    \/ \E d \in Drivers, l \in LeaseIds : Release(d, l)
    \/ \E v \in Vehicles : EmergencyStop(v)
    \/ \E v \in Vehicles, s \in Standings : StandingChanges(v, s)
    \/ AdvanceClock

Spec == Init /\ [][Next]_vars

-----------------------------------------------------------------------------
(* Properties                                                              *)

(* Every row and every message has the type its table or message has.      *)
TypeOK ==
    /\ now \in Nat
    /\ leases \in [LeaseIds -> Rows]
    /\ epoch \in [Vehicles -> Nat]
    /\ renewals \subseteq Renewals
    /\ outbox \subseteq Messages
    /\ standing \in [Vehicles -> Standings]
    /\ lastFit \in [Vehicles -> Nat]

(* One account drives one vehicle and one vehicle has one driver, among    *)
(* the leases that are valid now, although an overdue lease may be renewed *)
(* in its grace period after its driver asked for another vehicle          *)
(* (takeover_reg.go, rules 1 and 2).                                       *)
ExclusiveControl ==
    \A l, k \in LeaseIds :
        (Valid(l) /\ Valid(k) /\ l # k) =>
            /\ leases[l].vehicle # leases[k].vehicle
            /\ leases[l].driver # leases[k].driver

(* The epoch fences off whatever ended: a lease that is active carries the *)
(* token of the current epoch, every other lease a lower one, however      *)
(* requests, releases, stops and expiries follow each other.               *)
EndedLeasesAreFenced ==
    \A l \in LeaseIds :
        Issued(l) =>
            IF Active(l) THEN leases[l].fencing = epoch[leases[l].vehicle]
                         ELSE leases[l].fencing < epoch[leases[l].vehicle]

(* What the vehicle can be told is what was recorded: a grant names a      *)
(* lease with its own token and no longer validity than the row has, and   *)
(* no lease ever carries the token of a revocation.                        *)
MessagesMatchLeases ==
    \A m \in outbox :
        /\ m.fencing <= epoch[m.vehicle]
        /\ m.action = "grant" =>
              /\ m.lease \in LeaseIds /\ Issued(m.lease)
              /\ leases[m.lease].vehicle = m.vehicle
              /\ leases[m.lease].fencing = m.fencing
              /\ m.until <= leases[m.lease].until
        /\ m.action = "revoke" =>
              \A l \in LeaseIds :
                 leases[l].vehicle = m.vehicle => leases[l].fencing # m.fencing

(* A vehicle that went offline, was quarantined or lost its capability is  *)
(* not controlled for longer than one lease from then on.                  *)
StandingLimitsControl ==
    \A l \in LeaseIds :
        Valid(l) => leases[l].until <= lastFit[leases[l].vehicle] + LeaseTTL

(* What no transaction may do: lower an epoch, revive a lease that ended,  *)
(* hand a lease to another driver or vehicle, or shorten a validity.       *)
LeasesOnlyMoveForward ==
    [][/\ \A v \in Vehicles : epoch'[v] >= epoch[v]
       /\ \A l \in LeaseIds : Issued(l) =>
             /\ leases'[l].vehicle = leases[l].vehicle
             /\ leases'[l].driver = leases[l].driver
             /\ leases'[l].fencing = leases[l].fencing
             /\ leases'[l].until >= leases[l].until
             /\ ~ Active(l) => leases'[l] = leases[l]]_vars

=============================================================================
