----------------------- MODULE ControlAuthorityProofs -----------------------
(***************************************************************************)
(* Proofs about ControlAuthority for every number of vehicles, drivers,    *)
(* leases and requests, and every lease validity and grace.                *)
(***************************************************************************)
EXTENDS ControlAuthority, TLAPS

(* A row that was issued names a vehicle and a driver.                     *)
RowsNamed ==
    \A l \in LeaseIds :
        IF Issued(l)
        THEN leases[l].vehicle \in Vehicles /\ leases[l].driver \in Drivers
        ELSE leases[l] = NoRow

(* The two unique indexes: stronger than ExclusiveControl, whose leases    *)
(* are also unexpired, because an overdue lease may be renewed.            *)
OneActive ==
    \A l, k \in LeaseIds :
        (Active(l) /\ Active(k) /\ l # k) =>
            /\ leases[l].vehicle # leases[k].vehicle
            /\ leases[l].driver # leases[k].driver

RenewalsRecorded ==
    \A s \in renewals : Issued(s.lease) /\ s.until <= leases[s.lease].until

(* No validity reaches beyond one lease from now, nor from the time its    *)
(* vehicle could last be renewed.                                          *)
Deadlines ==
    /\ \A v \in Vehicles :
          lastFit[v] <= now /\ (Fit(v) => lastFit[v] = now)
    /\ \A l \in LeaseIds :
          Issued(l) => leases[l].until <= lastFit[leases[l].vehicle] + LeaseTTL

IInv ==
    /\ TypeOK /\ RowsNamed /\ OneActive /\ EndedLeasesAreFenced
    /\ MessagesMatchLeases /\ RenewalsRecorded /\ Deadlines

(* The constants that are numbers.                                         *)
LEMMA Numbers == LeaseTTL \in Nat /\ Grace \in Nat /\ MaxFencing \in Nat
  BY AuthorityConstants

(* The empty tables satisfy the inductive invariant.                       *)
LEMMA InitIInv == Init => IInv
  <1> SUFFICES ASSUME Init PROVE IInv
    OBVIOUS
  <1>1. NoRow \in Rows /\ NoRow.state = "none"
    BY DEF NoRow, Rows, LeaseStates
  <1>2. TypeOK
    BY <1>1, AuthorityConstants DEF Init, TypeOK
  <1>3. \A l \in LeaseIds : leases[l] = NoRow /\ ~ Issued(l) /\ ~ Active(l)
    BY <1>1 DEF Init, Issued, Active
  <1>4. RowsNamed /\ OneActive /\ EndedLeasesAreFenced
    BY <1>3 DEF RowsNamed, OneActive, EndedLeasesAreFenced
  <1>5. MessagesMatchLeases /\ RenewalsRecorded
    BY DEF Init, MessagesMatchLeases, RenewalsRecorded
  <1>6. Deadlines
    BY <1>3 DEF Init, Deadlines
  <1> QED BY <1>2, <1>4, <1>5, <1>6 DEF IInv

(* What a step does to one row: nothing, or it ends it.                    *)
Ends(row, after) ==
    \E s \in {"released", "expired", "revoked"} : after = [row EXCEPT !.state = s]

(* Ending a row keeps all its fields but the state.                        *)
LEMMA EndsKeeps ==
    ASSUME NEW row \in Rows, NEW after, Ends(row, after)
    PROVE  /\ after \in Rows /\ after.vehicle = row.vehicle
           /\ after.driver = row.driver /\ after.fencing = row.fencing
           /\ after.until = row.until /\ after.state # "active"
           /\ after.state # "none"
  BY DEF Ends, Rows, LeaseStates

(* Ending every active lease of a vehicle, opening its next epoch and      *)
(* publishing the revocation: what Release and EmergencyStop have in       *)
(* common.                                                                 *)
LEMMA EndEpochIInv ==
    ASSUME IInv, NEW v \in Vehicles, NEW i \in LeaseIds \cup {NoId},
           leases' \in [LeaseIds -> Rows],
           \A k \in LeaseIds :
              IF Active(k) /\ leases[k].vehicle = v
              THEN Ends(leases[k], leases'[k])
              ELSE leases'[k] = leases[k],
           epoch' = [epoch EXCEPT ![v] = @ + 1],
           outbox' = outbox \cup {Revocation(v, i, epoch[v] + 1)},
           UNCHANGED <<now, renewals, standing, lastFit>>
    PROVE  IInv'
  <1> USE DEF IInv
  <1>e. /\ epoch' \in [Vehicles -> Nat] /\ epoch'[v] = epoch[v] + 1
        /\ epoch[v] \in Nat
        /\ \A u \in Vehicles : u # v => epoch'[u] = epoch[u]
    BY DEF TypeOK
  <1>r. \A k \in LeaseIds :
          /\ leases[k] \in Rows
          /\ leases'[k].vehicle = leases[k].vehicle
          /\ leases'[k].driver = leases[k].driver
          /\ leases'[k].fencing = leases[k].fencing
          /\ leases'[k].until = leases[k].until
          /\ Active(k)' => Active(k) /\ leases'[k] = leases[k] /\ leases[k].vehicle # v
          /\ Issued(k)' <=> Issued(k)
          /\ ~ Issued(k) => leases'[k] = leases[k]
    BY EndsKeeps DEF TypeOK, Active, Issued
  <1>1. TypeOK'
    <2>1. Revocation(v, i, epoch[v] + 1) \in Messages
      BY <1>e DEF Revocation, Messages, TypeOK
    <2> QED BY <1>e, <2>1 DEF TypeOK
  <1>2. RowsNamed'
    BY <1>r DEF RowsNamed
  <1>3. OneActive'
    BY <1>r DEF OneActive
  <1>4. EndedLeasesAreFenced'
    <2> SUFFICES ASSUME NEW k \in LeaseIds, Issued(k)'
                 PROVE  IF Active(k)' THEN leases'[k].fencing = epoch'[leases'[k].vehicle]
                                      ELSE leases'[k].fencing < epoch'[leases'[k].vehicle]
      BY DEF EndedLeasesAreFenced
    <2>1. leases[k].vehicle \in Vehicles /\ leases[k].fencing \in Nat
      BY <1>r DEF RowsNamed, Rows
    <2>2. IF Active(k) THEN leases[k].fencing = epoch[leases[k].vehicle]
                       ELSE leases[k].fencing < epoch[leases[k].vehicle]
      BY <1>r DEF EndedLeasesAreFenced
    <2>3. CASE leases[k].vehicle = v
      BY <1>r, <1>e, <2>1, <2>2, <2>3
    <2>4. CASE leases[k].vehicle # v
      <3>1. Active(k)' <=> Active(k)
        BY <2>4, <1>r DEF Active
      <3> QED BY <1>r, <1>e, <2>1, <2>2, <2>4, <3>1
    <2> QED BY <2>3, <2>4
  <1>5. MessagesMatchLeases'
    <2>1. \A m \in outbox : m.vehicle \in Vehicles /\ m.fencing \in Nat
      BY DEF TypeOK, Messages
    <2>2. \A u \in Vehicles : epoch[u] \in Nat /\ epoch[u] <= epoch'[u]
      BY <1>e DEF TypeOK
    <2>3. \A m \in outbox : m.fencing <= epoch'[m.vehicle]
      BY <2>1, <2>2, <1>e DEF MessagesMatchLeases
    <2>4. \A l \in LeaseIds : leases[l].vehicle = v => leases[l].fencing # epoch[v] + 1
      <3> SUFFICES ASSUME NEW l \in LeaseIds, leases[l].vehicle = v
                   PROVE  leases[l].fencing # epoch[v] + 1
        OBVIOUS
      <3>1. Issued(l)
        BY AuthorityConstants DEF RowsNamed, NoRow
      <3>2. leases[l].fencing <= epoch[v] /\ leases[l].fencing \in Nat
        BY <3>1, <1>e, <1>r DEF EndedLeasesAreFenced, Rows
      <3> QED BY <3>2, <1>e
    <2>5. \A m \in outbox' : m \in outbox \/ m = Revocation(v, i, epoch[v] + 1)
      OBVIOUS
    <2>6. ASSUME NEW m \in outbox
          PROVE  /\ m.action = "grant" =>
                      /\ m.lease \in LeaseIds /\ Issued(m.lease)'
                      /\ leases'[m.lease].vehicle = m.vehicle
                      /\ leases'[m.lease].fencing = m.fencing
                      /\ m.until <= leases'[m.lease].until
                 /\ m.action = "revoke" =>
                      \A l \in LeaseIds :
                         leases'[l].vehicle = m.vehicle => leases'[l].fencing # m.fencing
      BY <1>r DEF MessagesMatchLeases
    <2>7. LET m == Revocation(v, i, epoch[v] + 1)
          IN  /\ m.fencing = epoch'[v] /\ m.vehicle = v /\ m.action = "revoke"
              /\ m.fencing = epoch[v] + 1
      BY <1>e DEF Revocation
    <2> QED BY <2>2, <2>3, <2>4, <2>5, <2>6, <2>7, <1>e, <1>r DEF MessagesMatchLeases
  <1>6. RenewalsRecorded'
    BY <1>r DEF RenewalsRecorded, TypeOK, Renewals
  <1>7. Deadlines'
    BY <1>r DEF Deadlines, Fit
  <1> QED BY <1>1, <1>2, <1>3, <1>4, <1>5, <1>6, <1>7

(* Release: the driver's lease is the only active one of its vehicle.      *)
LEMMA ReleaseIInv ==
    ASSUME IInv, NEW d \in Drivers, NEW l \in LeaseIds, Release(d, l)
    PROVE  IInv'
  <1>1. /\ Active(l) /\ leases' = [leases EXCEPT ![l].state = "released"]
        /\ epoch' = [epoch EXCEPT ![leases[l].vehicle] = @ + 1]
        /\ outbox' = outbox \cup
              {Revocation(leases[l].vehicle, l, epoch[leases[l].vehicle] + 1)}
        /\ UNCHANGED <<now, renewals, standing, lastFit>>
    BY DEF Release
  <1>2. leases[l].vehicle \in Vehicles
    BY <1>1 DEF IInv, RowsNamed, Issued, Active
  <1>3. /\ leases' \in [LeaseIds -> Rows]
        /\ Ends(leases[l], leases'[l])
        /\ \A k \in LeaseIds : k # l => leases'[k] = leases[k]
    BY <1>1 DEF IInv, TypeOK, Rows, LeaseStates, Ends
  <1>4. \A k \in LeaseIds :
          Active(k) /\ leases[k].vehicle = leases[l].vehicle => k = l
    BY <1>1 DEF IInv, OneActive
  <1>5. \A k \in LeaseIds :
          IF Active(k) /\ leases[k].vehicle = leases[l].vehicle
          THEN Ends(leases[k], leases'[k])
          ELSE leases'[k] = leases[k]
    BY <1>1, <1>3, <1>4
  <1> QED BY <1>1, <1>2, <1>3, <1>5, EndEpochIInv

(* EmergencyStop ends whatever is active on the vehicle.                   *)
LEMMA EmergencyStopIInv ==
    ASSUME IInv, NEW v \in Vehicles, EmergencyStop(v)
    PROVE  IInv'
  <1>1. /\ epoch' = [epoch EXCEPT ![v] = @ + 1]
        /\ outbox' = outbox \cup {Revocation(v, NoId, epoch[v] + 1)}
        /\ UNCHANGED <<now, renewals, standing, lastFit>>
        /\ leases' = [l \in LeaseIds |->
              IF Active(l) /\ leases[l].vehicle = v
              THEN [leases[l] EXCEPT !.state = "revoked"]
              ELSE leases[l]]
    BY DEF EmergencyStop
  <1>2. leases' \in [LeaseIds -> Rows]
    BY <1>1 DEF IInv, TypeOK, Rows, LeaseStates
  <1>3. \A k \in LeaseIds :
          IF Active(k) /\ leases[k].vehicle = v
          THEN Ends(leases[k], leases'[k])
          ELSE leases'[k] = leases[k]
    BY <1>1 DEF Ends
  <1> QED BY <1>1, <1>2, <1>3, EndEpochIInv

(* Request: the overdue leases of the vehicle are ended, so that the new   *)
(* one is the only active one of its vehicle and of its driver.            *)
LEMMA RequestIInv ==
    ASSUME IInv, NEW d \in Drivers, NEW v \in Vehicles, NEW l \in LeaseIds,
           Request(d, v, l)
    PROVE  IInv'
  <1> USE DEF IInv
  <1> DEFINE rows == ExpireOverdue(v)
             row  == [vehicle |-> v, driver |-> d, fencing |-> epoch[v] + 1,
                      until |-> now + LeaseTTL, state |-> "active"]
  <1>1. /\ standing[v] = Needs /\ IndexesAllow(rows, d, v) /\ ~ Issued(l)
        /\ leases' = [rows EXCEPT ![l] = row]
        /\ epoch' = [epoch EXCEPT ![v] = @ + 1]
        /\ outbox' = outbox \cup {Grant(l, row)}
        /\ UNCHANGED <<now, renewals, standing, lastFit>>
    BY DEF Request
  <1>n. /\ LeaseTTL \in Nat /\ now \in Nat /\ epoch[v] \in Nat
        /\ epoch' \in [Vehicles -> Nat] /\ epoch'[v] = epoch[v] + 1
        /\ \A u \in Vehicles : u # v => epoch'[u] = epoch[u]
    BY <1>1, Numbers DEF TypeOK
  <1>w. /\ row \in Rows /\ row.vehicle = v /\ row.driver = d
        /\ row.fencing = epoch[v] + 1 /\ row.until = now + LeaseTTL
        /\ row.state = "active"
    BY <1>n DEF Rows, LeaseStates
  <1>x. \A k \in LeaseIds :
          /\ leases[k] \in Rows
          /\ rows[k] = leases[k] \/ (Active(k) /\ Ends(leases[k], rows[k]))
          /\ (Active(k) /\ rows[k] # leases[k]) => leases[k].vehicle = v
    BY DEF ExpireOverdue, Ends, TypeOK
  <1>y. rows \in [LeaseIds -> Rows]
    BY DEF ExpireOverdue, TypeOK, Rows, LeaseStates
  <1>l. leases' \in [LeaseIds -> Rows] /\ leases'[l] = row
        /\ \A k \in LeaseIds : k # l => leases'[k] = rows[k]
    BY <1>1, <1>w, <1>y
  <1>r. \A k \in LeaseIds : k # l =>
          /\ leases'[k].vehicle = leases[k].vehicle
          /\ leases'[k].driver = leases[k].driver
          /\ leases'[k].fencing = leases[k].fencing
          /\ leases'[k].until = leases[k].until
          /\ Active(k)' => Active(k) /\ leases'[k] = leases[k]
          /\ Active(k)' => leases[k].vehicle # v /\ leases[k].driver # d
          /\ Issued(k)' <=> Issued(k)
          /\ ~ Issued(k) => leases'[k] = leases[k]
          /\ (Issued(k) /\ ~ Active(k)') => (~ Active(k) \/ leases[k].vehicle = v)
    BY <1>1, <1>x, <1>l, EndsKeeps DEF Active, Issued, IndexesAllow
  <1>2. TypeOK'
    <2>1. Grant(l, row) \in Messages
      BY <1>n, <1>w DEF Grant, Messages
    <2> QED BY <1>1, <1>n, <1>l, <2>1 DEF TypeOK
  <1>3. RowsNamed'
    BY <1>w, <1>l, <1>r DEF RowsNamed, Issued
  <1>4. OneActive'
    BY <1>w, <1>l, <1>r DEF OneActive, Active
  <1>5. EndedLeasesAreFenced'
    <2> SUFFICES ASSUME NEW k \in LeaseIds, Issued(k)'
                 PROVE  IF Active(k)' THEN leases'[k].fencing = epoch'[leases'[k].vehicle]
                                      ELSE leases'[k].fencing < epoch'[leases'[k].vehicle]
      BY DEF EndedLeasesAreFenced
    <2>1. CASE k = l
      BY <2>1, <1>w, <1>l, <1>n DEF Active
    <2>2. CASE k # l
      <3>1. leases[k].vehicle \in Vehicles /\ leases[k].fencing \in Nat /\ Issued(k)
        BY <2>2, <1>x, <1>r DEF RowsNamed, Rows
      <3>2. IF Active(k) THEN leases[k].fencing = epoch[leases[k].vehicle]
                         ELSE leases[k].fencing < epoch[leases[k].vehicle]
        BY <3>1 DEF EndedLeasesAreFenced
      <3>3. CASE leases[k].vehicle = v
        BY <2>2, <1>r, <1>n, <3>1, <3>2, <3>3
      <3>4. CASE leases[k].vehicle # v
        <4>1. Active(k)' <=> Active(k)
          BY <2>2, <3>1, <3>4, <1>r
        <4> QED BY <2>2, <1>r, <1>n, <3>1, <3>2, <3>4, <4>1
      <3> QED BY <3>3, <3>4
    <2> QED BY <2>1, <2>2
  <1>6. MessagesMatchLeases'
    <2>1. \A m \in outbox : m.vehicle \in Vehicles /\ m.fencing \in Nat
      BY DEF TypeOK, Messages
    <2>2. \A u \in Vehicles : epoch[u] \in Nat /\ epoch[u] <= epoch'[u]
      BY <1>n DEF TypeOK
    <2>3. \A m \in outbox : m.fencing <= epoch[m.vehicle] /\ m.fencing <= epoch'[m.vehicle]
      BY <2>1, <2>2, <1>n DEF MessagesMatchLeases
    <2>4. ASSUME NEW m \in outbox, m.action = "grant"
          PROVE  /\ m.lease \in LeaseIds /\ Issued(m.lease)'
                 /\ leases'[m.lease].vehicle = m.vehicle
                 /\ leases'[m.lease].fencing = m.fencing
                 /\ m.until <= leases'[m.lease].until
      <3>1. m.lease \in LeaseIds /\ Issued(m.lease)
        BY <2>4 DEF MessagesMatchLeases
      <3>2. m.lease # l
        BY <3>1, <1>1
      <3> QED BY <2>4, <3>1, <3>2, <1>r DEF MessagesMatchLeases
    <2>5. ASSUME NEW m \in outbox, m.action = "revoke", NEW k \in LeaseIds,
                 leases'[k].vehicle = m.vehicle
          PROVE  leases'[k].fencing # m.fencing
      <3>1. CASE k = l
        BY <2>1, <2>3, <2>5, <3>1, <1>l, <1>w, <1>n
      <3>2. CASE k # l
        BY <2>5, <3>2, <1>r DEF MessagesMatchLeases
      <3> QED BY <3>1, <3>2
    <2>6. LET m == Grant(l, row)
          IN  /\ m.action = "grant" /\ m.vehicle = v /\ m.lease = l
              /\ m.fencing = epoch'[v] /\ m.fencing = row.fencing
              /\ m.until = row.until
      BY <1>n, <1>w DEF Grant
    <2>7. \A m \in outbox' : m \in outbox \/ m = Grant(l, row)
      BY <1>1
    <2>8. Issued(l)' /\ row.until \in Nat
      BY <1>l, <1>w, <1>n DEF Issued
    <2> HIDE DEF row, rows
    <2> QED BY <2>2, <2>3, <2>4, <2>5, <2>6, <2>7, <2>8, <1>l, <1>w, <1>n
            DEF MessagesMatchLeases
  <1>7. RenewalsRecorded'
    BY <1>1, <1>r DEF RenewalsRecorded, TypeOK, Renewals
  <1>8. Deadlines'
    <2>1. Fit(v)
      BY <1>1 DEF Fit, Needs
    <2>2. lastFit[v] = now
      BY <2>1 DEF Deadlines
    <2>3. \A k \in LeaseIds :
            Issued(k)' => leases'[k].until <= lastFit[leases'[k].vehicle] + LeaseTTL
      <3> SUFFICES ASSUME NEW k \in LeaseIds, Issued(k)'
                   PROVE  leases'[k].until <= lastFit[leases'[k].vehicle] + LeaseTTL
        OBVIOUS
      <3>1. CASE k = l
        BY <2>2, <3>1, <1>l, <1>w, <1>n
      <3>2. CASE k # l
        BY <3>2, <1>r DEF Deadlines
      <3> QED BY <3>1, <3>2
    <2> QED BY <1>1, <2>3 DEF Deadlines, Fit
  <1> QED BY <1>2, <1>3, <1>4, <1>5, <1>6, <1>7, <1>8

(* A renewal of either kind publishes no longer validity than it stores.   *)
LEMMA RenewIInv ==
    ASSUME IInv, NEW d \in Drivers, NEW l \in LeaseIds, NEW r \in RequestIds,
           Renew(d, l, r)
    PROVE  IInv'
  <1> USE DEF IInv
  <1>1. /\ Active(l) /\ Issued(l) /\ Fit(leases[l].vehicle)
        /\ leases[l] \in Rows /\ leases[l].vehicle \in Vehicles
    BY DEF Renew, RenewAgain, RenewFirst, Renewable, Active, Issued, TypeOK, RowsNamed
  <1>n. LeaseTTL \in Nat /\ now \in Nat
    BY Numbers DEF TypeOK
  <1>2. lastFit[leases[l].vehicle] = now
    BY <1>1 DEF Deadlines
  <1>m. ASSUME NEW u \in Nat, u <= leases'[l].until, leases' \in [LeaseIds -> Rows],
               outbox' = outbox \cup {Grant(l, [leases[l] EXCEPT !.until = u])},
               \A k \in LeaseIds :
                  /\ Issued(k)' <=> Issued(k)
                  /\ leases'[k].vehicle = leases[k].vehicle
                  /\ leases'[k].fencing = leases[k].fencing
                  /\ leases'[k].until >= leases[k].until,
               epoch' = epoch
        PROVE  MessagesMatchLeases' /\ outbox' \subseteq Messages
    <2> DEFINE g == Grant(l, [leases[l] EXCEPT !.until = u])
    <2>1. /\ g.action = "grant" /\ g.vehicle = leases[l].vehicle /\ g.lease = l
          /\ g.fencing = leases[l].fencing /\ g.until = u /\ g \in Messages
      BY <1>1, <1>n DEF Grant, Rows, Messages
    <2>2. leases[l].fencing <= epoch[leases[l].vehicle]
      BY <1>1 DEF EndedLeasesAreFenced, TypeOK
    <2>3. ASSUME NEW m \in outbox, m.action = "grant"
          PROVE  /\ m.lease \in LeaseIds /\ Issued(m.lease)'
                 /\ leases'[m.lease].vehicle = m.vehicle
                 /\ leases'[m.lease].fencing = m.fencing
                 /\ m.until <= leases'[m.lease].until
      <3>1. /\ m.lease \in LeaseIds /\ Issued(m.lease)
            /\ m.until <= leases[m.lease].until /\ m.until \in Nat
            /\ leases[m.lease].until \in Nat
        BY <2>3 DEF MessagesMatchLeases, TypeOK, Messages, Rows
      <3>2. leases'[m.lease].until >= leases[m.lease].until
        BY <3>1, <1>m
      <3>3. leases'[m.lease].until \in Nat
        BY <1>m, <3>1 DEF Rows
      <3>4. m.until <= leases'[m.lease].until
        BY <3>1, <3>2, <3>3
      <3> QED BY <1>m, <2>3, <3>1, <3>4 DEF MessagesMatchLeases
    <2>4. \A m \in outbox : m.fencing <= epoch'[m.vehicle]
      BY <1>m DEF MessagesMatchLeases
    <2>5. ASSUME NEW m \in outbox, m.action = "revoke", NEW k \in LeaseIds,
                 leases'[k].vehicle = m.vehicle
          PROVE  leases'[k].fencing # m.fencing
      BY <1>m, <2>5 DEF MessagesMatchLeases
    <2>6. outbox' = outbox \cup {g}
      BY <1>m
    <2> HIDE DEF g
    <2>7. MessagesMatchLeases'
      BY <1>m, <1>1, <2>1, <2>2, <2>3, <2>4, <2>5, <2>6 DEF MessagesMatchLeases
    <2> QED BY <2>1, <2>6, <2>7 DEF TypeOK
  <1>3. CASE RenewAgain(d, l, r)
    <2>1. PICK s \in Saved(l, r) :
            outbox' = outbox \cup {Grant(l, [leases[l] EXCEPT !.until = s.until])}
      BY <1>3 DEF RenewAgain
    <2>2. UNCHANGED <<now, leases, epoch, renewals, standing, lastFit>>
      BY <1>3 DEF RenewAgain
    <2>3. s.until \in Nat /\ s.until <= leases[l].until /\ leases[l].until \in Nat
      BY <1>1 DEF Saved, RenewalsRecorded, TypeOK, Renewals, Rows
    <2>4. \A k \in LeaseIds : leases[k].until \in Nat
      BY DEF TypeOK, Rows
    <2>5. MessagesMatchLeases' /\ outbox' \subseteq Messages
      BY <1>m, <2>1, <2>2, <2>3, <2>4 DEF Issued, TypeOK
    <2> QED BY <2>2, <2>5 DEF TypeOK, RowsNamed, OneActive, EndedLeasesAreFenced,
              RenewalsRecorded, Deadlines, Issued, Active, Fit
  <1>4. CASE RenewFirst(d, l, r)
    <2> DEFINE row == [leases[l] EXCEPT !.until = now + LeaseTTL]
               new == [lease |-> l, request |-> r, until |-> row.until]
    <2>1. /\ leases' = [leases EXCEPT ![l] = row]
          /\ renewals' = renewals \cup {new}
          /\ outbox' = outbox \cup {Grant(l, row)}
          /\ UNCHANGED <<now, epoch, standing, lastFit>>
      BY <1>4 DEF RenewFirst
    <2>2. /\ row \in Rows /\ row.vehicle = leases[l].vehicle
          /\ row.driver = leases[l].driver /\ row.fencing = leases[l].fencing
          /\ row.until = now + LeaseTTL /\ row.state = "active"
      BY <1>1, <1>n DEF Rows, Active
    <2>3. leases[l].until <= now + LeaseTTL
      BY <1>1, <1>2 DEF Deadlines
    <2>4. /\ leases' \in [LeaseIds -> Rows] /\ leases'[l] = row
          /\ \A k \in LeaseIds : k # l => leases'[k] = leases[k]
      BY <2>1, <2>2 DEF TypeOK
    <2>5. /\ new \in Renewals /\ new.lease = l /\ new.until = now + LeaseTTL
      BY <2>2, <1>n DEF Renewals
    <2>6. \A k \in LeaseIds :
            /\ Issued(k)' <=> Issued(k)
            /\ Active(k)' <=> Active(k)
            /\ leases'[k].vehicle = leases[k].vehicle
            /\ leases'[k].driver = leases[k].driver
            /\ leases'[k].fencing = leases[k].fencing
            /\ leases'[k].until >= leases[k].until
            /\ ~ Issued(k) => leases'[k] = leases[k]
      BY <1>1, <1>n, <2>2, <2>3, <2>4 DEF Issued, Active, TypeOK, Rows
    <2>7. MessagesMatchLeases' /\ outbox' \subseteq Messages
      <3>1. now + LeaseTTL \in Nat /\ leases'[l].until = now + LeaseTTL
        BY <1>n, <2>2, <2>4
      <3> QED BY <1>m, <2>1, <2>4, <2>6, <3>1
    <2>8. TypeOK'
      BY <2>1, <2>4, <2>5, <2>7 DEF TypeOK
    <2>9. RowsNamed' /\ OneActive'
      BY <2>6 DEF RowsNamed, OneActive
    <2>10. EndedLeasesAreFenced'
      BY <2>1, <2>6 DEF EndedLeasesAreFenced
    <2>11. RenewalsRecorded'
      <3>1. ASSUME NEW s \in renewals
            PROVE  Issued(s.lease)' /\ s.until <= leases'[s.lease].until
        <4>1. /\ s.lease \in LeaseIds /\ s.until \in Nat /\ Issued(s.lease)
              /\ s.until <= leases[s.lease].until /\ leases[s.lease].until \in Nat
          BY DEF RenewalsRecorded, TypeOK, Renewals, Rows
        <4>2. CASE s.lease = l
          BY <4>1, <4>2, <2>2, <2>3, <2>4, <2>6, <1>n
        <4>3. CASE s.lease # l
          BY <4>1, <4>3, <2>4, <2>6
        <4> QED BY <4>2, <4>3
      <3>2. Issued(l)' /\ leases'[l].until = now + LeaseTTL
        BY <1>1, <2>2, <2>4, <2>6
      <3>3. now + LeaseTTL <= now + LeaseTTL
        BY <1>n
      <3> HIDE DEF new
      <3> QED BY <2>1, <2>5, <3>1, <3>2, <3>3 DEF RenewalsRecorded
    <2>12. Deadlines'
      <3>1. \A k \in LeaseIds :
              Issued(k)' => leases'[k].until <= lastFit[leases'[k].vehicle] + LeaseTTL
        <4> SUFFICES ASSUME NEW k \in LeaseIds, Issued(k)'
                     PROVE  leases'[k].until <= lastFit[leases'[k].vehicle] + LeaseTTL
          OBVIOUS
        <4>1. CASE k = l
          BY <4>1, <1>2, <1>n, <2>2, <2>4
        <4>2. CASE k # l
          BY <4>2, <2>4, <2>6 DEF Deadlines
        <4> QED BY <4>1, <4>2
      <3> QED BY <2>1, <3>1 DEF Deadlines, Fit
    <2> QED BY <2>7, <2>8, <2>9, <2>10, <2>11, <2>12
  <1> QED BY <1>3, <1>4 DEF Renew

(* The rest of the platform and the clock.                                 *)
LEMMA EnvironmentIInv ==
    ASSUME IInv,
           AdvanceClock \/ \E v \in Vehicles, s \in Standings : StandingChanges(v, s)
    PROVE  IInv'
  <1> USE DEF IInv
  <1>t. /\ now \in Nat /\ LeaseTTL \in Nat
        /\ \A v \in Vehicles : lastFit[v] \in Nat /\ lastFit[v] <= now
    BY Numbers DEF TypeOK, Deadlines
  <1>1. ASSUME NEW n \in Nat, now' = n, now <= n,
               NEW f \in [Vehicles -> Nat], lastFit' = f,
               \A v \in Vehicles : lastFit[v] <= f[v] /\ f[v] <= n,
               standing' \in [Vehicles -> Standings],
               \A v \in Vehicles : Fit(v)' => f[v] = n,
               UNCHANGED <<leases, epoch, renewals, outbox>>
        PROVE  IInv'
    <2>1. TypeOK'
      BY <1>1 DEF TypeOK
    <2>2. /\ RowsNamed' /\ OneActive' /\ EndedLeasesAreFenced'
          /\ MessagesMatchLeases' /\ RenewalsRecorded'
      BY <1>1 DEF RowsNamed, OneActive, EndedLeasesAreFenced, MessagesMatchLeases,
                  RenewalsRecorded, Issued, Active
    <2>3. \A l \in LeaseIds :
            Issued(l) => leases[l].until <= f[leases[l].vehicle] + LeaseTTL
      <3> SUFFICES ASSUME NEW l \in LeaseIds, Issued(l)
                   PROVE  leases[l].until <= f[leases[l].vehicle] + LeaseTTL
        OBVIOUS
      <3>1. leases[l].vehicle \in Vehicles /\ leases[l].until \in Nat
        BY DEF RowsNamed, TypeOK, Rows
      <3>2. leases[l].until <= lastFit[leases[l].vehicle] + LeaseTTL
        BY DEF Deadlines
      <3> QED BY <1>t, <1>1, <3>1, <3>2
    <2>4. Deadlines'
      BY <1>1, <2>3 DEF Deadlines, Issued
    <2> QED BY <2>1, <2>2, <2>4
  <1>2. CASE AdvanceClock
    <2> DEFINE f == [v \in Vehicles |-> IF Fit(v) THEN now + 1 ELSE lastFit[v]]
    <2>1. /\ now' = now + 1 /\ lastFit' = f
          /\ UNCHANGED <<leases, epoch, renewals, outbox, standing>>
      BY <1>2 DEF AdvanceClock
    <2>2. /\ f \in [Vehicles -> Nat] /\ now + 1 \in Nat /\ now <= now + 1
          /\ \A v \in Vehicles : lastFit[v] <= f[v] /\ f[v] <= now + 1
          /\ \A v \in Vehicles : Fit(v) => f[v] = now + 1
      BY <1>t
    <2>3. \A v \in Vehicles : Fit(v)' <=> Fit(v)
      BY <2>1 DEF Fit
    <2>4. standing' \in [Vehicles -> Standings]
      BY <2>1 DEF TypeOK
    <2> HIDE DEF f
    <2> QED BY <1>1, <2>1, <2>2, <2>3, <2>4
  <1>3. ASSUME NEW v \in Vehicles, NEW s \in Standings, StandingChanges(v, s)
        PROVE  IInv'
    <2> DEFINE f == [lastFit EXCEPT
                        ![v] = IF {"capability", "live"} \subseteq s THEN now ELSE @]
    <2>1. /\ standing' = [standing EXCEPT ![v] = s] /\ lastFit' = f
          /\ UNCHANGED <<now, leases, epoch, renewals, outbox>>
      BY <1>3 DEF StandingChanges
    <2>2. /\ f \in [Vehicles -> Nat]
          /\ \A u \in Vehicles : lastFit[u] <= f[u] /\ f[u] <= now
      BY <1>t DEF TypeOK
    <2>3. ASSUME NEW u \in Vehicles, Fit(u)' PROVE f[u] = now
      <3>1. CASE u = v
        BY <2>1, <2>3, <3>1 DEF Fit, TypeOK
      <3>2. CASE u # v
        <4>1. Fit(u)
          BY <2>1, <2>3, <3>2 DEF Fit, TypeOK
        <4> QED BY <4>1, <3>2 DEF Deadlines, TypeOK
      <3> QED BY <3>1, <3>2
    <2>4. standing' \in [Vehicles -> Standings] /\ now' = now /\ now <= now
      BY <2>1, <1>t DEF TypeOK
    <2> HIDE DEF f
    <2> QED BY <1>t, <1>1, <2>1, <2>2, <2>3, <2>4
  <1> QED BY <1>2, <1>3

(* Every transaction and every step of its environment.                    *)
LEMMA NextIInv == IInv /\ [Next]_vars => IInv'
  <1> SUFFICES ASSUME IInv, [Next]_vars PROVE IInv'
    OBVIOUS
  <1>1. CASE UNCHANGED vars
    BY <1>1 DEF vars, IInv, TypeOK, RowsNamed, OneActive, EndedLeasesAreFenced,
                MessagesMatchLeases, RenewalsRecorded, Deadlines, Issued, Active, Fit
  <1>2. CASE Next
    BY <1>2, RequestIInv, RenewIInv, ReleaseIInv, EmergencyStopIInv, EnvironmentIInv
    DEF Next
  <1> QED BY <1>1, <1>2

(* Every behaviour of the Authority satisfies the inductive invariant.     *)
THEOREM Invariance == Spec => []IInv
  BY InitIInv, NextIInv, PTL DEF Spec

(* One driver per vehicle and one vehicle per driver, at every instant.    *)
THEOREM Exclusive == Spec => []ExclusiveControl
  <1>1. IInv => ExclusiveControl
    BY DEF IInv, OneActive, ExclusiveControl, Valid
  <1> QED BY Invariance, <1>1, PTL

(* Whatever ended is below the epoch; whatever is active carries it.       *)
THEOREM Fenced == Spec => []EndedLeasesAreFenced
  <1>1. IInv => EndedLeasesAreFenced
    BY DEF IInv
  <1> QED BY Invariance, <1>1, PTL

(* No message tells a vehicle more than the tables say.                    *)
THEOREM Truthful == Spec => []MessagesMatchLeases
  <1>1. IInv => MessagesMatchLeases
    BY DEF IInv
  <1> QED BY Invariance, <1>1, PTL

(* A vehicle without standing is out of control after one lease.           *)
THEOREM StandingLimits == Spec => []StandingLimitsControl
  <1>1. IInv => StandingLimitsControl
    BY DEF IInv, Deadlines, StandingLimitsControl, Valid, Active, Issued
  <1> QED BY Invariance, <1>1, PTL

(* The rows and messages are well typed.                                   *)
THEOREM TypeCorrect == Spec => []TypeOK
  <1>1. IInv => TypeOK
    BY DEF IInv
  <1> QED BY Invariance, <1>1, PTL

(* No transaction moves an epoch or a lease backwards.  A renewal cannot   *)
(* shorten a validity because none reaches beyond one lease from now.      *)
THEOREM MovesForward == Spec => LeasesOnlyMoveForward
  <1> DEFINE Forward(l) ==
                /\ leases'[l].vehicle = leases[l].vehicle
                /\ leases'[l].driver = leases[l].driver
                /\ leases'[l].fencing = leases[l].fencing
                /\ leases'[l].until >= leases[l].until
                /\ ~ Active(l) => leases'[l] = leases[l]
             Step == /\ \A v \in Vehicles : epoch'[v] >= epoch[v]
                     /\ \A l \in LeaseIds : Issued(l) => Forward(l)
  <1>1. ASSUME IInv, Next PROVE Step
    <2> USE <1>1
    <2>t. TypeOK
      BY DEF IInv
    <2>r. \A l \in LeaseIds : leases[l] \in Rows /\ leases[l].until \in Nat
      BY <2>t DEF TypeOK, Rows
    <2>s. ASSUME NEW l \in LeaseIds, leases'[l] = leases[l] PROVE Forward(l)
      BY <2>s, <2>r
    <2>x. ASSUME NEW l \in LeaseIds, Active(l), Ends(leases[l], leases'[l])
          PROVE  Forward(l)
      BY <2>x, <2>r, EndsKeeps
    <2>e. ASSUME epoch' = epoch PROVE \A v \in Vehicles : epoch'[v] >= epoch[v]
      BY <2>e, <2>t DEF TypeOK
    <2>f. ASSUME NEW v, epoch' = [epoch EXCEPT ![v] = @ + 1]
          PROVE  \A u \in Vehicles : epoch'[u] >= epoch[u]
      BY <2>f, <2>t DEF TypeOK
    <2> HIDE DEF Forward
    <2>1. ASSUME NEW d \in Drivers, NEW v \in Vehicles, NEW l \in LeaseIds,
                 Request(d, v, l)
          PROVE  Step
      <3>1. \A k \in LeaseIds : Issued(k) => leases'[k] = ExpireOverdue(v)[k]
        BY <2>1, <2>t DEF Request, ExpireOverdue, TypeOK
      <3>2. \A k \in LeaseIds : Issued(k) => Forward(k)
        BY <3>1, <2>s, <2>x DEF ExpireOverdue, Ends
      <3> QED BY <3>2, <2>1, <2>f DEF Request
    <2>2. ASSUME NEW d \in Drivers, NEW l \in LeaseIds, NEW r \in RequestIds,
                 Renew(d, l, r)
          PROVE  Step
      <3>1. CASE RenewAgain(d, l, r)
        BY <3>1, <2>s, <2>e DEF RenewAgain
      <3>2. CASE RenewFirst(d, l, r)
        <4>1. \A k \in LeaseIds : k # l => leases'[k] = leases[k]
          BY <3>2, <2>t DEF RenewFirst, TypeOK
        <4>2. /\ Active(l) /\ Issued(l)
              /\ leases'[l] = [leases[l] EXCEPT !.until = now + LeaseTTL]
          BY <3>2, <2>t DEF RenewFirst, Renewable, Active, Issued, TypeOK
        <4>3. leases[l].vehicle \in Vehicles
          BY <4>2 DEF IInv, RowsNamed
        <4>4. lastFit[leases[l].vehicle] <= now /\ lastFit[leases[l].vehicle] \in Nat
          BY <4>3, <2>t DEF IInv, Deadlines, TypeOK
        <4>5. leases[l].until <= lastFit[leases[l].vehicle] + LeaseTTL
          BY <4>2 DEF IInv, Deadlines
        <4>6. now \in Nat /\ now + LeaseTTL >= leases[l].until
          BY <4>4, <4>5, <2>r, <2>t, Numbers DEF TypeOK
        <4>7. Forward(l)
          BY <4>2, <4>6, <2>r DEF Forward, Rows
        <4> QED BY <4>1, <4>7, <2>s, <2>e, <3>2 DEF RenewFirst
      <3> QED BY <2>2, <3>1, <3>2 DEF Renew
    <2>3. ASSUME NEW d \in Drivers, NEW l \in LeaseIds, Release(d, l) PROVE Step
      <3>1. \A k \in LeaseIds : k # l => leases'[k] = leases[k]
        BY <2>3, <2>t DEF Release, TypeOK
      <3>2. Active(l) /\ Ends(leases[l], leases'[l])
        BY <2>3, <2>t DEF Release, TypeOK, Ends
      <3> QED BY <3>1, <3>2, <2>s, <2>x, <2>f, <2>3 DEF Release
    <2>4. ASSUME NEW v \in Vehicles, EmergencyStop(v) PROVE Step
      <3>1. \A k \in LeaseIds :
               leases'[k] = leases[k] \/ (Active(k) /\ Ends(leases[k], leases'[k]))
        BY <2>4 DEF EmergencyStop, Ends
      <3> QED BY <3>1, <2>s, <2>x, <2>f, <2>4 DEF EmergencyStop
    <2>5. ASSUME UNCHANGED <<leases, epoch>> PROVE Step
      BY <2>5, <2>s, <2>e
    <2> QED BY <2>1, <2>2, <2>3, <2>4, <2>5 DEF Next, StandingChanges, AdvanceClock
  <1>2. [IInv /\ Next => Step]_vars
    BY <1>1
  <1> QED BY Invariance, <1>2, PTL DEF Spec, LeasesOnlyMoveForward

=============================================================================
