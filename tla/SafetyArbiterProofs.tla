------------------------ MODULE SafetyArbiterProofs ------------------------
(***************************************************************************)
(* Proofs about SafetyArbiter for every value of its constants.            *)
(***************************************************************************)
EXTENDS SafetyArbiter, TLAPS

(* The clock, the ticker and the lease's two deadlines.                    *)
Timing ==
    /\ nextTick <= now + TickPeriod
    /\ Armed => /\ now <= nextTick + CallTime
                /\ nextTick <= lease.lastCommand + Watchdog + TickPeriod
                /\ lease.lastCommand = heard
                /\ nextTick < lease.validUntil + TickPeriod

(* What the lease remembers about the last motion it allowed.              *)
Order ==
    /\ applied.fencing <= lastFencing
    /\ applied.fencing > 0 => applied.session \in Sessions
    /\ Armed => lease.fencing > 0
    /\ (Armed /\ applied.fencing = lease.fencing) =>
          applied.seq = lease.lastSeq /\ applied.session = lease.session

(* Only the lease of the highest token seen is in force.                   *)
HighestToken == Armed => lease.fencing = lastFencing

IInv == TypeOK /\ HighestToken /\ Timing /\ Order

(* The constants that are numbers.                                         *)
LEMMA Numbers ==
    /\ MaxFencing \in Nat /\ MaxSeq \in Nat /\ Horizon \in Nat
    /\ Watchdog \in Nat /\ TickPeriod \in Nat /\ CallTime \in Nat
  BY ArbiterConstants

(* A lease the Arbiter installs is not nil.                                *)
LEMMA InstalledIsArmed ==
    ASSUME NEW r \in Leases, r.fencing > 0
    PROVE  r # NoLease
  BY DEF NoLease, Leases

(* The nil lease is a record of the type of a lease, of fencing token 0.   *)
LEMMA NoLeaseType == NoLease \in Leases /\ NoLease.fencing = 0
  BY DEF NoLease, Leases

(* Entering minimal risk leaves the types alone and the Arbiter disarmed.  *)
LEMMA MinimalRiskStep ==
    ASSUME TypeOK, NEW reason \in Reasons, NEW f \in Nat,
           EnterMinimalRisk(reason, f)
    PROVE  /\ lease' = NoLease /\ ~ Armed' /\ minimalRisk' = reason
           /\ \E d \in Nat : now' = now + d
           /\ ecu' \in EcuActions /\ late' \subseteq ActuatorRequests
           /\ lost' \in Nat /\ astray' \in BOOLEAN
  <1>1. lease' = NoLease /\ ~ Armed' /\ minimalRisk' = reason
    BY DEF EnterMinimalRisk, Armed
  <1>2. \E d \in Nat : now' = now + d
    BY Numbers DEF EnterMinimalRisk, Elapse, TypeOK
  <1>3. PICK o \in RiskOutcomes :
          /\ ecu' = Published(o, "minimal_risk", ecu)
          /\ late' = StillHeld(o, "minimal_risk", f, late)
          /\ astray' = Unpublished(o)
    BY DEF EnterMinimalRisk
  <1>4. ecu' \in EcuActions
    BY <1>3 DEF Published, EcuActions, TypeOK
  <1>5. late' \subseteq ActuatorRequests
    BY <1>3 DEF StillHeld, ActuatorRequests, TypeOK
  <1>6. lost' \in Nat /\ astray' \in BOOLEAN
    BY <1>3 DEF EnterMinimalRisk, Higher, TypeOK, Unpublished
  <1> QED BY <1>1, <1>2, <1>4, <1>5, <1>6

(* A freshly started Arbiter (NewArbiter) satisfies the inductive invariant. *)
LEMMA InitIInv == Init => IInv
  <1> SUFFICES ASSUME Init PROVE IInv
    OBVIOUS
  <1>1. astray \in BOOLEAN
    BY DEF Init
  <1>2. TypeOK
    BY <1>1, Numbers, NoLeaseType
    DEF Init, TypeOK, Reasons, EcuActions, ActuatorRequests, NothingApplied, Motions
  <1>3. HighestToken /\ Timing /\ Order
    BY Numbers DEF Init, HighestToken, Timing, Order, Armed, NothingApplied
  <1> QED BY <1>2, <1>3 DEF IInv

(* A LeaseGrant of action grant.                                           *)
LEMMA HandleGrantIInv ==
    ASSUME IInv, NEW m \in LeaseGrants, HandleGrant(m)
    PROVE  IInv'
  <1> USE Numbers
  <1>0. /\ m.lease \in LeaseIds /\ m.fencing \in 1 .. MaxFencing
        /\ m.until \in Nat /\ m.until > now /\ FrameLoopRuns
    BY DEF LeaseGrants, Times, HandleGrant
  <1>u. UNCHANGED <<now, nextTick, ecu, late, applied, lost, astray>>
    BY DEF HandleGrant
  <1>1. CASE RenewLease(m)
    <2>1. /\ lease' \in Leases /\ lease'.fencing = lease.fencing
          /\ lease'.validUntil = m.until
          /\ lease'.lastCommand = lease.lastCommand
          /\ lease'.lastSeq = lease.lastSeq /\ lease'.session = lease.session
      BY <1>0, <1>1 DEF RenewLease, IInv, TypeOK, Leases
    <2>2. Armed /\ Armed' /\ UNCHANGED <<lastFencing, minimalRisk, heard>>
      BY <1>1, <2>1, InstalledIsArmed DEF RenewLease, Armed, IInv, Order, TypeOK
    <2>3. TypeOK'
      BY <1>u, <2>1, <2>2 DEF IInv, TypeOK
    <2>4. m.until >= lease.validUntil
      BY <1>1 DEF RenewLease
    <2>5. Timing'
      BY <1>u, <2>1, <2>2, <2>4, <1>0 DEF IInv, Timing, TypeOK, Leases
    <2>6. HighestToken' /\ Order'
      BY <1>u, <2>1, <2>2 DEF IInv, HighestToken, Order
    <2> QED BY <2>3, <2>5, <2>6 DEF IInv
  <1>2. CASE InstallLease(m)
    <2>1. /\ lease' \in Leases /\ lease'.fencing = m.fencing
          /\ lease'.validUntil = m.until /\ lease'.lastCommand = now
          /\ lease'.lastSeq = 0 /\ lease'.session = NoId
          /\ lastFencing' = m.fencing /\ minimalRisk' = NoRisk /\ heard' = now
      BY <1>0, <1>2 DEF InstallLease, IInv, TypeOK, Leases
    <2>2. Armed' /\ m.fencing > lastFencing
      BY <1>0, <1>2, <2>1, InstalledIsArmed DEF InstallLease, Armed
    <2>3. TypeOK'
      BY <1>0, <1>u, <2>1 DEF IInv, TypeOK, Reasons
    <2>4. Timing'
      BY <1>0, <1>u, <2>1, <2>2 DEF IInv, Timing, TypeOK, FrameLoopRuns
    <2>5. HighestToken'
      BY <2>1, <2>2 DEF HighestToken
    <2>6. Order'
      BY <1>0, <1>u, <2>1, <2>2 DEF IInv, Order, TypeOK, Motions
    <2> QED BY <2>3, <2>4, <2>5, <2>6 DEF IInv
  <1> QED BY <1>1, <1>2 DEF HandleGrant

(* Any step that disarms the Arbiter.                                      *)
LEMMA DisarmIInv ==
    ASSUME IInv, TypeOK', lease' = NoLease,
           lastFencing' >= lastFencing,
           applied'.fencing <= lastFencing',
           applied'.fencing > 0 => applied'.session \in Sessions,
           nextTick' <= now' + TickPeriod
    PROVE  IInv'
  <1>1. ~ Armed'
    BY DEF Armed
  <1>2. HighestToken' /\ Timing' /\ Order'
    BY <1>1 DEF HighestToken, Timing, Order
  <1> QED BY <1>2 DEF IInv

(* A LeaseGrant of action revoke.                                          *)
LEMMA HandleRevokeIInv ==
    ASSUME IInv, NEW m \in Revocations, HandleRevoke(m)
    PROVE  IInv'
  <1> USE Numbers
  <1>1. /\ m.fencing \in Nat /\ m.fencing >= lastFencing
        /\ lastFencing' = m.fencing /\ UNCHANGED <<nextTick, applied, heard>>
        /\ EnterMinimalRisk("lease_revoked", m.fencing)
    BY DEF Revocations, HandleRevoke
  <1>2. TypeOK /\ "lease_revoked" \in Reasons
    BY DEF IInv, Reasons
  <1>3. /\ lease' = NoLease /\ minimalRisk' = "lease_revoked"
        /\ \E d \in Nat : now' = now + d
        /\ ecu' \in EcuActions /\ late' \subseteq ActuatorRequests
        /\ lost' \in Nat /\ astray' \in BOOLEAN
    BY <1>1, <1>2, MinimalRiskStep
  <1>d. PICK d \in Nat : now' = now + d
    BY <1>3
  <1>4. TypeOK'
    BY <1>1, <1>2, <1>3, <1>d, NoLeaseType DEF TypeOK
  <1>5. nextTick' <= now' + TickPeriod
    BY <1>1, <1>d, <1>2 DEF IInv, Timing, TypeOK
  <1>6. applied'.fencing <= lastFencing'
        /\ (applied'.fencing > 0 => applied'.session \in Sessions)
    BY <1>1, <1>2 DEF IInv, Order, TypeOK, Motions
  <1>7. lastFencing' >= lastFencing
    BY <1>1
  <1> QED BY <1>3, <1>4, <1>5, <1>6, <1>7, DisarmIInv

(* Steps that only enter minimal risk from an armed state.                 *)
LEMMA LoseLeaseIInv ==
    ASSUME IInv, NEW reason \in Reasons,
           EnterMinimalRisk(reason, lease.fencing),
           UNCHANGED <<lastFencing, applied, heard>>,
           NEW n \in Nat, n <= now + TickPeriod, nextTick' = n
    PROVE  IInv'
  <1> USE Numbers
  <1>1. TypeOK /\ lease.fencing \in Nat
    BY DEF IInv, TypeOK, Leases
  <1>2. /\ lease' = NoLease /\ minimalRisk' = reason
        /\ \E d \in Nat : now' = now + d
        /\ ecu' \in EcuActions /\ late' \subseteq ActuatorRequests
        /\ lost' \in Nat /\ astray' \in BOOLEAN
    BY <1>1, MinimalRiskStep
  <1>d. PICK d \in Nat : now' = now + d
    BY <1>2
  <1>3. TypeOK'
    BY <1>1, <1>2, <1>d, NoLeaseType DEF TypeOK
  <1>4. nextTick' <= now' + TickPeriod
    BY <1>1, <1>d DEF TypeOK
  <1>5. /\ applied'.fencing <= lastFencing' /\ lastFencing' >= lastFencing
        /\ (applied'.fencing > 0 => applied'.session \in Sessions)
    BY <1>1 DEF IInv, Order, TypeOK
  <1> QED BY <1>2, <1>3, <1>4, <1>5, DisarmIInv

(* A motion command the actuator confirms.                                 *)
LEMMA ApplyMotionIInv ==
    ASSUME IInv, NEW c \in ControlCommands, ApplyMotion(c)
    PROVE  IInv'
  <1> USE Numbers
  <1>1. /\ c.session \in Sessions /\ c.seq \in Nat /\ c.fencing \in Nat
        /\ c.fencing = lease.fencing /\ Armed /\ FrameLoopRuns
        /\ lease.validUntil > now
        /\ UNCHANGED <<nextTick, lastFencing, minimalRisk, late, lost, astray>>
        /\ heard' = now
        /\ ecu' = "motion"
    BY DEF ControlCommands, ApplyMotion, Admissible, InSession
  <1>2. /\ lease' \in Leases /\ lease'.fencing = lease.fencing
        /\ lease'.validUntil = lease.validUntil /\ lease'.lastCommand = now
        /\ lease'.lastSeq = c.seq /\ lease'.session = c.session
    BY <1>1 DEF ApplyMotion, IInv, TypeOK, Leases
  <1>3. PICK d \in Nat : d <= CallTime /\ now' = now + d
    BY DEF ApplyMotion, Elapse, IInv, TypeOK
  <1>4. Armed' /\ lease.fencing > 0
    BY <1>1, <1>2, InstalledIsArmed DEF IInv, Order, Armed
  <1>5. /\ applied' \in Motions /\ applied'.fencing = c.fencing
        /\ applied'.seq = c.seq /\ applied'.session = c.session
    BY <1>1 DEF ApplyMotion, Applying, Motions, IInv, TypeOK
  <1>6. TypeOK'
    BY <1>1, <1>2, <1>3, <1>5 DEF IInv, TypeOK, EcuActions
  <1>7. Timing'
    BY <1>1, <1>2, <1>3, <1>4 DEF IInv, Timing, TypeOK, FrameLoopRuns, Leases
  <1>8. HighestToken'
    BY <1>1, <1>2, <1>4 DEF IInv, HighestToken
  <1>9. Order'
    BY <1>1, <1>2, <1>4, <1>5 DEF IInv, Order, HighestToken, TypeOK
  <1> QED BY <1>6, <1>7, <1>8, <1>9 DEF IInv

(* A motion command the actuator fails.                                    *)
LEMMA MotionFailsIInv ==
    ASSUME IInv, NEW c \in ControlCommands, MotionFails(c)
    PROVE  IInv'
  <1> USE Numbers
  <1>1. /\ c.session \in Sessions /\ c.seq \in Nat /\ c.fencing \in Nat
        /\ c.fencing = lastFencing /\ lease.fencing \in Nat
        /\ UNCHANGED <<nextTick, lastFencing, heard>>
        /\ lease' = NoLease /\ minimalRisk' = "actuator_failure"
    BY DEF ControlCommands, MotionFails, Admissible, IInv, TypeOK, Leases
  <1>2. PICK d \in Nat : now' = now + d
    BY DEF MotionFails, Elapse, IInv, TypeOK
  <1>3. /\ applied' \in Motions /\ applied'.fencing = c.fencing
        /\ applied'.seq = c.seq /\ applied'.session = c.session
        /\ lost' \in Nat
    BY <1>1 DEF MotionFails, Applying, Higher, Motions, IInv, TypeOK
  <1>4. PICK o \in MotionOutcomes, r \in RiskOutcomes :
          /\ ecu' = Published(r, "minimal_risk", Published(o, "motion", ecu))
          /\ late' = StillHeld(r, "minimal_risk", lease.fencing,
                               StillHeld(o, "motion", lease.fencing, late))
          /\ astray' = Unpublished(r)
    BY DEF MotionFails
  <1>5. /\ ecu' \in EcuActions /\ late' \subseteq ActuatorRequests
        /\ astray' \in BOOLEAN
    BY <1>1, <1>4 DEF Unpublished, Published, StillHeld, EcuActions, ActuatorRequests, IInv, TypeOK
  <1>6. TypeOK'
    BY <1>1, <1>2, <1>3, <1>5, NoLeaseType DEF IInv, TypeOK, Reasons
  <1>7. nextTick' <= now' + TickPeriod
    BY <1>1, <1>2 DEF IInv, Timing, TypeOK
  <1>8. /\ applied'.fencing <= lastFencing' /\ lastFencing' >= lastFencing
        /\ (applied'.fencing > 0 => applied'.session \in Sessions)
    BY <1>1, <1>3 DEF IInv, TypeOK
  <1> QED BY <1>1, <1>6, <1>7, <1>8, DisarmIInv

(* A tick of the watchdog, healthy or not.                                 *)
LEMMA TickIInv ==
    ASSUME IInv, Tick
    PROVE  IInv'
  <1> USE Numbers
  <1>1. /\ now >= nextTick /\ nextTick' = nextTick + TickPeriod
        /\ UNCHANGED <<lastFencing, applied, heard>>
    BY DEF Tick
  <1>2. nextTick + TickPeriod \in Nat /\ nextTick + TickPeriod <= now + TickPeriod
    BY <1>1 DEF IInv, TypeOK
  <1>3. CASE TickHealthy
    <2>1. UNCHANGED <<now, lease, minimalRisk, ecu, late, lost, astray>>
      BY <1>3 DEF TickHealthy
    <2>2. TypeOK' /\ HighestToken' /\ Order'
      BY <1>1, <1>2, <2>1
      DEF IInv, TypeOK, HighestToken, Order, Armed
    <2>3. Timing'
      BY <1>1, <1>2, <1>3, <2>1
      DEF IInv, TypeOK, Timing, Armed, TickHealthy, WatchdogExpired, Leases
    <2> QED BY <2>2, <2>3 DEF IInv
  <1>4. CASE TickLeaseExpired
    <2>1. EnterMinimalRisk("lease_expired", lease.fencing)
          /\ "lease_expired" \in Reasons
      BY <1>4 DEF TickLeaseExpired, Reasons
    <2> QED BY <1>1, <1>2, <2>1, LoseLeaseIInv
  <1>5. CASE TickControlLost
    <2>1. EnterMinimalRisk("control_watchdog_timeout", lease.fencing)
          /\ "control_watchdog_timeout" \in Reasons
      BY <1>5 DEF TickControlLost, Reasons
    <2> QED BY <1>1, <1>2, <2>1, LoseLeaseIInv
  <1> QED BY <1>3, <1>4, <1>5 DEF Tick

(* HandleProtoCommand, in each of its outcomes.                            *)
LEMMA HandleCommandIInv ==
    ASSUME IInv, NEW c \in ControlCommands, HandleCommand(c)
    PROVE  IInv'
  <1>0. nextTick \in Nat /\ nextTick <= now + TickPeriod
    BY DEF IInv, TypeOK, Timing
  <1>1. CASE CommandFindsLeaseExpired(c)
    <2>1. /\ EnterMinimalRisk("lease_expired", lease.fencing)
          /\ "lease_expired" \in Reasons
          /\ UNCHANGED <<nextTick, lastFencing, applied, heard>>
      BY <1>1 DEF CommandFindsLeaseExpired, Reasons
    <2> QED BY <1>0, <2>1, LoseLeaseIInv
  <1>2. CASE ApplyMotion(c)
    BY <1>2, ApplyMotionIInv
  <1>3. CASE MotionFails(c)
    BY <1>3, MotionFailsIInv
  <1>4. CASE CommandMinimalRisk(c)
    <2>1. /\ EnterMinimalRisk("commanded", lease.fencing)
          /\ "commanded" \in Reasons
          /\ UNCHANGED <<nextTick, lastFencing, applied, heard>>
      BY <1>4 DEF CommandMinimalRisk, Reasons
    <2> QED BY <1>0, <2>1, LoseLeaseIInv
  <1> QED BY <1>1, <1>2, <1>3, <1>4 DEF HandleCommand

(* The clock, a late publication by the adapter and a restart.             *)
LEMMA EnvironmentIInv ==
    ASSUME IInv, AdvanceClock \/ (\E r \in late : LatePublish(r)) \/ Restart
    PROVE  IInv'
  <1> USE Numbers
  <1>1. CASE AdvanceClock
    <2>1. /\ now < nextTick /\ now' = now + 1
          /\ UNCHANGED <<nextTick, lastFencing, lease, minimalRisk, ecu, late,
                         applied, heard, lost, astray>>
      BY <1>1 DEF AdvanceClock
    <2>2. TypeOK' /\ HighestToken' /\ Order'
      BY <2>1 DEF IInv, TypeOK, HighestToken, Order, Armed
    <2>3. Timing'
      BY <2>1 DEF IInv, Timing, TypeOK, Armed
    <2> QED BY <2>2, <2>3 DEF IInv
  <1>2. ASSUME NEW r \in late, LatePublish(r) PROVE IInv'
    <2>1. /\ late' = late \ {r} /\ ecu' = r.kind
          /\ astray' = (r.kind = "motion")
          /\ UNCHANGED <<now, nextTick, lastFencing, lease, minimalRisk, applied,
                         heard, lost>>
      BY <1>2 DEF LatePublish
    <2>2. r \in ActuatorRequests
      BY DEF IInv, TypeOK
    <2>3. TypeOK'
      BY <2>1, <2>2 DEF IInv, TypeOK, ActuatorRequests, EcuActions
    <2>4. HighestToken' /\ Timing' /\ Order'
      BY <2>1 DEF IInv, HighestToken, Timing, Order, Armed
    <2> QED BY <2>3, <2>4 DEF IInv
  <1>3. CASE Restart
    <2>1. /\ lastFencing' = 0 /\ lease' = NoLease /\ minimalRisk' = NoRisk
          /\ applied' = NothingApplied /\ nextTick' = now + TickPeriod
          /\ lost' = 0 /\ astray' = TRUE
          /\ UNCHANGED <<now, ecu, late, heard>>
      BY <1>3 DEF Restart
    <2>2. TypeOK'
      BY <2>1, NoLeaseType DEF IInv, TypeOK, Reasons, NothingApplied, Motions
    <2>3. HighestToken' /\ Timing' /\ Order'
      BY <2>1
      DEF IInv, TypeOK, HighestToken, Timing, Order, Armed, NothingApplied
    <2> QED BY <2>2, <2>3 DEF IInv
  <1> QED BY <1>1, <1>2, <1>3

(* Every step of the Arbiter and of its environment.                       *)
LEMMA NextIInv == IInv /\ [Next]_vars => IInv'
  <1> SUFFICES ASSUME IInv, [Next]_vars PROVE IInv'
    OBVIOUS
  <1>1. CASE \/ \E m \in LeaseGrants : HandleGrant(m)
             \/ \E m \in Revocations : HandleRevoke(m)
    BY <1>1, HandleGrantIInv, HandleRevokeIInv
  <1>2. CASE \E c \in ControlCommands : HandleCommand(c)
    BY <1>2, HandleCommandIInv
  <1>3. CASE Tick
    BY <1>3, TickIInv
  <1>4. CASE AdvanceClock \/ (\E r \in late : LatePublish(r)) \/ Restart
    BY <1>4, EnvironmentIInv
  <1>5. CASE UNCHANGED vars
    BY <1>5 DEF vars, IInv, TypeOK, HighestToken, Timing, Order, Armed
  <1> QED BY <1>1, <1>2, <1>3, <1>4, <1>5 DEF Next

(* Every behaviour of the Arbiter satisfies the inductive invariant.       *)
THEOREM Invariance == Spec => []IInv
  BY InitIInv, NextIInv, PTL DEF Spec

(* Type correctness of the Arbiter's fields.                               *)
THEOREM TypeCorrect == Spec => []TypeOK
  <1>1. IInv => TypeOK
    BY DEF IInv
  <1> QED BY Invariance, <1>1, PTL

(* The watchdog and the lease's validity end control within one tick and   *)
(* one actuator call of their deadlines.                                   *)
THEOREM EndsOnTime == Spec => []ControlEndsOnTime
  <1>1. IInv => ControlEndsOnTime
    BY Numbers DEF IInv, TypeOK, Leases, Timing, ControlEndsOnTime
  <1> QED BY Invariance, <1>1, PTL

-----------------------------------------------------------------------------
(* A motion that reaches the actuator is newer than the last one.          *)
LEMMA MotionIsNewer ==
    ASSUME IInv, NEW c \in ControlCommands, ApplyMotion(c) \/ MotionFails(c)
    PROVE  /\ Armed /\ c.fencing = lease.fencing /\ lease.fencing > 0
           /\ applied' = Applying(c, applied)
           /\ applied.fencing <= lease.fencing
           /\ applied.fencing = lease.fencing =>
                 c.seq > applied.seq /\ c.session = applied.session
  <1>1. /\ Armed /\ c.fencing = lease.fencing /\ c.fencing = lastFencing
        /\ lease.session \in {NoId, c.session} /\ c.seq > lease.lastSeq
        /\ applied' = Applying(c, applied)
    BY DEF ApplyMotion, MotionFails, Admissible, InSession
  <1>2. lease.fencing > 0 /\ applied.fencing <= lease.fencing
    BY <1>1 DEF IInv, Order
  <1>3. ASSUME applied.fencing = lease.fencing
        PROVE  c.seq > applied.seq /\ c.session = applied.session
    <2>1. /\ applied.seq = lease.lastSeq /\ applied.session = lease.session
          /\ applied.session \in Sessions
      BY <1>1, <1>2, <1>3 DEF IInv, Order
    <2>2. applied.session # NoId
      BY <2>1, ArbiterConstants
    <2> QED BY <1>1, <2>1, <2>2
  <1> QED BY <1>1, <1>2, <1>3

(* The actions that hand no motion to the actuator.                        *)
LEMMA OtherStepsApplyNothing ==
    ASSUME [Next]_vars, applied' # applied
    PROVE  \/ \E c \in ControlCommands : ApplyMotion(c) \/ MotionFails(c)
           \/ Restart
  BY DEF Next, vars, HandleGrant, HandleRevoke, HandleCommand, Tick,
         CommandFindsLeaseExpired, CommandMinimalRisk, AdvanceClock, LatePublish

(* Motions reach the actuator in order, whatever the network duplicates,   *)
(* reorders or replays.                                                    *)
THEOREM InOrder == Spec => MotionInOrder
  <1>1. ASSUME IInv, [Next]_vars
        PROVE  [applied' # applied => Newer(applied', applied) \/ Restart]_vars
    <2> SUFFICES ASSUME applied' # applied, ~ Restart
                 PROVE  Newer(applied', applied)
      OBVIOUS
    <2>1. PICK c \in ControlCommands : ApplyMotion(c) \/ MotionFails(c)
      BY <1>1, OtherStepsApplyNothing
    <2>2. /\ applied' = Applying(c, applied)
          /\ c.fencing = lease.fencing /\ applied.fencing <= lease.fencing
          /\ applied.fencing = lease.fencing =>
                c.seq > applied.seq /\ c.session = applied.session
      BY <1>1, <2>1, MotionIsNewer
    <2>3. lease.fencing \in Nat /\ applied.fencing \in Nat
      BY <1>1 DEF IInv, TypeOK, Leases, Motions
    <2> QED BY <2>2, <2>3 DEF Newer, Applying
  <1> QED BY Invariance, <1>1, PTL DEF Spec, MotionInOrder

-----------------------------------------------------------------------------
(* Every step of the Arbiter is a step of the abstract promise.            *)
LEMMA StepImplements ==
    ASSUME IInv, IInv', [Next]_vars
    PROVE  [Promise!ANext]_(Promise!avars)
  <1> USE DEF Promise!ANext, Promise!avars
  <1>t. lease.fencing \in Nat /\ lastFencing \in Nat /\ applied \in Motions
    BY DEF IInv, TypeOK, Leases
  <1>0. NoLease.fencing = 0
    BY NoLeaseType
  <1>1. ASSUME NEW m \in LeaseGrants, HandleGrant(m)
        PROVE  [Promise!ANext]_(Promise!avars)
    <2>1. applied' = applied
      BY <1>1 DEF HandleGrant
    <2>2. CASE RenewLease(m)
      <3>1. lastFencing' = lastFencing /\ lease'.fencing = lease.fencing
        BY <2>2 DEF RenewLease, IInv, TypeOK, Leases
      <3> QED BY <2>1, <3>1
    <2>3. CASE InstallLease(m)
      <3>1. /\ m.fencing > lastFencing
            /\ lastFencing' = m.fencing /\ lease'.fencing = m.fencing
        BY <2>3 DEF InstallLease
      <3> QED BY <2>1, <3>1 DEF Promise!Arm
    <2> QED BY <1>1, <2>2, <2>3 DEF HandleGrant
  <1>2. ASSUME NEW m \in Revocations, HandleRevoke(m)
        PROVE  Promise!Drop
    <2>1. /\ lastFencing' = m.fencing /\ m.fencing >= lastFencing
          /\ applied' = applied /\ lease' = NoLease
      BY <1>2 DEF HandleRevoke, EnterMinimalRisk
    <2> QED BY <1>0, <2>1 DEF Promise!Drop
  <1>3. ASSUME NEW c \in ControlCommands, ApplyMotion(c) \/ MotionFails(c)
        PROVE  Promise!Drive
    <2>1. /\ applied' = Applying(c, applied)
          /\ c.fencing = lease.fencing /\ lease.fencing > 0
          /\ applied.fencing = lease.fencing =>
                c.seq > applied.seq /\ c.session = applied.session
      BY <1>3, MotionIsNewer
    <2>2. lastFencing' = lastFencing /\ lease'.fencing \in {lease.fencing, 0}
      BY <1>3, <1>0 DEF ApplyMotion, MotionFails, IInv, TypeOK, Leases
    <2>3. /\ applied'.n = applied.n + 1 /\ applied'.fencing = c.fencing
          /\ applied'.seq = c.seq /\ applied'.session = c.session
      BY <2>1 DEF Applying
    <2> QED BY <1>t, <2>1, <2>2, <2>3 DEF Promise!Drive
  <1>4. ASSUME NEW c \in ControlCommands,
               CommandFindsLeaseExpired(c) \/ CommandMinimalRisk(c)
        PROVE  Promise!Drop
    <2>1. lastFencing' = lastFencing /\ applied' = applied /\ lease' = NoLease
      BY <1>4 DEF CommandFindsLeaseExpired, CommandMinimalRisk, EnterMinimalRisk
    <2> QED BY <1>t, <1>0, <2>1 DEF Promise!Drop
  <1>5. CASE Tick
    <2>1. lastFencing' = lastFencing /\ applied' = applied
      BY <1>5 DEF Tick
    <2>2. lease' = lease \/ lease' = NoLease
      BY <1>5 DEF Tick, TickHealthy, TickLeaseExpired, TickControlLost, EnterMinimalRisk
    <2> QED BY <1>t, <1>0, <2>1, <2>2 DEF Promise!Drop
  <1>6. CASE AdvanceClock \/ (\E r \in late : LatePublish(r)) \/ UNCHANGED vars
    <2>1. lastFencing' = lastFencing /\ applied' = applied /\ lease' = lease
      BY <1>6 DEF AdvanceClock, LatePublish, vars
    <2> QED BY <2>1
  <1>7. CASE Restart
    <2>1. /\ lastFencing' = 0 /\ lease' = NoLease
          /\ applied'.fencing = 0 /\ applied'.n = 0
      BY <1>7 DEF Restart, NothingApplied
    <2> QED BY <1>0, <2>1 DEF Promise!Reboot
  <1> QED BY <1>1, <1>2, <1>3, <1>4, <1>5, <1>6, <1>7 DEF Next, HandleCommand

(* The Arbiter implements FencedControl, for every number of leases,       *)
(* sessions and tokens, every timing and every failure of the actuator.    *)
THEOREM Refinement == Spec => ImplementsFencedControl
  <1>1. Init => Promise!AInit
    BY NoLeaseType DEF Init, Promise!AInit, NothingApplied
  <1>2. IInv /\ IInv' /\ [Next]_vars => [Promise!ANext]_(Promise!avars)
    BY StepImplements
  <1> QED BY Invariance, <1>1, <1>2, PTL DEF Spec, ImplementsFencedControl, Promise!ASpec

-----------------------------------------------------------------------------
(* The tokens lost since boot are below that of the lease in force.        *)
FinalInv == lost <= lastFencing /\ (Armed => lost < lease.fencing)

(* No step arms the Arbiter with a token lost since boot.                  *)
LEMMA FinalStep ==
    ASSUME IInv, IInv', FinalInv, [Next]_vars
    PROVE  FinalInv'
  <1>t. /\ lease.fencing \in Nat /\ lastFencing \in Nat /\ lost \in Nat
        /\ Armed => lease.fencing = lastFencing
    BY DEF IInv, TypeOK, Leases, HighestToken
  <1>1. ASSUME NEW m \in LeaseGrants, HandleGrant(m) PROVE FinalInv'
    <2>1. lost' = lost
      BY <1>1 DEF HandleGrant
    <2>2. CASE RenewLease(m)
      <3>1. Armed /\ lastFencing' = lastFencing /\ lease'.fencing = lease.fencing
        BY <2>2 DEF RenewLease, IInv, TypeOK, Leases
      <3> QED BY <1>t, <2>1, <3>1 DEF FinalInv
    <2>3. CASE InstallLease(m)
      <3>1. /\ m.fencing > lastFencing /\ m.fencing \in Nat
            /\ lastFencing' = m.fencing /\ lease'.fencing = m.fencing
        BY <2>3, Numbers DEF InstallLease, LeaseGrants
      <3> QED BY <1>t, <2>1, <3>1 DEF FinalInv
    <2> QED BY <1>1, <2>2, <2>3 DEF HandleGrant
  <1>2. ASSUME NEW m \in Revocations, HandleRevoke(m) PROVE FinalInv'
    <2>1. /\ lastFencing' = m.fencing /\ m.fencing >= lastFencing
          /\ m.fencing \in Nat /\ ~ Armed' /\ lost' = Higher(m.fencing, lost)
      BY <1>2, Numbers DEF HandleRevoke, EnterMinimalRisk, Revocations, Armed
    <2> QED BY <1>t, <2>1 DEF FinalInv, Higher
  <1>3. ASSUME NEW c \in ControlCommands, ApplyMotion(c) PROVE FinalInv'
    <2>1. /\ Armed /\ lost' = lost /\ lastFencing' = lastFencing
          /\ lease'.fencing = lease.fencing
      BY <1>3 DEF ApplyMotion, Admissible, IInv, TypeOK, Leases
    <2> QED BY <1>t, <2>1 DEF FinalInv
  <1>4. ASSUME Armed, ~ Armed', lastFencing' = lastFencing,
               lost' = Higher(lease.fencing, lost)
        PROVE  FinalInv'
    BY <1>t, <1>4 DEF FinalInv, Higher
  <1>5. ASSUME NEW c \in ControlCommands,
               CommandFindsLeaseExpired(c) \/ CommandMinimalRisk(c) \/ MotionFails(c)
        PROVE  FinalInv'
    <2>1. /\ Armed /\ ~ Armed' /\ lastFencing' = lastFencing
          /\ lost' = Higher(lease.fencing, lost)
      BY <1>5 DEF CommandFindsLeaseExpired, CommandMinimalRisk, MotionFails,
                  EnterMinimalRisk, Admissible, Armed
    <2> QED BY <1>4, <2>1
  <1>6. CASE Tick
    <2>1. lastFencing' = lastFencing
      BY <1>6 DEF Tick
    <2>2. CASE TickHealthy
      BY <2>1, <2>2 DEF TickHealthy, FinalInv, Armed
    <2>3. CASE TickLeaseExpired \/ TickControlLost
      <3>1. Armed /\ ~ Armed' /\ lost' = Higher(lease.fencing, lost)
        BY <2>3 DEF TickLeaseExpired, TickControlLost, EnterMinimalRisk, Armed
      <3> QED BY <1>4, <2>1, <3>1
    <2> QED BY <1>6, <2>2, <2>3 DEF Tick
  <1>7. CASE AdvanceClock \/ (\E r \in late : LatePublish(r)) \/ UNCHANGED vars
    BY <1>7 DEF AdvanceClock, LatePublish, vars, FinalInv, Armed
  <1>8. CASE Restart
    BY <1>8 DEF Restart, FinalInv, Armed
  <1> QED BY <1>1, <1>2, <1>3, <1>5, <1>6, <1>7, <1>8 DEF Next, HandleCommand

(* A lost lease is final as long as the process runs, whatever arrives and *)
(* whatever the actuator does.                                             *)
THEOREM LossFinal == Spec => []LossIsFinal
  <1>1. Init => FinalInv
    BY DEF Init, FinalInv, Armed
  <1>2. IInv /\ IInv' /\ FinalInv /\ [Next]_vars => FinalInv'
    BY FinalStep
  <1>3. IInv /\ FinalInv => LossIsFinal
    BY DEF IInv, TypeOK, Leases, FinalInv, LossIsFinal
  <1> QED BY Invariance, <1>1, <1>2, <1>3, PTL DEF Spec

-----------------------------------------------------------------------------
(* A minimal-risk action that is published leaves the ECU without motion.  *)
LEMMA MinimalRiskIsSafe ==
    ASSUME NEW reason, NEW f, EnterMinimalRisk(reason, f)
    PROVE  NoActuationAfterControlLoss'
  <1>1. PICK o \in RiskOutcomes :
          ecu' = Published(o, "minimal_risk", ecu) /\ astray' = Unpublished(o)
    BY DEF EnterMinimalRisk
  <1>2. o \in Outcomes
    BY ArbiterConstants
  <1> QED BY <1>1, <1>2
          DEF Outcomes, Published, Unpublished, NoActuationAfterControlLoss

(* Every step keeps the ECU without motion, or says why it may not be.     *)
LEMMA SafeEcuStep ==
    ASSUME IInv, IInv', NoActuationAfterControlLoss, [Next]_vars
    PROVE  NoActuationAfterControlLoss'
  <1>1. ASSUME NEW m \in LeaseGrants, HandleGrant(m) PROVE NoActuationAfterControlLoss'
    <2>1. ecu' = ecu /\ late' = late
      BY <1>1 DEF HandleGrant
    <2>2. lease'.fencing # 0
      <3>1. CASE RenewLease(m)
        BY <3>1 DEF RenewLease, IInv, Order, TypeOK, Leases
      <3>2. CASE InstallLease(m)
        BY <3>2, Numbers DEF InstallLease, LeaseGrants
      <3> QED BY <1>1, <3>1, <3>2 DEF HandleGrant
    <2>3. Armed'
      BY <2>2, NoLeaseType DEF Armed
    <2> QED BY <2>1, <2>3 DEF NoActuationAfterControlLoss
  <1>2. ASSUME NEW m \in Revocations, HandleRevoke(m) PROVE NoActuationAfterControlLoss'
    BY <1>2, MinimalRiskIsSafe DEF HandleRevoke
  <1>3. ASSUME NEW c \in ControlCommands, ApplyMotion(c) PROVE NoActuationAfterControlLoss'
    <2>1. late' = late /\ lease'.fencing = lease.fencing /\ lease.fencing > 0
      BY <1>3, MotionIsNewer DEF ApplyMotion, IInv, TypeOK, Leases
    <2>2. Armed'
      BY <2>1, NoLeaseType DEF Armed, IInv, TypeOK, Leases
    <2> QED BY <2>1, <2>2 DEF NoActuationAfterControlLoss
  <1>4. ASSUME NEW c \in ControlCommands, MotionFails(c) PROVE NoActuationAfterControlLoss'
    <2>1. PICK o \in MotionOutcomes, r \in RiskOutcomes :
            /\ ecu' = Published(r, "minimal_risk", Published(o, "motion", ecu))
            /\ astray' = Unpublished(r)
      BY <1>4 DEF MotionFails
    <2>2. r \in Outcomes
      BY ArbiterConstants
    <2> QED BY <2>1, <2>2
            DEF Outcomes, Published, Unpublished, NoActuationAfterControlLoss
  <1>5. ASSUME NEW c \in ControlCommands,
               CommandFindsLeaseExpired(c) \/ CommandMinimalRisk(c)
        PROVE  NoActuationAfterControlLoss'
    BY <1>5, MinimalRiskIsSafe DEF CommandFindsLeaseExpired, CommandMinimalRisk
  <1>6. CASE Tick
    <2>1. CASE TickHealthy
      BY <2>1 DEF TickHealthy, NoActuationAfterControlLoss, Armed
    <2>2. CASE TickLeaseExpired \/ TickControlLost
      BY <2>2, MinimalRiskIsSafe DEF TickLeaseExpired, TickControlLost
    <2> QED BY <1>6, <2>1, <2>2 DEF Tick
  <1>7. CASE AdvanceClock \/ UNCHANGED vars
    BY <1>7 DEF AdvanceClock, vars, NoActuationAfterControlLoss, Armed
  <1>8. ASSUME NEW r \in late, LatePublish(r) PROVE NoActuationAfterControlLoss'
    BY <1>8 DEF LatePublish, NoActuationAfterControlLoss
  <1>9. CASE Restart
    BY <1>9 DEF Restart, NoActuationAfterControlLoss
  <1> QED BY <1>1, <1>2, <1>3, <1>4, <1>5, <1>6, <1>7, <1>8, <1>9
          DEF Next, HandleCommand

(* With any actuator and any restarts: an ECU left moving without a lease  *)
(* has not been told to stop by a published request since the loss, or was *)
(* told to move by one published late, or the Arbiter has restarted.       *)
THEOREM SafeAfterLoss == Spec => []NoActuationAfterControlLoss
  <1>1. Init => NoActuationAfterControlLoss
    BY DEF Init, NoActuationAfterControlLoss
  <1>2. IInv /\ IInv' /\ NoActuationAfterControlLoss /\ [Next]_vars
        => NoActuationAfterControlLoss'
    BY SafeEcuStep
  <1> QED BY Invariance, <1>1, <1>2, PTL DEF Spec

=============================================================================
