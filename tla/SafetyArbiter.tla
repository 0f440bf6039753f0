--------------------------- MODULE SafetyArbiter ---------------------------
(***************************************************************************)
(* The vehicle's Safety Arbiter: the process that owns the actuator and    *)
(* decides, frame by frame, whether a remote command may move the car      *)
(* (vehicle/safety-arbiter), together with the actuator server of the      *)
(* ROS 1 adapter it calls (vehicle/adapters/ros1/ros1_node.py).            *)
(*                                                                         *)
(* Two goroutines share the Arbiter under one mutex: the frame loop, which *)
(* handles a LeaseGrant or a ControlCommand at a time, and the watchdog,   *)
(* which calls Tick on a ticker.  An actuator call is made with the mutex  *)
(* held and takes time; a call that times out may still be published later *)
(* by the adapter's handler thread.                                        *)
(*                                                                         *)
(* A message that fails authentication or a field check is refused before  *)
(* the mutex is taken and changes nothing, so messages here are authentic. *)
(* A refused message is a stuttering step: the guards below are the code's *)
(* early returns.                                                          *)
(***************************************************************************)
EXTENDS Integers

CONSTANTS
    LeaseIds,           \* lease identifiers issued by the Authority
    Sessions,           \* control session identifiers
    MaxFencing,         \* bound: highest fencing token of a message
    MaxSeq,             \* bound: highest command sequence number
    Horizon,            \* bound: last instant of the clock
    Watchdog,           \* cfg.Watchdog
    TickPeriod,         \* period of watchdogLoop's ticker
    MaxClockSkew,       \* cfg.MaxClockSkew, also ValidateEnvelope's two seconds
    LeaseTTL,           \* Envelope.ttl_ms of a LeaseGrant
    CommandTTL,         \* Envelope.ttl_ms of a ControlCommand
    CallTime,           \* longest time an actuator call holds the mutex
    MotionOutcomes,     \* what ApplyMotion may do
    RiskOutcomes,       \* what MinimalRisk may do
    Crashes             \* whether the process may restart

NoId == "none"

Times == 0 .. Horizon

(* "ok": published and confirmed; "lost": published, the reply is lost;    *)
(* "refused": not published, an error; "late": an error after the timeout, *)
(* and published afterwards by the adapter's handler thread.               *)
Outcomes == {"ok", "lost", "refused", "late"}

ASSUME ArbiterConstants ==
    /\ NoId \notin LeaseIds /\ NoId \notin Sessions
    /\ MaxFencing \in Nat /\ MaxSeq \in Nat /\ Horizon \in Nat
    /\ Watchdog \in Nat \ {0} /\ TickPeriod \in Nat \ {0}
    /\ MaxClockSkew \in Nat /\ LeaseTTL \in Nat /\ CommandTTL \in Nat
    /\ CallTime \in Nat
    /\ MotionOutcomes \subseteq Outcomes /\ MotionOutcomes # {}
    /\ RiskOutcomes \subseteq Outcomes /\ RiskOutcomes # {}
    /\ Crashes \in BOOLEAN

(* LeaseGrant messages of action GRANT and of action REVOKE; the latter's  *)
(* lease and validity are not looked at.                                   *)
LeaseGrants ==
    [lease : LeaseIds, fencing : 1 .. MaxFencing, until : Times, sent : Times]

Revocations == [fencing : 1 .. MaxFencing, sent : Times]

ControlCommands ==
    [lease : LeaseIds, fencing : 1 .. MaxFencing, session : Sessions,
     seq : 1 .. MaxSeq, sent : Times,
     mode : {"motion", "motion_outside_limits", "minimal_risk", "direct"}]

Leases ==
    [id : LeaseIds \cup {NoId}, fencing : Nat, validUntil : Nat,
     lastCommand : Nat, lastSeq : Nat, session : Sessions \cup {NoId}]

NoLease ==
    [id |-> NoId, fencing |-> 0, validUntil |-> 0,
     lastCommand |-> 0, lastSeq |-> 0, session |-> NoId]

(* Arbiter.minimalRisk is the empty string until a reason is latched.     *)
NoRisk == "clear"

Reasons ==
    {NoRisk, "lease_revoked", "lease_expired", "control_watchdog_timeout",
     "actuator_failure", "commanded"}

EcuActions == {"none", "motion", "minimal_risk"}

ActuatorRequests ==
    [kind : {"motion", "minimal_risk"}, fencing : Nat]

(* The last motion handed to the actuator and how many there were since    *)
(* boot: history, read by no action.                                       *)
Motions == [n : Nat, fencing : Nat, seq : Nat, session : Sessions \cup {NoId}]

NothingApplied == [n |-> 0, fencing |-> 0, seq |-> 0, session |-> NoId]

Applying(c, before) ==
    [n |-> before.n + 1, fencing |-> c.fencing, seq |-> c.seq,
     session |-> c.session]

VARIABLES
    now,            \* the vehicle's clock
    nextTick,       \* when the watchdog ticker fires next
    lastFencing,    \* Arbiter.lastFencing
    lease,          \* Arbiter.lease, NoLease for nil
    minimalRisk,    \* Arbiter.minimalRisk
    ecu,            \* the last action the adapter published to the ECU
    late,           \* actuator requests still held by a handler thread
    applied,        \* history: the last motion handed to the actuator
    heard,          \* history: when the lease was installed or last moved the car
    lost,           \* history: the highest fencing token lost since boot
    astray          \* history: the ECU may hold what the Arbiter did not want last

vars == <<now, nextTick, lastFencing, lease, minimalRisk, ecu, late,
          applied, heard, lost, astray>>

Armed == lease # NoLease

-----------------------------------------------------------------------------
(* Boot: NewArbiter, then the ticker is started.                           *)

Init ==
    /\ now = 0
    /\ nextTick = TickPeriod
    /\ lastFencing = 0
    /\ lease = NoLease
    /\ minimalRisk = NoRisk
    /\ ecu = "none"
    /\ late = {}
    /\ applied = NothingApplied
    /\ heard = 0
    /\ lost = 0
    /\ astray = FALSE

-----------------------------------------------------------------------------
(* The actuator boundary.                                                  *)

Published(outcome, kind, before) ==
    IF outcome \in {"ok", "lost"} THEN kind ELSE before

Unpublished(outcome) == outcome \in {"refused", "late"}

StillHeld(outcome, kind, fencing, before) ==
    IF outcome = "late"
    THEN before \cup {[kind |-> kind, fencing |-> fencing]}
    ELSE before

(* The mutex is held for at most CallTime per call.                        *)
Elapse(calls) ==
    \E d \in 0 .. (calls * CallTime) : now + d <= Horizon /\ now' = now + d

Higher(a, b) == IF a > b THEN a ELSE b

(* The lease is dropped, the reason recorded and MinimalRisk called, once: *)
(* its error is reported and never retried.                                *)
EnterMinimalRisk(reason, fencing) ==
    /\ lease' = NoLease
    /\ minimalRisk' = reason
    /\ \E o \in RiskOutcomes :
          /\ ecu' = Published(o, "minimal_risk", ecu)
          /\ late' = StillHeld(o, "minimal_risk", fencing, late)
          /\ astray' = Unpublished(o)
    /\ lost' = Higher(fencing, lost)
    /\ Elapse(1)

(* sync.Mutex hands over in order to a goroutine that has waited more than *)
(* a millisecond, so the frame loop does not overtake a due watchdog.      *)
FrameLoopRuns == now <= nextTick

Fresh(sent, ttl) ==
    /\ now - sent >= - MaxClockSkew
    /\ now - sent <= ttl + MaxClockSkew

-----------------------------------------------------------------------------
(* HandleProtoLease                                                        *)

(* Mutant: a renewal feeds the watchdog.                                   *)
RenewLeaseFeedsWatchdog(m) ==
    /\ m.fencing = lastFencing
    /\ Armed /\ lease.id = m.lease /\ m.until >= lease.validUntil
    /\ lease' = [lease EXCEPT !.validUntil = m.until, !.lastCommand = now]
    /\ UNCHANGED <<lastFencing, minimalRisk, heard>>

(* Mutant: a renewal starts the sequence numbers again.                    *)
RenewLeaseResetsSequence(m) ==
    /\ m.fencing = lastFencing
    /\ Armed /\ lease.id = m.lease /\ m.until >= lease.validUntil
    /\ lease' = [lease EXCEPT !.validUntil = m.until, !.lastSeq = 0]
    /\ UNCHANGED <<lastFencing, minimalRisk, heard>>

RenewLease(m) ==
    /\ m.fencing = lastFencing
    /\ Armed /\ lease.id = m.lease /\ m.until >= lease.validUntil
    /\ lease' = [lease EXCEPT !.validUntil = m.until]
    /\ UNCHANGED <<lastFencing, minimalRisk, heard>>

(* Mutant: the same fencing token re-arms after a loss.                    *)
InstallLeaseAgain(m) ==
    /\ m.fencing > lastFencing \/ (m.fencing = lastFencing /\ ~ Armed)
    /\ lastFencing' = m.fencing
    /\ lease' = [id |-> m.lease, fencing |-> m.fencing, validUntil |-> m.until,
                 lastCommand |-> now, lastSeq |-> 0, session |-> NoId]
    /\ minimalRisk' = NoRisk
    /\ heard' = now

InstallLease(m) ==
    /\ m.fencing > lastFencing
    /\ lastFencing' = m.fencing
    /\ lease' = [id |-> m.lease, fencing |-> m.fencing, validUntil |-> m.until,
                 lastCommand |-> now, lastSeq |-> 0, session |-> NoId]
    /\ minimalRisk' = NoRisk
    /\ heard' = now

HandleGrant(m) ==
    /\ FrameLoopRuns
    /\ Fresh(m.sent, LeaseTTL)
    /\ m.until > now
    /\ RenewLease(m) \/ InstallLease(m)
    /\ UNCHANGED <<now, nextTick, ecu, late, applied, lost, astray>>

HandleRevoke(m) ==
    /\ FrameLoopRuns
    /\ Fresh(m.sent, LeaseTTL)
    /\ m.fencing >= lastFencing
    /\ lastFencing' = m.fencing
    /\ EnterMinimalRisk("lease_revoked", m.fencing)
    /\ UNCHANGED <<nextTick, applied, heard>>

-----------------------------------------------------------------------------
(* HandleProtoCommand                                                      *)

(* The checks every command passes before its mode is looked at.           *)
Admissible(c) ==
    /\ FrameLoopRuns
    /\ Fresh(c.sent, CommandTTL)
    /\ Armed /\ c.lease = lease.id
    /\ c.fencing = lease.fencing /\ c.fencing = lastFencing

InSession(c) ==
    /\ lease.validUntil > now
    /\ lease.session \in {NoId, c.session}
    /\ c.seq > lease.lastSeq

CommandFindsLeaseExpired(c) ==
    /\ Admissible(c)
    /\ lease.validUntil <= now
    /\ EnterMinimalRisk("lease_expired", lease.fencing)
    /\ UNCHANGED <<nextTick, lastFencing, applied, heard>>

ApplyMotion(c) ==
    /\ Admissible(c) /\ InSession(c)
    /\ c.mode = "motion"
    /\ "ok" \in MotionOutcomes
    /\ ecu' = "motion"
    /\ lease' = [lease EXCEPT !.session = c.session, !.lastSeq = c.seq,
                              !.lastCommand = now]
    /\ applied' = Applying(c, applied)
    /\ heard' = now
    /\ Elapse(1)
    /\ UNCHANGED <<nextTick, lastFencing, minimalRisk, late, lost, astray>>

(* Mutant: the lease is dropped without a minimal-risk action.             *)
MotionFailsSilently(c) ==
    /\ Admissible(c) /\ InSession(c)
    /\ c.mode = "motion"
    /\ \E o \in MotionOutcomes \ {"ok"} :
          /\ ecu' = Published(o, "motion", ecu)
          /\ late' = StillHeld(o, "motion", lease.fencing, late)
          /\ astray' = Unpublished(o)
    /\ lease' = NoLease
    /\ minimalRisk' = "actuator_failure"
    /\ applied' = Applying(c, applied)
    /\ lost' = Higher(lease.fencing, lost)
    /\ Elapse(1)
    /\ UNCHANGED <<nextTick, lastFencing, heard>>

(* ApplyMotion returned an error: the lease is dropped and MinimalRisk is  *)
(* called, its own error ignored.                                          *)
MotionFails(c) ==
    /\ Admissible(c) /\ InSession(c)
    /\ c.mode = "motion"
    /\ \E o \in MotionOutcomes \ {"ok"}, r \in RiskOutcomes :
          /\ ecu' = Published(r, "minimal_risk", Published(o, "motion", ecu))
          /\ late' = StillHeld(r, "minimal_risk", lease.fencing,
                               StillHeld(o, "motion", lease.fencing, late))
          /\ astray' = Unpublished(r)
    /\ lease' = NoLease
    /\ minimalRisk' = "actuator_failure"
    /\ applied' = Applying(c, applied)
    /\ lost' = Higher(lease.fencing, lost)
    /\ Elapse(2)
    /\ UNCHANGED <<nextTick, lastFencing, heard>>

CommandMinimalRisk(c) ==
    /\ Admissible(c) /\ InSession(c)
    /\ c.mode = "minimal_risk"
    /\ EnterMinimalRisk("commanded", lease.fencing)
    /\ UNCHANGED <<nextTick, lastFencing, applied, heard>>

HandleCommand(c) ==
    \/ CommandFindsLeaseExpired(c)
    \/ ApplyMotion(c)
    \/ MotionFails(c)
    \/ CommandMinimalRisk(c)

-----------------------------------------------------------------------------
(* Tick, from watchdogLoop                                                 *)

WatchdogExpired == now - lease.lastCommand > Watchdog

TickHealthy ==
    /\ ~ Armed \/ (lease.validUntil > now /\ ~ WatchdogExpired)
    /\ UNCHANGED <<now, lease, minimalRisk, ecu, late, lost, astray>>

TickLeaseExpired ==
    /\ Armed /\ lease.validUntil <= now
    /\ EnterMinimalRisk("lease_expired", lease.fencing)

TickControlLost ==
    /\ Armed /\ lease.validUntil > now /\ WatchdogExpired
    /\ EnterMinimalRisk("control_watchdog_timeout", lease.fencing)

Tick ==
    /\ now >= nextTick
    /\ nextTick' = nextTick + TickPeriod
    /\ TickHealthy \/ TickLeaseExpired \/ TickControlLost
    /\ UNCHANGED <<lastFencing, applied, heard>>

-----------------------------------------------------------------------------
(* The environment: the clock, the adapter's handler threads, a restart.   *)

AdvanceClock ==
    /\ now < nextTick /\ now < Horizon
    /\ now' = now + 1
    /\ UNCHANGED <<nextTick, lastFencing, lease, minimalRisk, ecu, late,
                   applied, heard, lost, astray>>

(* ActuatorServer serves each connection in a thread of its own: a request *)
(* the Arbiter gave up on is published whenever its thread gets to run.    *)
LatePublish(r) ==
    /\ late' = late \ {r}
    /\ ecu' = r.kind
    /\ astray' = (r.kind = "motion")
    /\ UNCHANGED <<now, nextTick, lastFencing, lease, minimalRisk, applied,
                   heard, lost>>

(* The Arbiter keeps everything in memory; the ECU keeps its last action.  *)
Restart ==
    /\ Crashes
    /\ lastFencing' = 0
    /\ lease' = NoLease
    /\ minimalRisk' = NoRisk
    /\ applied' = NothingApplied
    /\ nextTick' = now + TickPeriod
    /\ lost' = 0
    /\ astray' = TRUE
    /\ UNCHANGED <<now, ecu, late, heard>>

-----------------------------------------------------------------------------
Next ==
    \/ \E m \in LeaseGrants : HandleGrant(m)
    \/ \E m \in Revocations : HandleRevoke(m)
    \/ \E c \in ControlCommands : HandleCommand(c)
    \/ Tick
    \/ AdvanceClock
    \/ \E r \in late : LatePublish(r)
    \/ Restart

Spec == Init /\ [][Next]_vars

-----------------------------------------------------------------------------
(* Properties                                                              *)

(* Every variable has the type its Go field has.                           *)
TypeOK ==
    /\ now \in Nat /\ nextTick \in Nat
    /\ lastFencing \in Nat
    /\ lease \in Leases
    /\ minimalRisk \in Reasons
    /\ ecu \in EcuActions
    /\ late \subseteq ActuatorRequests
    /\ applied \in Motions
    /\ heard \in Nat /\ lost \in Nat /\ astray \in BOOLEAN

(* Control ends on time although the watchdog shares the mutex with the    *)
(* actuator calls, and renewals do not prolong it: the Arbiter is armed    *)
(* for at most Watchdog, a tick and one actuator call after its lease was  *)
(* installed or last moved the car, and for less than a tick and a call    *)
(* past the lease's validity.                                              *)
ControlEndsOnTime ==
    Armed =>
        /\ now <= heard + Watchdog + TickPeriod + CallTime
        /\ now < lease.validUntil + TickPeriod + CallTime

(* A lost lease is final: after a revocation, an expiry, a silent control  *)
(* stream, a commanded stop or an actuator failure the Arbiter is not armed*)
(* again under that fencing token or a lower one, until the process        *)
(* restarts and forgets it ("Authority must issue a new, higher-fencing    *)
(* lease to re-arm the vehicle", arbiter.go).                              *)
LossIsFinal ==
    Armed => lease.fencing > lost

Newer(a, b) ==
    \/ a.fencing > b.fencing
    \/ a.fencing = b.fencing /\ a.seq > b.seq /\ a.session = b.session

(* Motions reach the actuator in strictly increasing order of fencing      *)
(* token, then sequence number, from one session per token, across lease   *)
(* changes, renewals and losses: no duplicate, no replay, no session       *)
(* switch.  Only a restart forgets the order.                              *)
MotionInOrder ==
    [][applied' # applied => Newer(applied', applied) \/ Restart]_vars

(* Without a lease the ECU is not left with a motion command ("It does not *)
(* preserve the previous actuation after control loss", arbiter.go), except*)
(* in the three ways the code leaves open: the minimal-risk request that   *)
(* followed the loss has not been published (its error is not retried), a  *)
(* motion that had timed out is published after it, or the process has     *)
(* restarted since.  A late minimal-risk publication ends the exception.   *)
NoActuationAfterControlLoss ==
    ~ Armed /\ ~ astray => ecu # "motion"

(* The Arbiter implements the abstract promise of FencedControl: the term  *)
(* is lastFencing, and the term in control is that of the lease.           *)
Promise ==
    INSTANCE FencedControl
    WITH term <- lastFencing, holder <- lease.fencing, motion <- applied

ImplementsFencedControl == Promise!ASpec

=============================================================================
