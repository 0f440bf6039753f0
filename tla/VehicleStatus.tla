--------------------------- MODULE VehicleStatus ---------------------------
(***************************************************************************)
(* What the platform knows of one vehicle: its registration, its Gateway,  *)
(* whether it is online and its last telemetry, in PostgreSQL and in the   *)
(* memory of the Fleet process (server/fleet/state.go, state_ext.go,       *)
(* mqtt.go, vehicle_registry.go, capabilities.go).                         *)
(*                                                                         *)
(* Each MQTT message is handled by a callback of its own, in no order      *)
(* (SetOrderMatters(false)), and QoS 1 may deliver it again.  Telemetry    *)
(* takes the vehicle's lock, copies the state in memory, commits one       *)
(* transaction and only then puts the copy in the place of the original.   *)
(* The 1 Hz sweep and the REST registration change memory without that     *)
(* lock.  Other writes go through a queue, or around it when it is full.   *)
(*                                                                         *)
(* A telemetry message stands for the values it carries.                   *)
(***************************************************************************)
EXTENDS Integers, Sequences

CONSTANTS
    Callbacks,      \* MQTT callbacks running at a time
    Declarations,   \* what a Gateway may declare of itself
    Groups,         \* organizations a vehicle may belong to
    Window,         \* onlineWindowS
    TxTime,         \* the deadline of a callback, 2 s
    MaxSessions,    \* bound: starts of the vehicle's software
    MaxSequence,    \* bound: telemetry messages of a session
    MaxEnrollments, \* bound: enrollments
    MaxJobs,        \* bound: jobs of this vehicle in the queue
    MaxFaults       \* bound: restarts and failed or unanswered writes

(* What counts in a declaration: it is well formed, its versions are those *)
(* of an entry of the compatibility matrix, and it has what that entry     *)
(* asks for.                                                               *)
Facts == {"well formed", "listed", "certificate", "modes", "tpm", "modems"}

(* No organization.                                                        *)
NoGroup == "none"

ASSUME StatusConstants ==
    /\ Declarations \subseteq SUBSET Facts
    /\ NoGroup \notin Groups
    /\ Window \in Nat /\ TxTime \in Nat
    /\ MaxSessions \in Nat /\ MaxSequence \in Nat \ {0}
    /\ MaxEnrollments \in Nat /\ MaxJobs \in Nat /\ MaxFaults \in Nat

Sessions == 1..MaxSessions

(* CapabilityDecision *)
NoCapability == [monitoring |-> FALSE, control |-> FALSE]

(* No entry of the matrix, or no certificate: nothing.  Without the modes, *)
(* TPM and modems of the entry: monitoring only.                           *)
AssessGatewayCapabilities(d) ==
    LET monitoring == {"listed", "certificate"} \subseteq d
    IN  [monitoring |-> monitoring,
         control |-> monitoring /\ {"modes", "tpm", "modems"} \subseteq d]

(* A telemetry message, or none yet.                                       *)
Samples == [session : Sessions, sequence : 1..MaxSequence]
NoSample == [session |-> 0, sequence |-> 0]
AnySample == Samples \cup {NoSample}

Lifecycles == {"registered", "offline", "online", "quarantined"}

(* Longer ago than the window is all the same.                             *)
Ages == 0..Window + 1

(* vehicleState: age is the time since lastSeen.                           *)
Memories ==
    [online : BOOLEAN, age : Ages, sample : AnySample, group : Groups \cup {NoGroup}]
NoMemory ==
    [online |-> FALSE, age |-> Window + 1, sample |-> NoSample, group |-> NoGroup]

Stages == {"idle", "admitted", "copied", "committed", "declared", "claimed"}

(* The message a callback handles; next is telemetry's private copy.       *)
Callback ==
    [stage : Stages, kind : {"telemetry", "register"},
     message : AnySample, next : Memories]

OfflineJob == [kind |-> "offline"]
RegisterJob(g) == [kind |-> "register", group |-> g]
Jobs == {OfflineJob} \cup {RegisterJob(g) : g \in Groups}

VARIABLES
    row,            \* the vehicles row and its vehicle_state
    gateway,        \* vehicle_gateways.status, or "none"
    capability,     \* vehicle_capabilities: what the last declaration allows
    enrollments,    \* gateway_enrollments, oldest first
    cursor,         \* inbound_message_cursors: telemetry of each session
    registered,     \* the same for register messages, whose sequence is 1
    declares,       \* for each start of the vehicle, what it declares
    sent,           \* telemetry sent in each session
    memory,         \* s.vehicles[id]
    work,           \* the callbacks
    regrouping,     \* the group RegisterVehicle has yet to set in memory
    queue,          \* dbCh, the jobs on this vehicle
    unanswered,     \* the last commit of telemetry got no answer
    faults

tables == <<row, gateway, capability, enrollments, cursor, registered>>
vehicle == <<declares, sent>>
vars == <<tables, vehicle, memory, work, regrouping, queue, unanswered, faults>>

Idle ==
    [stage |-> "idle", kind |-> "telemetry", message |-> NoSample, next |-> NoMemory]

(* What loadVehiclesFromDB restores: nobody is online after a start.       *)
LoadVehiclesFromDB ==
    [online |-> FALSE, age |-> Window + 1, sample |-> row.sample, group |-> row.group]

(* A vehicle that was registered and has no Gateway yet.                   *)
Init ==
    \E g \in Groups :
        /\ row = [lifecycle |-> "registered", sample |-> NoSample, group |-> g]
        /\ memory = [NoMemory EXCEPT !.group = g]
        /\ work = [c \in Callbacks |-> Idle]
        /\ gateway = "none"
        /\ capability = NoCapability
        /\ enrollments = << >>
        /\ cursor = [s \in Sessions |-> 0]
        /\ registered = {}
        /\ declares = << >>
        /\ sent = [s \in Sessions |-> 0]
        /\ regrouping = NoGroup
        /\ queue = << >>
        /\ unanswered = FALSE
        /\ faults = 0

-----------------------------------------------------------------------------
(* The vehicle                                                             *)

(* Its software starts: a new session, and one declaration of what it can. *)
Start(d) ==
    /\ Len(declares) < MaxSessions
    /\ declares' = Append(declares, d)
    /\ UNCHANGED <<tables, sent, memory, work, regrouping, queue, unanswered, faults>>

SendTelemetry ==
    /\ declares # << >> /\ sent[Len(declares)] < MaxSequence
    /\ sent' = [sent EXCEPT ![Len(declares)] = @ + 1]
    /\ UNCHANGED <<tables, declares, memory, work, regrouping, queue, unanswered, faults>>

-----------------------------------------------------------------------------
(* GatewayRegistry                                                         *)

CreateEnrollment ==
    /\ Len(enrollments) < MaxEnrollments
    /\ enrollments' = Append(enrollments, "open")
    /\ UNCHANGED <<row, gateway, capability, cursor, registered, vehicle, memory,
                   work, regrouping, queue, unanswered, faults>>

ExpireEnrollment(k) ==
    /\ enrollments[k] = "open"
    /\ enrollments' = [enrollments EXCEPT ![k] = "expired"]
    /\ UNCHANGED <<row, gateway, capability, cursor, registered, vehicle, memory,
                   work, regrouping, queue, unanswered, faults>>

(* Mutant: only the enrollment that was presented is used up.              *)
ConsumedAlone(k) == [enrollments EXCEPT ![k] = "consumed"]

Consumed(k) == [i \in DOMAIN enrollments |-> "consumed"]

(* The token of the newest enrollment that is not used up is presented.    *)
Activate(k) ==
    /\ enrollments[k] = "open"
    /\ \A i \in k + 1..Len(enrollments) : enrollments[i] = "consumed"
    /\ gateway' = "active"
    /\ enrollments' = Consumed(k)
    /\ row' = [row EXCEPT !.lifecycle = "offline"]
    /\ UNCHANGED <<capability, cursor, registered, vehicle, memory, work, regrouping,
                   queue, unanswered, faults>>

Revoke ==
    /\ gateway = "active"
    /\ gateway' = "revoked"
    /\ row' = [row EXCEPT !.lifecycle = "quarantined"]
    /\ UNCHANGED <<capability, enrollments, cursor, registered, vehicle, memory, work,
                   regrouping, queue, unanswered, faults>>

-----------------------------------------------------------------------------
(* RegisterVehicle, for a vehicle that exists: the row, then memory.  The  *)
(* vehicle's lock is not taken.                                            *)

RegisterVehicle(g) ==
    /\ regrouping = NoGroup
    /\ row' = [row EXCEPT !.group = g]
    /\ regrouping' = g
    /\ UNCHANGED <<gateway, capability, enrollments, cursor, registered, vehicle,
                   memory, work, queue, unanswered, faults>>

RegisterVehicleInMemory ==
    /\ regrouping # NoGroup
    /\ memory' = [memory EXCEPT !.group = regrouping]
    /\ regrouping' = NoGroup
    /\ UNCHANGED <<tables, vehicle, work, queue, unanswered, faults>>

-----------------------------------------------------------------------------
(* The queue of writes: dbLoop runs the jobs one after the other; a job    *)
(* that finds the queue full, with the jobs of all vehicles in it, runs at *)
(* once instead.  A job that fails is not repeated.                        *)

(* Mutant: the sweep's update does not look at the lifecycle.              *)
DoneAnyway(job) ==
    IF job.kind = "offline" THEN [row EXCEPT !.lifecycle = "offline"]
    ELSE [row EXCEPT !.group = job.group]

Done(job) ==
    IF job.kind = "register" THEN [row EXCEPT !.group = job.group]
    ELSE IF row.lifecycle = "quarantined" THEN row
    ELSE [row EXCEPT !.lifecycle = "offline"]

SubmitDB(job) ==
    \/ /\ Len(queue) < MaxJobs
       /\ queue' = Append(queue, job)
       /\ UNCHANGED row
    \/ /\ row' = Done(job)
       /\ UNCHANGED queue

DbLoop ==
    /\ queue # << >>
    /\ queue' = Tail(queue)
    /\ row' = Done(Head(queue))
    /\ UNCHANGED <<gateway, capability, enrollments, cursor, registered, vehicle,
                   memory, work, regrouping, unanswered, faults>>

DbLoopFails ==
    /\ queue # << >> /\ faults < MaxFaults
    /\ queue' = Tail(queue)
    /\ faults' = faults + 1
    /\ UNCHANGED <<tables, vehicle, memory, work, regrouping, unanswered>>

-----------------------------------------------------------------------------
(* routeMQTT                                                               *)

To(c, stage) == work' = [work EXCEPT ![c].stage = stage]
Return(c) == work' = [work EXCEPT ![c] = Idle]

(* lockVehicle                                                             *)
Locked == \E c \in Callbacks : work[c].stage \in {"copied", "committed"}

(* ValidateInbound and, for telemetry, RequireMonitoring.  A message that  *)
(* is refused leaves a dead letter and changes nothing here.               *)
ReceiveTelemetry(c, m) ==
    /\ work[c].stage = "idle"
    /\ m.sequence <= sent[m.session]
    /\ gateway = "active" /\ capability.monitoring /\ row.lifecycle # "quarantined"
    /\ work' = [work EXCEPT
          ![c] = [stage |-> "admitted", kind |-> "telemetry", message |-> m,
                  next |-> NoMemory]]
    /\ UNCHANGED <<tables, vehicle, memory, regrouping, queue, unanswered, faults>>

(* A declaration that is not well formed is refused as a whole.            *)
ReceiveRegister(c, s) ==
    /\ work[c].stage = "idle"
    /\ gateway = "active" /\ "well formed" \in declares[s]
    /\ work' = [work EXCEPT
          ![c] = [stage |-> "admitted", kind |-> "register",
                  message |-> [session |-> s, sequence |-> 1], next |-> NoMemory]]
    /\ UNCHANGED <<tables, vehicle, memory, regrouping, queue, unanswered, faults>>

(* PersistCapabilities, before the sequence is looked at.                  *)
PersistCapabilities(c) ==
    /\ work[c].stage = "admitted" /\ work[c].kind = "register"
    /\ IF gateway = "active"
       THEN LET decision == AssessGatewayCapabilities(declares[work[c].message.session])
            IN  /\ capability' = decision
                /\ IF decision.monitoring THEN To(c, "declared") ELSE Return(c)
       ELSE Return(c) /\ UNCHANGED capability
    /\ UNCHANGED <<row, gateway, enrollments, cursor, registered, vehicle, memory,
                   regrouping, queue, unanswered, faults>>

(* AcceptInboundSequence                                                   *)
ClaimRegister(c) ==
    /\ work[c].stage = "declared"
    /\ LET s == work[c].message.session
       IN  /\ registered' = registered \cup {s}
           /\ IF s \in registered THEN Return(c) ELSE To(c, "claimed")
    /\ UNCHANGED <<row, gateway, capability, enrollments, cursor, vehicle, memory,
                   regrouping, queue, unanswered, faults>>

(* The group in memory is written back to the row, sooner or later.        *)
HandleRegister(c) ==
    /\ work[c].stage = "claimed"
    /\ ~Locked
    /\ SubmitDB(RegisterJob(memory.group))
    /\ Return(c)
    /\ UNCHANGED <<gateway, capability, enrollments, cursor, registered, vehicle,
                   memory, regrouping, unanswered, faults>>

-----------------------------------------------------------------------------
(* ApplyTelemetryDurably                                                   *)

(* applySignalUpdateLocked, on a copy: the vehicle was heard of now, and   *)
(* its values are those of the message.                                    *)
Projected(m) == [memory EXCEPT !.online = TRUE, !.age = 0, !.sample = m]

(* Mutant: the signals are applied to the state in memory, not to a copy.  *)
CopyInPlace(c) ==
    /\ work[c].stage = "admitted" /\ work[c].kind = "telemetry"
    /\ ~Locked
    /\ work' = [work EXCEPT ![c].stage = "copied",
                            ![c].next = Projected(work[c].message)]
    /\ memory' = Projected(work[c].message)
    /\ UNCHANGED <<tables, vehicle, regrouping, queue, unanswered, faults>>

CopyState(c) ==
    /\ work[c].stage = "admitted" /\ work[c].kind = "telemetry"
    /\ ~Locked
    /\ work' = [work EXCEPT ![c].stage = "copied",
                            ![c].next = Projected(work[c].message)]
    /\ UNCHANGED <<tables, vehicle, memory, regrouping, queue, unanswered, faults>>

(* Mutant: only a sequence that was just accepted is refused.              *)
AcceptedUnlessRepeated(m) == cursor[m.session] # m.sequence

(* AcceptInboundSequenceTx: only a higher sequence of the session passes.  *)
Accepted(m) == cursor[m.session] < m.sequence

(* persistTelemetryTx, with the cursor in the same transaction.            *)
PersistTelemetry(m) ==
    /\ cursor' = [cursor EXCEPT ![m.session] = m.sequence]
    /\ row' = [row EXCEPT
          !.sample = m,
          !.lifecycle = IF @ = "quarantined" THEN @ ELSE "online"]
    /\ UNCHANGED <<gateway, capability, enrollments, registered>>

CommitTelemetry(c) ==
    /\ work[c].stage = "copied"
    /\ work[c].next.age <= TxTime
    /\ IF Accepted(work[c].message)
       THEN PersistTelemetry(work[c].message) /\ To(c, "committed")
       ELSE UNCHANGED tables /\ Return(c)
    /\ UNCHANGED <<vehicle, memory, regrouping, queue, unanswered, faults>>

(* The transaction is rolled back: an error, or the deadline.              *)
CommitFails(c) ==
    /\ work[c].stage = "copied"
    /\ \/ work[c].next.age > TxTime /\ UNCHANGED faults
       \/ faults < MaxFaults /\ faults' = faults + 1
    /\ Return(c)
    /\ UNCHANGED <<tables, vehicle, memory, regrouping, queue, unanswered>>

(* The transaction commits and the connection breaks before the answer.    *)
CommitUnanswered(c) ==
    /\ work[c].stage = "copied" /\ faults < MaxFaults
    /\ Accepted(work[c].message) /\ PersistTelemetry(work[c].message)
    /\ Return(c)
    /\ unanswered' = TRUE
    /\ faults' = faults + 1
    /\ UNCHANGED <<vehicle, memory, regrouping, queue>>

SwapState(c) ==
    /\ work[c].stage = "committed"
    /\ memory' = work[c].next
    /\ Return(c)
    /\ unanswered' = FALSE
    /\ UNCHANGED <<tables, vehicle, regrouping, queue, faults>>

-----------------------------------------------------------------------------
(* onlineSweep                                                             *)

Silent == memory.online /\ memory.age > Window

(* Mutant: the row is not told.                                            *)
OnlineSweepInMemory ==
    /\ Silent
    /\ memory' = [memory EXCEPT !.online = FALSE]
    /\ UNCHANGED <<tables, vehicle, work, regrouping, queue, unanswered, faults>>

OnlineSweep ==
    /\ Silent
    /\ memory' = [memory EXCEPT !.online = FALSE]
    /\ SubmitDB(OfflineJob)
    /\ UNCHANGED <<gateway, capability, enrollments, cursor, registered, vehicle,
                   work, regrouping, unanswered, faults>>

Aged(m) == [m EXCEPT !.age = IF @ <= Window THEN @ + 1 ELSE @]

Tick ==
    /\ memory' = Aged(memory)
    /\ work' = [c \in Callbacks |-> [work[c] EXCEPT !.next = Aged(@)]]
    /\ UNCHANGED <<tables, vehicle, regrouping, queue, unanswered, faults>>

(* The Fleet process stops and starts again: the queue is gone.            *)
Restart ==
    /\ faults < MaxFaults
    /\ memory' = LoadVehiclesFromDB
    /\ work' = [c \in Callbacks |-> Idle]
    /\ regrouping' = NoGroup
    /\ queue' = << >>
    /\ unanswered' = FALSE
    /\ faults' = faults + 1
    /\ UNCHANGED <<tables, vehicle>>

-----------------------------------------------------------------------------
CallbackStep(c) ==
    \/ PersistCapabilities(c) \/ ClaimRegister(c) \/ HandleRegister(c)
    \/ CopyState(c) \/ CommitTelemetry(c) \/ CommitFails(c) \/ CommitUnanswered(c)
    \/ SwapState(c)

Next ==
    \/ \E d \in Declarations : Start(d)
    \/ SendTelemetry
    \/ CreateEnrollment \/ Revoke
    \/ \E k \in DOMAIN enrollments : ExpireEnrollment(k) \/ Activate(k)
    \/ \E g \in Groups : RegisterVehicle(g)
    \/ RegisterVehicleInMemory
    \/ DbLoop \/ DbLoopFails
    \/ \E c \in Callbacks :
          \/ \E m \in Samples : ReceiveTelemetry(c, m)
          \/ \E s \in DOMAIN declares : ReceiveRegister(c, s)
          \/ CallbackStep(c)
    \/ OnlineSweep
    \/ Tick
    \/ Restart

Spec == Init /\ [][Next]_vars

(* The sweep and the queue's loop are goroutines that never end, a         *)
(* callback runs to its end, its waits bounded by deadlines.               *)
FairSpec ==
    /\ Spec
    /\ WF_vars(Tick) /\ WF_vars(OnlineSweep) /\ WF_vars(DbLoop)
    /\ \A c \in Callbacks : WF_vars(CallbackStep(c))

-----------------------------------------------------------------------------
(* Rows, memory, callbacks and queue have the shape the code gives them: a *)
(* vehicle always has a group, in memory too.                              *)
TypeOK ==
    /\ row \in [lifecycle : Lifecycles, sample : AnySample, group : Groups]
    /\ gateway \in {"none", "active", "revoked"}
    /\ capability \in [monitoring : BOOLEAN, control : BOOLEAN]
    /\ enrollments \in Seq({"open", "expired", "consumed"})
    /\ cursor \in [Sessions -> 0..MaxSequence]
    /\ registered \subseteq Sessions
    /\ declares \in Seq(Declarations)
    /\ sent \in [Sessions -> 0..MaxSequence]
    /\ memory \in Memories /\ memory.group # NoGroup
    /\ work \in [Callbacks -> Callback]
    /\ regrouping \in Groups \cup {NoGroup}
    /\ queue \in Seq(Jobs)
    /\ unanswered \in BOOLEAN
    /\ faults \in 0..MaxFaults

(* The state the console shows is the one in the table, also right after a *)
(* restart, unless a commit is being put in memory or got no answer.       *)
MemoryMatchesRow ==
    \/ memory.sample = row.sample
    \/ \E c \in Callbacks : work[c].stage = "committed"
    \/ unanswered

Older(s, t) == s.session = t.session /\ s.sequence < t.sequence

(* Whatever the order in which the callbacks run and messages come again,  *)
(* neither the row nor memory goes back to older telemetry of the session. *)
NewestTelemetryWins ==
    [][/\ ~Older(row'.sample, row.sample)
       /\ ~Older(memory'.sample, memory.sample)]_vars

(* A vehicle whose Gateway was revoked stays quarantined: neither late     *)
(* telemetry, nor the sweep's queued update, nor a registration frees it.  *)
RevokedIsQuarantined == gateway = "revoked" => row.lifecycle = "quarantined"

(* An activation uses up every enrollment made before it: a Gateway that   *)
(* is revoked afterwards cannot come back with one of them.                *)
OldEnrollmentsAreDead ==
    \A i, j \in DOMAIN enrollments :
        i < j /\ enrollments[j] = "consumed" => enrollments[i] = "consumed"

(* A vehicle that falls silent, as it does here when its messages are used *)
(* up, is shown offline for good; the row says so too when no restart and  *)
(* no failed write comes in between.                                       *)
SilentIsOffline ==
    <>[](~memory.online /\ (faults = 0 => row.lifecycle # "online"))

=============================================================================
