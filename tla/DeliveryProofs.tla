--------------------------- MODULE DeliveryProofs ---------------------------
(***************************************************************************)
(* Proofs about the messages to and from a vehicle: VehicleStatus, for any *)
(* number of callbacks, sessions, messages, enrollments and queued writes, *)
(* and Outbox, for any number of messages and processes, any batch size,   *)
(* timeouts and number of crashes.  Neither specification uses the other.  *)
(***************************************************************************)
EXTENDS VehicleStatus, Outbox, TLAPS

InTransaction(c) == work[c].stage \in {"copied", "committed"}

Typed == TypeOK /\ Len(declares) <= MaxSessions

(* The vehicle's lock: one callback at a time has a copy of the state.     *)
Exclusive == \A c, d \in Callbacks : InTransaction(c) /\ InTransaction(d) => c = d

(* The copy shows the message it was made for, and once committed that     *)
(* message is the one in the row.                                          *)
CopiesFollowMessages ==
    \A c \in Callbacks :
        /\ work[c].stage # "idle" => work[c].message \in Samples
        /\ InTransaction(c) =>
              /\ work[c].next.sample = work[c].message
              /\ work[c].next.group # NoGroup
        /\ work[c].stage = "committed" => work[c].message = row.sample

(* The row shows the last message that moved the cursor of its session.    *)
RowAtCursor ==
    row.sample # NoSample => cursor[row.sample.session] = row.sample.sequence

(* Memory shows a message the cursor has passed.                           *)
MemoryBehindCursor ==
    memory.sample # NoSample =>
        memory.sample.sequence <= cursor[memory.sample.session]

IInv ==
    /\ Typed /\ Exclusive /\ CopiesFollowMessages
    /\ RowAtCursor /\ MemoryBehindCursor
    /\ MemoryMatchesRow /\ RevokedIsQuarantined /\ OldEnrollmentsAreDead

-----------------------------------------------------------------------------
LEMMA SampleFacts ==
    /\ NoSample \in AnySample /\ NoSample \notin Samples /\ Samples \subseteq AnySample
    /\ \A m \in Samples : m.session \in Sessions /\ m.sequence \in 1..MaxSequence
    /\ \A m \in AnySample : m # NoSample => m \in Samples
<1>1. \A m \in Samples : m.session \in Sessions /\ m.sequence \in 1..MaxSequence
  BY DEF Samples
<1>2. NoSample \notin Samples
  BY <1>1 DEF NoSample, Sessions
<1> QED  BY <1>1, <1>2 DEF AnySample

LEMMA AgedType == ASSUME NEW m \in Memories
                  PROVE  /\ Aged(m) \in Memories
                         /\ Aged(m).sample = m.sample /\ Aged(m).group = m.group
BY StatusConstants DEF Memories, Aged, Ages, StatusConstants

LEMMA DoneType ==
    ASSUME Typed, NEW job \in Jobs
    PROVE  /\ Done(job) \in [lifecycle : Lifecycles, sample : AnySample, group : Groups]
           /\ Done(job).sample = row.sample
           /\ row.lifecycle = "quarantined" => Done(job).lifecycle = "quarantined"
<1>1. job.kind = "offline" \/ (job.kind = "register" /\ job.group \in Groups)
  BY DEF Jobs, OfflineJob, RegisterJob
<1>2. row \in [lifecycle : Lifecycles, sample : AnySample, group : Groups]
  BY DEF Typed, TypeOK
<1> QED  BY <1>1, <1>2 DEF Done, Lifecycles

(* A step that leaves messages, copies and samples alone.                  *)
Calm ==
    /\ row'.sample = row.sample /\ memory'.sample = memory.sample
    /\ cursor' = cursor /\ unanswered' = unanswered
    /\ \A c \in Callbacks :
          /\ InTransaction(c)' <=> InTransaction(c)
          /\ work'[c].stage = "committed" <=> work[c].stage = "committed"
          /\ InTransaction(c) =>
                /\ work'[c].message = work[c].message
                /\ work'[c].next.sample = work[c].next.sample
                /\ work'[c].next.group = work[c].next.group
          /\ work'[c].stage # "idle" => work'[c].message \in Samples

LEMMA CalmStep ==
    ASSUME IInv, Calm
    PROVE  /\ Exclusive' /\ CopiesFollowMessages' /\ RowAtCursor'
           /\ MemoryBehindCursor' /\ MemoryMatchesRow'
<1>1. Exclusive'
  BY DEF IInv, Calm, Exclusive
<1>2. CopiesFollowMessages'
  BY DEF IInv, Calm, CopiesFollowMessages, InTransaction
<1>3. RowAtCursor' /\ MemoryBehindCursor'
  BY DEF IInv, Calm, RowAtCursor, MemoryBehindCursor
<1>4. MemoryMatchesRow'
  BY DEF IInv, Calm, MemoryMatchesRow
<1> QED  BY <1>1, <1>2, <1>3, <1>4

LEMMA IdleType == NoMemory \in Memories /\ Idle \in Callback
<1>1. Window + 1 \in Ages
  BY StatusConstants DEF StatusConstants, Ages
<1>2. NoMemory \in Memories
  BY <1>1, SampleFacts DEF NoMemory, Memories
<1> QED  BY <1>2, SampleFacts DEF Idle, Callback, Stages

LEMMA Initially == Init => IInv
<1> SUFFICES ASSUME Init PROVE IInv
  OBVIOUS
<1>1. Typed
  <2> PICK g \in Groups :
          /\ row = [lifecycle |-> "registered", sample |-> NoSample, group |-> g]
          /\ memory = [NoMemory EXCEPT !.group = g]
    BY DEF Init
  <2>1. row \in [lifecycle : Lifecycles, sample : AnySample, group : Groups]
    BY SampleFacts DEF Lifecycles
  <2>2. memory \in Memories /\ memory.group # NoGroup
    BY IdleType, StatusConstants DEF Memories, NoMemory, StatusConstants
  <2>3. work \in [Callbacks -> Callback]
    BY IdleType DEF Init
  <2>4. capability \in [monitoring : BOOLEAN, control : BOOLEAN]
    BY DEF Init, NoCapability
  <2>5. /\ cursor \in [Sessions -> 0..MaxSequence] /\ sent \in [Sessions -> 0..MaxSequence]
        /\ faults \in 0..MaxFaults /\ Len(declares) <= MaxSessions
    BY StatusConstants DEF Init, StatusConstants
  <2>6. /\ gateway = "none" /\ enrollments = << >> /\ registered = {}
        /\ declares = << >> /\ regrouping = NoGroup /\ queue = << >>
        /\ unanswered = FALSE
    BY DEF Init
  <2>7. enrollments \in Seq({"open", "expired", "consumed"})
    BY <2>6
  <2>8. declares \in Seq(Declarations) /\ queue \in Seq(Jobs)
    BY <2>6
  <2> QED  BY <2>1, <2>2, <2>3, <2>4, <2>5, <2>6, <2>7, <2>8 DEF Typed, TypeOK
<1>2. Exclusive /\ CopiesFollowMessages
  BY DEF Init, Exclusive, CopiesFollowMessages, InTransaction, Idle
<1>3. RowAtCursor /\ MemoryBehindCursor /\ MemoryMatchesRow
  BY DEF Init, RowAtCursor, MemoryBehindCursor, MemoryMatchesRow, NoMemory
<1>4. RevokedIsQuarantined /\ OldEnrollmentsAreDead
  BY DEF Init, RevokedIsQuarantined, OldEnrollmentsAreDead
<1> QED  BY <1>1, <1>2, <1>3, <1>4 DEF IInv

-----------------------------------------------------------------------------
(* What most actions leave alone.                                          *)
Enrolled == UNCHANGED enrollments /\ UNCHANGED gateway

LEMMA EnrolledStep ==
    ASSUME IInv, Enrolled, row.lifecycle = "quarantined" => row'.lifecycle = "quarantined"
    PROVE  RevokedIsQuarantined' /\ OldEnrollmentsAreDead'
BY DEF IInv, Enrolled, RevokedIsQuarantined, OldEnrollmentsAreDead

LEMMA VehicleSteps ==
    ASSUME IInv, (\E d \in Declarations : Start(d)) \/ SendTelemetry
    PROVE  IInv'
<1>1. Calm /\ Enrolled /\ row' = row
  BY DEF Start, SendTelemetry, tables, Calm, Enrolled, InTransaction, IInv, CopiesFollowMessages
<1>2. Typed'
  <2>1. CASE \E d \in Declarations : Start(d)
    <3>1. declares' \in Seq(Declarations) /\ Len(declares') <= MaxSessions
      BY <2>1, StatusConstants DEF Start, IInv, Typed, TypeOK, StatusConstants
    <3> QED  BY <2>1, <3>1 DEF Start, tables, IInv, Typed, TypeOK
  <2>2. CASE SendTelemetry
    <3>1. Len(declares) \in Sessions
      BY <2>2, StatusConstants DEF SendTelemetry, IInv, Typed, TypeOK, StatusConstants, Sessions
    <3>2. sent' \in [Sessions -> 0..MaxSequence]
      BY <2>2, <3>1, StatusConstants DEF SendTelemetry, IInv, Typed, TypeOK, StatusConstants
    <3> QED  BY <2>2, <3>2 DEF SendTelemetry, tables, IInv, Typed, TypeOK
  <2> QED  BY <2>1, <2>2
<1> QED  BY <1>1, <1>2, CalmStep, EnrolledStep DEF IInv

LEMMA RegistrySteps ==
    ASSUME IInv,
           CreateEnrollment \/ Revoke \/
           \E k \in DOMAIN enrollments : ExpireEnrollment(k) \/ Activate(k)
    PROVE  IInv'
<1> DEFINE S == {"open", "expired", "consumed"}
<1>1. Calm
  BY DEF CreateEnrollment, ExpireEnrollment, Activate, Revoke, vehicle, Calm, InTransaction,
         IInv, CopiesFollowMessages, Typed, TypeOK
<1>2. /\ enrollments \in Seq(S) /\ DOMAIN enrollments = 1..Len(enrollments)
      /\ Len(enrollments) \in Nat
  BY DEF IInv, Typed, TypeOK
<1>3. CASE CreateEnrollment
  <2>1. /\ enrollments' \in Seq(S) /\ DOMAIN enrollments' = 1..Len(enrollments) + 1
        /\ \A i \in DOMAIN enrollments : enrollments'[i] = enrollments[i]
        /\ enrollments'[Len(enrollments) + 1] = "open"
    BY <1>2, <1>3 DEF CreateEnrollment
  <2>2. OldEnrollmentsAreDead'
    BY <1>2, <2>1 DEF OldEnrollmentsAreDead, IInv
  <2>3. Typed'
    BY <1>3, <2>1 DEF CreateEnrollment, vehicle, IInv, Typed, TypeOK
  <2>4. RevokedIsQuarantined'
    BY <1>3 DEF CreateEnrollment, RevokedIsQuarantined, IInv
  <2> QED  BY <1>1, <2>2, <2>3, <2>4, CalmStep DEF IInv
<1>4. CASE Revoke
  <2>1. Typed'
    BY <1>4 DEF Revoke, vehicle, IInv, Typed, TypeOK, Lifecycles
  <2>2. RevokedIsQuarantined' /\ OldEnrollmentsAreDead'
    BY <1>4 DEF Revoke, RevokedIsQuarantined, OldEnrollmentsAreDead, IInv, Typed, TypeOK
  <2> QED  BY <1>1, <2>1, <2>2, CalmStep DEF IInv
<1>5. ASSUME NEW k \in DOMAIN enrollments, ExpireEnrollment(k) PROVE IInv'
  <2>1. /\ enrollments' \in Seq(S) /\ DOMAIN enrollments' = DOMAIN enrollments
        /\ enrollments'[k] = "expired"
        /\ \A i \in DOMAIN enrollments : i # k => enrollments'[i] = enrollments[i]
    BY <1>2, <1>5 DEF ExpireEnrollment
  <2>2. OldEnrollmentsAreDead'
    BY <1>2, <1>5, <2>1 DEF OldEnrollmentsAreDead, IInv, ExpireEnrollment
  <2>3. Typed'
    BY <1>5, <2>1 DEF ExpireEnrollment, vehicle, IInv, Typed, TypeOK
  <2>4. RevokedIsQuarantined'
    BY <1>5 DEF ExpireEnrollment, RevokedIsQuarantined, IInv
  <2> QED  BY <1>1, <2>2, <2>3, <2>4, CalmStep DEF IInv
<1>6. ASSUME NEW k \in DOMAIN enrollments, Activate(k) PROVE IInv'
  <2>1. /\ enrollments' \in Seq(S)
        /\ \A i \in DOMAIN enrollments' : enrollments'[i] = "consumed"
    BY <1>2, <1>6 DEF Activate, Consumed
  <2>2. OldEnrollmentsAreDead'
    BY <2>1 DEF OldEnrollmentsAreDead
  <2>3. Typed'
    BY <1>6, <2>1 DEF Activate, vehicle, IInv, Typed, TypeOK, Lifecycles
  <2>4. RevokedIsQuarantined'
    BY <1>6 DEF Activate, RevokedIsQuarantined
  <2> QED  BY <1>1, <2>2, <2>3, <2>4, CalmStep DEF IInv
<1> QED  BY <1>3, <1>4, <1>5, <1>6

LEMMA GroupSteps ==
    ASSUME IInv, (\E g \in Groups : RegisterVehicle(g)) \/ RegisterVehicleInMemory
    PROVE  IInv'
<1>1. Calm /\ Enrolled /\ row'.lifecycle = row.lifecycle
  BY DEF RegisterVehicle, RegisterVehicleInMemory, tables, vehicle, Calm, InTransaction, Enrolled,
         IInv, CopiesFollowMessages, Typed, TypeOK, Memories
<1>2. Typed'
  <2>1. CASE \E g \in Groups : RegisterVehicle(g)
    BY <2>1 DEF RegisterVehicle, vehicle, IInv, Typed, TypeOK
  <2>2. CASE RegisterVehicleInMemory
    BY <2>2 DEF RegisterVehicleInMemory, tables, vehicle, IInv, Typed, TypeOK, Memories
  <2> QED  BY <2>1, <2>2
<1> QED  BY <1>1, <1>2, CalmStep, EnrolledStep DEF IInv

-----------------------------------------------------------------------------
(* The queue                                                               *)

LEMMA SubmitType ==
    ASSUME Typed, NEW job \in Jobs, SubmitDB(job)
    PROVE  /\ queue' \in Seq(Jobs)
           /\ row' \in [lifecycle : Lifecycles, sample : AnySample, group : Groups]
           /\ row'.sample = row.sample
           /\ row.lifecycle = "quarantined" => row'.lifecycle = "quarantined"
<1>1. CASE queue' = Append(queue, job) /\ row' = row
  BY <1>1 DEF Typed, TypeOK
<1>2. CASE row' = Done(job) /\ queue' = queue
  BY <1>2, DoneType DEF Typed, TypeOK
<1> QED  BY <1>1, <1>2 DEF SubmitDB

LEMMA QueueSteps ==
    ASSUME IInv, DbLoop \/ DbLoopFails
    PROVE  IInv'
<1>0. queue # << >> /\ queue \in Seq(Jobs)
  BY DEF DbLoop, DbLoopFails, IInv, Typed, TypeOK
<1>1. Head(queue) \in Jobs /\ Tail(queue) \in Seq(Jobs)
  BY <1>0
<1>2. CASE DbLoop
  <2>1. Calm /\ Enrolled
    BY <1>1, <1>2, DoneType DEF DbLoop, Calm, InTransaction, Enrolled, IInv, CopiesFollowMessages
  <2>2. Typed' /\ (row.lifecycle = "quarantined" => row'.lifecycle = "quarantined")
    BY <1>1, <1>2, DoneType DEF DbLoop, vehicle, IInv, Typed, TypeOK
  <2> QED  BY <2>1, <2>2, CalmStep, EnrolledStep DEF IInv
<1>3. CASE DbLoopFails
  <2>1. Calm /\ Enrolled
    BY <1>3 DEF DbLoopFails, tables, Calm, InTransaction, Enrolled, IInv, CopiesFollowMessages
  <2>2. Typed' /\ row' = row
    BY <1>1, <1>3, StatusConstants DEF DbLoopFails, tables, vehicle, IInv, Typed, TypeOK,
       StatusConstants
  <2> QED  BY <2>1, <2>2, CalmStep, EnrolledStep DEF IInv
<1> QED  BY <1>2, <1>3

-----------------------------------------------------------------------------
(* The callbacks                                                           *)

LEMMA ReceiveSteps ==
    ASSUME IInv, NEW c \in Callbacks,
           (\E m \in Samples : ReceiveTelemetry(c, m)) \/
           \E s \in DOMAIN declares : ReceiveRegister(c, s)
    PROVE  IInv'
<1>1. PICK r : /\ work' = [work EXCEPT ![c] = r]
               /\ r \in Callback /\ r.stage = "admitted" /\ r.message \in Samples
  <2>1. CASE \E m \in Samples : ReceiveTelemetry(c, m)
    <3> PICK m \in Samples : ReceiveTelemetry(c, m)
      BY <2>1
    <3> DEFINE r == [stage |-> "admitted", kind |-> "telemetry", message |-> m, next |-> NoMemory]
    <3>1. r \in Callback
      BY SampleFacts, IdleType DEF Callback, Stages
    <3>2. work' = [work EXCEPT ![c] = r] /\ r.stage = "admitted" /\ r.message \in Samples
      BY DEF ReceiveTelemetry
    <3> HIDE DEF r
    <3> QED  BY <3>1, <3>2
  <2>2. CASE \E s \in DOMAIN declares : ReceiveRegister(c, s)
    <3> PICK s \in DOMAIN declares : ReceiveRegister(c, s)
      BY <2>2
    <3>1. s \in Sessions
      BY StatusConstants DEF IInv, Typed, TypeOK, Sessions, StatusConstants
    <3> DEFINE m == [session |-> s, sequence |-> 1]
               r == [stage |-> "admitted", kind |-> "register", message |-> m, next |-> NoMemory]
    <3>2. m \in Samples
      BY <3>1, StatusConstants DEF Samples, StatusConstants
    <3>3. r \in Callback
      BY <3>2, SampleFacts, IdleType DEF Callback, Stages
    <3>4. work' = [work EXCEPT ![c] = r] /\ r.stage = "admitted" /\ r.message \in Samples
      BY <3>2 DEF ReceiveRegister
    <3> HIDE DEF r
    <3> QED  BY <3>3, <3>4
  <2> QED  BY <2>1, <2>2
<1>2. work[c].stage = "idle"
        /\ UNCHANGED <<tables, vehicle, memory, regrouping, queue, unanswered, faults>>
  BY DEF ReceiveTelemetry, ReceiveRegister
<1>3. Calm /\ Enrolled /\ row' = row
  BY <1>1, <1>2 DEF Calm, InTransaction, Enrolled, tables, IInv, CopiesFollowMessages, Typed,
     TypeOK
<1>4. Typed'
  BY <1>1, <1>2 DEF tables, vehicle, IInv, Typed, TypeOK
<1> QED  BY <1>3, <1>4, CalmStep, EnrolledStep DEF IInv

(* A callback of a registration goes on to another stage, or returns.      *)
Proceeds(c, r) ==
    /\ work' = [work EXCEPT ![c] = r]
    /\ r \in Callback /\ ~InTransaction(c) /\ r.stage \notin {"copied", "committed"}
    /\ r.stage # "idle" => r.message \in Samples

LEMMA ProceedsCalmly ==
    ASSUME IInv, NEW c \in Callbacks, NEW r, Proceeds(c, r),
           UNCHANGED <<cursor, memory, unanswered, gateway, enrollments>>,
           row'.sample = row.sample
    PROVE  Calm /\ Enrolled /\ work' \in [Callbacks -> Callback]
BY DEF Proceeds, Calm, InTransaction, Enrolled, IInv, CopiesFollowMessages, Typed, TypeOK

LEMMA RegisterSteps ==
    ASSUME IInv, NEW c \in Callbacks,
           PersistCapabilities(c) \/ ClaimRegister(c) \/ HandleRegister(c)
    PROVE  IInv'
<1>1. PICK r : Proceeds(c, r)
  <2>1. ~InTransaction(c)
    BY DEF PersistCapabilities, ClaimRegister, HandleRegister, InTransaction
  <2>2. work \in [Callbacks -> Callback] /\ work[c] \in Callback /\ work[c].message \in Samples
    BY DEF PersistCapabilities, ClaimRegister, HandleRegister, IInv, CopiesFollowMessages,
       Typed, TypeOK
  <2>3. \/ work' = [work EXCEPT ![c] = Idle]
        \/ work' = [work EXCEPT ![c].stage = "declared"]
        \/ work' = [work EXCEPT ![c].stage = "claimed"]
    BY DEF PersistCapabilities, ClaimRegister, HandleRegister, To, Return
  <2>4. Idle.stage = "idle"
    BY DEF Idle
  <2>5. ASSUME NEW s \in {"declared", "claimed"}
        PROVE  /\ [work[c] EXCEPT !.stage = s] \in Callback
               /\ [work[c] EXCEPT !.stage = s].stage = s
               /\ [work[c] EXCEPT !.stage = s].message = work[c].message
               /\ [work EXCEPT ![c].stage = s] = [work EXCEPT ![c] = [work[c] EXCEPT !.stage = s]]
    BY <2>2 DEF Callback, Stages
  <2> QED  BY <2>1, <2>2, <2>3, <2>4, <2>5, IdleType DEF Proceeds
<1>2. CASE PersistCapabilities(c)
  <2>0. \A d : AssessGatewayCapabilities(d) \in [monitoring : BOOLEAN, control : BOOLEAN]
    BY DEF AssessGatewayCapabilities
  <2>1. capability' \in [monitoring : BOOLEAN, control : BOOLEAN]
    BY <1>2, <2>0 DEF PersistCapabilities, IInv, Typed, TypeOK
  <2>2. Calm /\ Enrolled /\ work' \in [Callbacks -> Callback]
    BY <1>1, <1>2, ProceedsCalmly DEF PersistCapabilities
  <2>3. Typed' /\ row' = row
    BY <1>2, <2>1, <2>2 DEF PersistCapabilities, vehicle, IInv, Typed, TypeOK
  <2> QED  BY <2>2, <2>3, CalmStep, EnrolledStep DEF IInv
<1>3. CASE ClaimRegister(c)
  <2>1. registered' \subseteq Sessions
    BY <1>3, SampleFacts DEF ClaimRegister, IInv, CopiesFollowMessages, Typed, TypeOK
  <2>2. Calm /\ Enrolled /\ work' \in [Callbacks -> Callback]
    BY <1>1, <1>3, ProceedsCalmly DEF ClaimRegister
  <2>3. Typed' /\ row' = row
    BY <1>3, <2>1, <2>2 DEF ClaimRegister, vehicle, IInv, Typed, TypeOK
  <2> QED  BY <2>2, <2>3, CalmStep, EnrolledStep DEF IInv
<1>4. CASE HandleRegister(c)
  <2>1. RegisterJob(memory.group) \in Jobs
    BY DEF IInv, Typed, TypeOK, Memories, Jobs
  <2>2. /\ queue' \in Seq(Jobs)
        /\ row' \in [lifecycle : Lifecycles, sample : AnySample, group : Groups]
        /\ row'.sample = row.sample
        /\ row.lifecycle = "quarantined" => row'.lifecycle = "quarantined"
    BY <1>4, <2>1, SubmitType DEF HandleRegister, IInv
  <2>3. Calm /\ Enrolled /\ work' \in [Callbacks -> Callback]
    BY <1>1, <1>4, <2>2, ProceedsCalmly DEF HandleRegister
  <2>4. Typed'
    BY <1>4, <2>2, <2>3 DEF HandleRegister, vehicle, IInv, Typed, TypeOK
  <2> QED  BY <2>2, <2>3, <2>4, CalmStep, EnrolledStep DEF IInv
<1> QED  BY <1>2, <1>3, <1>4

-----------------------------------------------------------------------------
(* The transaction of telemetry                                            *)

LEMMA CopyStep ==
    ASSUME IInv, NEW c \in Callbacks, CopyState(c)
    PROVE  IInv'
<1> DEFINE m == work[c].message
           r == [work[c] EXCEPT !.stage = "copied", !.next = Projected(m)]
<1>1. m \in Samples /\ work[c] \in Callback /\ work \in [Callbacks -> Callback]
  BY DEF CopyState, IInv, CopiesFollowMessages, Typed, TypeOK
<1>2. /\ Projected(m) \in Memories /\ Projected(m).sample = m
      /\ Projected(m).group # NoGroup
  <2>1. m \in AnySample /\ memory \in Memories /\ memory.group # NoGroup
    BY <1>1, SampleFacts DEF IInv, Typed, TypeOK
  <2>2. 0 \in Ages
    BY StatusConstants DEF StatusConstants, Ages
  <2> HIDE DEF m
  <2> QED  BY <2>1, <2>2 DEF Projected, Memories
<1>3. /\ r \in Callback /\ r.stage = "copied" /\ r.message = m
      /\ r.next.sample = m /\ r.next.group # NoGroup
  BY <1>1, <1>2 DEF Callback, Stages
<1>4. work' = [work EXCEPT ![c] = r]
  BY <1>1 DEF CopyState
<1>5. \A d \in Callbacks : ~InTransaction(d)
  BY DEF CopyState, Locked, InTransaction
<1>6. UNCHANGED <<row, gateway, enrollments, cursor, memory, unanswered>>
  BY DEF CopyState, tables
<1> HIDE DEF m, r
<1>7. Typed'
  BY <1>1, <1>3, <1>4 DEF CopyState, tables, vehicle, IInv, Typed, TypeOK
<1>8. Exclusive'
  BY <1>1, <1>4, <1>5 DEF Exclusive, InTransaction
<1>9. CopiesFollowMessages'
  BY <1>1, <1>3, <1>4, <1>5, <1>6 DEF IInv, CopiesFollowMessages, InTransaction
<1>10. RowAtCursor' /\ MemoryBehindCursor'
  BY <1>6 DEF IInv, RowAtCursor, MemoryBehindCursor
<1>11. MemoryMatchesRow'
  BY <1>5, <1>6 DEF IInv, MemoryMatchesRow, InTransaction
<1>12. RevokedIsQuarantined' /\ OldEnrollmentsAreDead'
  BY <1>6 DEF IInv, RevokedIsQuarantined, OldEnrollmentsAreDead
<1> QED  BY <1>7, <1>8, <1>9, <1>10, <1>11, <1>12 DEF IInv

(* A callback returns, and what it knew is either dropped before it was    *)
(* committed or is in memory now.                                          *)
LEMMA ReturnStep ==
    ASSUME IInv, NEW c \in Callbacks, Return(c), InTransaction(c)
    PROVE  /\ work' \in [Callbacks -> Callback]
           /\ \A d \in Callbacks : ~InTransaction(d)'
           /\ Exclusive'
           /\ CopiesFollowMessages'
<1>1. work' \in [Callbacks -> Callback]
  BY IdleType DEF Return, IInv, Typed, TypeOK
<1>2. \A d \in Callbacks : work'[d] = IF d = c THEN Idle ELSE work[d]
  BY DEF Return, IInv, Typed, TypeOK
<1>3. \A d \in Callbacks : ~InTransaction(d)'
  BY <1>2 DEF InTransaction, Idle, IInv, Exclusive
<1>4. \A d \in Callbacks : work'[d].stage # "committed"
  BY <1>3 DEF InTransaction
<1>5. \A d \in Callbacks : work'[d].stage # "idle" => work'[d].message \in Samples
  BY <1>2 DEF Idle, IInv, CopiesFollowMessages
<1> QED  BY <1>1, <1>3, <1>4, <1>5 DEF Exclusive, CopiesFollowMessages

(* The row and the cursor of a message that is accepted.                   *)
LEMMA PersistStep ==
    ASSUME IInv, NEW m \in Samples, PersistTelemetry(m), Accepted(m)
    PROVE  /\ row' \in [lifecycle : Lifecycles, sample : AnySample, group : Groups]
           /\ row'.sample = m
           /\ cursor' \in [Sessions -> 0..MaxSequence] /\ cursor'[m.session] = m.sequence
           /\ \A s \in Sessions : cursor[s] <= cursor'[s]
           /\ Enrolled
           /\ row.lifecycle = "quarantined" => row'.lifecycle = "quarantined"
           /\ ~Older(row'.sample, row.sample)
<1>1. /\ m.session \in Sessions /\ m.sequence \in 1..MaxSequence /\ m \in AnySample
      /\ cursor \in [Sessions -> 0..MaxSequence]
      /\ row \in [lifecycle : Lifecycles, sample : AnySample, group : Groups]
  BY SampleFacts DEF IInv, Typed, TypeOK
<1>2. /\ row' \in [lifecycle : Lifecycles, sample : AnySample, group : Groups]
      /\ row'.sample = m
      /\ row.lifecycle = "quarantined" => row'.lifecycle = "quarantined"
  BY <1>1 DEF PersistTelemetry, Lifecycles
<1>3. /\ cursor' \in [Sessions -> 0..MaxSequence] /\ cursor'[m.session] = m.sequence
      /\ \A s \in Sessions : s # m.session => cursor'[s] = cursor[s]
      /\ cursor[m.session] < m.sequence
  BY <1>1, StatusConstants DEF PersistTelemetry, Accepted, StatusConstants
<1>4. \A s \in Sessions : cursor[s] \in Nat /\ cursor'[s] \in Nat
  BY <1>1, <1>3, StatusConstants DEF StatusConstants
<1>5. \A s \in Sessions : cursor[s] <= cursor'[s]
  <2> TAKE s \in Sessions
  <2>1. CASE s = m.session
    BY <1>1, <1>3, <1>4, <2>1
  <2>2. CASE s # m.session
    BY <1>3, <1>4, <2>2
  <2> QED  BY <2>1, <2>2
<1>6. ~Older(row'.sample, row.sample)
  <2>1. CASE row.sample = NoSample
    BY <1>1, <1>2, <2>1 DEF Older, NoSample, Sessions
  <2>2. CASE row.sample # NoSample
    <3>1. cursor[row.sample.session] = row.sample.sequence
      BY <2>2 DEF IInv, RowAtCursor
    <3> QED  BY <1>1, <1>2, <1>3, <1>4, <3>1, StatusConstants DEF Older, StatusConstants
  <2> QED  BY <2>1, <2>2
<1>7. Enrolled
  BY DEF PersistTelemetry, Enrolled
<1> QED  BY <1>1, <1>2, <1>3, <1>5, <1>6, <1>7

(* The cursor has only grown and the row is at it: memory is still behind. *)
LEMMA CursorStep ==
    ASSUME IInv, NEW m \in Samples, row'.sample = m, cursor'[m.session] = m.sequence,
           cursor' \in [Sessions -> 0..MaxSequence],
           \A s \in Sessions : cursor[s] <= cursor'[s],
           memory' = memory
    PROVE  RowAtCursor' /\ MemoryBehindCursor'
<1>1. RowAtCursor'
  BY DEF RowAtCursor
<1>2. MemoryBehindCursor'
  <2> SUFFICES ASSUME memory.sample # NoSample
               PROVE  memory.sample.sequence <= cursor'[memory.sample.session]
    BY DEF MemoryBehindCursor
  <2>1. memory.sample \in Samples
    BY SampleFacts DEF IInv, Typed, TypeOK, Memories
  <2>2. memory.sample.session \in Sessions /\ memory.sample.sequence \in Nat
    BY <2>1, SampleFacts, StatusConstants DEF StatusConstants
  <2>3. cursor[memory.sample.session] \in Nat /\ cursor'[memory.sample.session] \in Nat
    BY <2>2, StatusConstants DEF IInv, Typed, TypeOK, StatusConstants
  <2>4. memory.sample.sequence <= cursor[memory.sample.session]
    BY DEF IInv, MemoryBehindCursor
  <2> QED  BY <2>2, <2>3, <2>4
<1> QED  BY <1>1, <1>2

LEMMA CommitSteps ==
    ASSUME IInv, NEW c \in Callbacks,
           CommitTelemetry(c) \/ CommitFails(c) \/ CommitUnanswered(c)
    PROVE  IInv'
<1>0. /\ work[c].stage = "copied" /\ InTransaction(c)
      /\ work \in [Callbacks -> Callback] /\ work[c] \in Callback
      /\ \A d \in Callbacks : d # c => ~InTransaction(d)
  BY DEF CommitTelemetry, CommitFails, CommitUnanswered, InTransaction, IInv, Typed, TypeOK,
     Exclusive
<1>1. PICK m \in Samples : m = work[c].message
  BY <1>0 DEF IInv, CopiesFollowMessages
<1>2. CASE /\ CommitTelemetry(c) /\ PersistTelemetry(m) /\ Accepted(m)
           /\ To(c, "committed")
  <2> DEFINE r == [work[c] EXCEPT !.stage = "committed"]
  <2>1. /\ r \in Callback /\ r.stage = "committed" /\ r.message = m
        /\ r.next = work[c].next
    BY <1>0, <1>1 DEF Callback, Stages
  <2>2. work' = [work EXCEPT ![c] = r]
    BY <1>0, <1>2 DEF To
  <2> HIDE DEF r
  <2>3. /\ work' \in [Callbacks -> Callback]
        /\ \A d \in Callbacks : work'[d] = IF d = c THEN r ELSE work[d]
    BY <1>0, <2>1, <2>2
  <2>4. Exclusive'
    BY <1>0, <2>3 DEF Exclusive, InTransaction
  <2>5. CopiesFollowMessages'
    BY <1>0, <1>1, <1>2, <2>1, <2>3, PersistStep DEF IInv, CopiesFollowMessages, InTransaction
  <2>6. RowAtCursor' /\ MemoryBehindCursor'
    BY <1>2, PersistStep, CursorStep DEF CommitTelemetry
  <2>7. MemoryMatchesRow'
    BY <2>1, <2>3 DEF MemoryMatchesRow
  <2>8. Typed'
    BY <1>2, <2>3, PersistStep DEF CommitTelemetry, PersistTelemetry, vehicle, IInv, Typed, TypeOK
  <2>9. RevokedIsQuarantined' /\ OldEnrollmentsAreDead'
    BY <1>2, PersistStep, EnrolledStep
  <2> QED  BY <2>4, <2>5, <2>6, <2>7, <2>8, <2>9 DEF IInv
<1>3. CASE Return(c) /\ UNCHANGED <<tables, vehicle, memory, regrouping, queue, unanswered>>
           /\ faults' \in 0..MaxFaults
  <2>1. UNCHANGED <<row, cursor, gateway, enrollments, memory, unanswered>>
    BY <1>3 DEF tables
  <2>2. /\ work' \in [Callbacks -> Callback] /\ Exclusive' /\ CopiesFollowMessages'
    BY <1>0, <1>3, ReturnStep
  <2>3. Typed'
    BY <1>3, <2>2 DEF tables, vehicle, IInv, Typed, TypeOK
  <2>4. RowAtCursor' /\ MemoryBehindCursor'
    BY <2>1 DEF IInv, RowAtCursor, MemoryBehindCursor
  <2>5. MemoryMatchesRow'
    BY <1>0, <2>1 DEF IInv, MemoryMatchesRow, InTransaction
  <2>6. RevokedIsQuarantined' /\ OldEnrollmentsAreDead'
    BY <2>1 DEF IInv, RevokedIsQuarantined, OldEnrollmentsAreDead
  <2> QED  BY <2>2, <2>3, <2>4, <2>5, <2>6 DEF IInv
<1>4. CASE CommitUnanswered(c)
  <2>1. Accepted(m) /\ PersistTelemetry(m) /\ Return(c)
    BY <1>1, <1>4 DEF CommitUnanswered
  <2>2. /\ work' \in [Callbacks -> Callback] /\ Exclusive' /\ CopiesFollowMessages'
    BY <1>0, <2>1, ReturnStep
  <2>3. RowAtCursor' /\ MemoryBehindCursor'
    BY <1>4, <2>1, PersistStep, CursorStep DEF CommitUnanswered
  <2>4. MemoryMatchesRow'
    BY <1>4 DEF MemoryMatchesRow, CommitUnanswered
  <2>5. faults' \in 0..MaxFaults
    BY <1>4, StatusConstants DEF CommitUnanswered, IInv, Typed, TypeOK, StatusConstants
  <2>6. Typed'
    BY <1>4, <2>1, <2>2, <2>5, PersistStep DEF CommitUnanswered, PersistTelemetry, vehicle,
       IInv, Typed, TypeOK
  <2>7. RevokedIsQuarantined' /\ OldEnrollmentsAreDead'
    BY <2>1, PersistStep, EnrolledStep
  <2> QED  BY <2>2, <2>3, <2>4, <2>6, <2>7 DEF IInv
<1>5. CASE CommitFails(c)
  <2>1. faults' \in 0..MaxFaults
    BY <1>5, StatusConstants DEF CommitFails, IInv, Typed, TypeOK, StatusConstants
  <2> QED  BY <1>3, <1>5, <2>1 DEF CommitFails
<1>6. CASE CommitTelemetry(c)
  <2>1. faults' \in 0..MaxFaults
    BY <1>6 DEF CommitTelemetry, IInv, Typed, TypeOK
  <2> QED  BY <1>1, <1>2, <1>3, <1>6, <2>1 DEF CommitTelemetry
<1> QED  BY <1>4, <1>5, <1>6

LEMMA SwapStep ==
    ASSUME IInv, NEW c \in Callbacks, SwapState(c)
    PROVE  IInv' /\ memory'.sample = row.sample
<1>1. /\ InTransaction(c) /\ Return(c) /\ work[c] \in Callback
      /\ work[c].next.sample = row.sample /\ work[c].next.group # NoGroup
      /\ memory' = work[c].next
  BY DEF SwapState, InTransaction, IInv, CopiesFollowMessages, Typed, TypeOK
<1>2. UNCHANGED <<row, cursor, gateway, enrollments>> /\ memory'.sample = row.sample
  BY <1>1 DEF SwapState, tables
<1>3. /\ work' \in [Callbacks -> Callback] /\ Exclusive' /\ CopiesFollowMessages'
  BY <1>1, ReturnStep
<1>4. memory' \in Memories
  BY <1>1 DEF Callback
<1>5. Typed'
  BY <1>1, <1>3, <1>4 DEF SwapState, tables, vehicle, IInv, Typed, TypeOK
<1>6. row.sample # NoSample =>
        /\ cursor[row.sample.session] = row.sample.sequence
        /\ row.sample.sequence \in Nat
  BY SampleFacts, StatusConstants DEF IInv, RowAtCursor, Typed, TypeOK, StatusConstants
<1>7. RowAtCursor' /\ MemoryBehindCursor'
  BY <1>2, <1>6 DEF RowAtCursor, MemoryBehindCursor
<1>8. MemoryMatchesRow' /\ RevokedIsQuarantined' /\ OldEnrollmentsAreDead'
  BY <1>2 DEF IInv, MemoryMatchesRow, RevokedIsQuarantined, OldEnrollmentsAreDead
<1> QED  BY <1>2, <1>3, <1>5, <1>7, <1>8 DEF IInv

-----------------------------------------------------------------------------
(* The sweep, the clock and a restart                                      *)

LEMMA SweepStep ==
    ASSUME IInv, OnlineSweep
    PROVE  IInv' /\ row'.sample = row.sample /\ memory'.sample = memory.sample
<1>1. /\ queue' \in Seq(Jobs)
      /\ row' \in [lifecycle : Lifecycles, sample : AnySample, group : Groups]
      /\ row'.sample = row.sample
      /\ row.lifecycle = "quarantined" => row'.lifecycle = "quarantined"
  BY SubmitType DEF OnlineSweep, Jobs, IInv
<1>2. /\ memory' \in Memories /\ memory'.group # NoGroup /\ memory'.sample = memory.sample
  BY DEF OnlineSweep, IInv, Typed, TypeOK, Memories
<1>3. Calm /\ Enrolled
  BY <1>1, <1>2 DEF OnlineSweep, Calm, InTransaction, Enrolled, IInv, CopiesFollowMessages
<1>4. Typed'
  BY <1>1, <1>2 DEF OnlineSweep, vehicle, IInv, Typed, TypeOK
<1> QED  BY <1>1, <1>2, <1>3, <1>4, CalmStep, EnrolledStep DEF IInv

LEMMA TickStep ==
    ASSUME IInv, Tick
    PROVE  IInv' /\ row'.sample = row.sample /\ memory'.sample = memory.sample
<1>1. /\ memory' \in Memories /\ memory'.group # NoGroup /\ memory'.sample = memory.sample
  BY AgedType DEF Tick, IInv, Typed, TypeOK
<1>2. ASSUME NEW c \in Callbacks
      PROVE  /\ work'[c] \in Callback
             /\ work'[c].stage = work[c].stage /\ work'[c].message = work[c].message
             /\ work'[c].next.sample = work[c].next.sample
             /\ work'[c].next.group = work[c].next.group
  <2>1. work[c] \in Callback /\ work[c].next \in Memories
    BY DEF IInv, Typed, TypeOK, Callback
  <2>2. work'[c] = [work[c] EXCEPT !.next = Aged(work[c].next)]
    BY DEF Tick
  <2>3. PICK n : n = Aged(work[c].next)
    OBVIOUS
  <2>4. n \in Memories /\ n.sample = work[c].next.sample /\ n.group = work[c].next.group
    BY <2>1, <2>3, AgedType
  <2> QED  BY <2>1, <2>2, <2>3, <2>4 DEF Callback
<1>3. work' \in [Callbacks -> Callback]
  BY <1>2 DEF Tick
<1>4. Calm /\ Enrolled /\ row' = row
  BY <1>1, <1>2 DEF Tick, tables, Calm, InTransaction, Enrolled, IInv, CopiesFollowMessages
<1>5. Typed'
  BY <1>1, <1>3 DEF Tick, tables, vehicle, IInv, Typed, TypeOK
<1> QED  BY <1>1, <1>4, <1>5, CalmStep, EnrolledStep DEF IInv

LEMMA RestartStep ==
    ASSUME IInv, Restart
    PROVE  IInv' /\ memory'.sample = row.sample /\ row' = row
<1>1. row \in [lifecycle : Lifecycles, sample : AnySample, group : Groups] /\ Window + 1 \in Ages
  BY StatusConstants DEF IInv, Typed, TypeOK, Ages, StatusConstants
<1>2. /\ memory' \in Memories /\ memory'.group # NoGroup /\ memory'.sample = row.sample
  BY <1>1, StatusConstants DEF Restart, LoadVehiclesFromDB, Memories, StatusConstants
<1>3. work' \in [Callbacks -> Callback] /\ \A c \in Callbacks : work'[c].stage = "idle"
  BY IdleType DEF Restart, Idle
<1>4. faults' \in 0..MaxFaults /\ queue' \in Seq(Jobs)
  BY StatusConstants DEF Restart, IInv, Typed, TypeOK, StatusConstants
<1>5. Typed'
  BY <1>2, <1>3, <1>4 DEF Restart, tables, vehicle, IInv, Typed, TypeOK
<1>6. UNCHANGED <<row, cursor, gateway, enrollments>>
  BY DEF Restart, tables
<1>7. Exclusive' /\ CopiesFollowMessages'
  BY <1>3 DEF Exclusive, CopiesFollowMessages, InTransaction
<1>8. row.sample # NoSample =>
        /\ cursor[row.sample.session] = row.sample.sequence
        /\ row.sample.sequence \in Nat
  BY SampleFacts, StatusConstants DEF IInv, RowAtCursor, Typed, TypeOK, StatusConstants
<1>9. RowAtCursor' /\ MemoryBehindCursor'
  BY <1>2, <1>6, <1>8 DEF RowAtCursor, MemoryBehindCursor
<1>10. MemoryMatchesRow' /\ RevokedIsQuarantined' /\ OldEnrollmentsAreDead'
  BY <1>2, <1>6 DEF IInv, MemoryMatchesRow, RevokedIsQuarantined, OldEnrollmentsAreDead
<1> QED  BY <1>2, <1>5, <1>6, <1>7, <1>9, <1>10 DEF IInv

LEMMA Step == IInv /\ [Next]_vars => IInv'
<1> SUFFICES ASSUME IInv, [Next]_vars PROVE IInv'
  OBVIOUS
<1>1. CASE (\E d \in Declarations : Start(d)) \/ SendTelemetry
  BY <1>1, VehicleSteps
<1>2. CASE CreateEnrollment \/ Revoke
            \/ \E k \in DOMAIN enrollments : ExpireEnrollment(k) \/ Activate(k)
  BY <1>2, RegistrySteps
<1>3. CASE (\E g \in Groups : RegisterVehicle(g)) \/ RegisterVehicleInMemory
  BY <1>3, GroupSteps
<1>4. CASE DbLoop \/ DbLoopFails
  BY <1>4, QueueSteps
<1>5. CASE \E c \in Callbacks :
             (\E m \in Samples : ReceiveTelemetry(c, m))
             \/ \E s \in DOMAIN declares : ReceiveRegister(c, s)
  BY <1>5, ReceiveSteps
<1>6. CASE \E c \in Callbacks : CallbackStep(c)
  BY <1>6, RegisterSteps, CopyStep, CommitSteps, SwapStep DEF CallbackStep
<1>7. CASE OnlineSweep \/ Tick \/ Restart
  BY <1>7, SweepStep, TickStep, RestartStep
<1>8. CASE UNCHANGED vars
  <2>1. UNCHANGED <<row, gateway, capability, enrollments, cursor, registered, declares,
                    sent, memory, work, regrouping, queue, unanswered, faults>>
    BY <1>8 DEF vars, tables, vehicle
  <2>2. Calm /\ Enrolled
    BY <2>1 DEF Calm, Enrolled, InTransaction, IInv, CopiesFollowMessages
  <2>3. Typed'
    BY <2>1 DEF IInv, Typed, TypeOK
  <2> QED  BY <2>1, <2>2, <2>3, CalmStep, EnrolledStep DEF IInv
<1> QED  BY <1>1, <1>2, <1>3, <1>4, <1>5, <1>6, <1>7, <1>8 DEF Next

LEMMA Invariance == Spec => []IInv
BY Initially, Step, PTL DEF Spec

(* The tables, memory, the callbacks' copies and the queue are well typed, *)
(* whatever the order of the callbacks and whichever writes fail.          *)
THEOREM StatusTypes == Spec => []TypeOK
<1>1. IInv => TypeOK
  BY DEF IInv, Typed
<1> QED  BY <1>1, Invariance, PTL

(* The state of a vehicle in memory shows the telemetry of its row, unless *)
(* ApplyTelemetryDurably is between its commit and the swap, or the commit *)
(* got no answer.                                                          *)
THEOREM MemoryIsCurrent == Spec => []MemoryMatchesRow
<1>1. IInv => MemoryMatchesRow
  BY DEF IInv
<1> QED  BY <1>1, Invariance, PTL

(* After RevokeGateway neither telemetry still being handled, nor the      *)
(* sweep's queued update, nor a registration ends the quarantine.          *)
THEOREM Quarantined == Spec => []RevokedIsQuarantined
<1>1. IInv => RevokedIsQuarantined
  BY DEF IInv
<1> QED  BY <1>1, Invariance, PTL

(* An activation leaves no older enrollment that could be presented.       *)
THEOREM EnrollmentsDie == Spec => []OldEnrollmentsAreDead
<1>1. IInv => OldEnrollmentsAreDead
  BY DEF IInv
<1> QED  BY <1>1, Invariance, PTL

(* Memory only takes over what the row shows, which is no older.           *)
LEMMA RowIsNoOlder == ASSUME IInv PROVE ~Older(row.sample, memory.sample)
<1>1. row.sample \in AnySample /\ memory.sample \in AnySample
  BY DEF IInv, Typed, TypeOK, Memories
<1>2. CASE memory.sample = NoSample
  <2>1. row.sample.sequence \in Nat
    BY <1>1, SampleFacts, StatusConstants DEF NoSample, StatusConstants
  <2> QED  BY <1>2, <2>1 DEF Older, NoSample
<1>3. CASE memory.sample # NoSample /\ row.sample = NoSample
  <2>1. memory.sample.session \in Sessions
    BY <1>1, <1>3, SampleFacts
  <2> QED  BY <1>3, <2>1 DEF Older, NoSample, Sessions
<1>4. CASE memory.sample # NoSample /\ row.sample # NoSample
  <2>1. /\ memory.sample.session \in Sessions /\ memory.sample.sequence \in Nat
        /\ row.sample.session \in Sessions /\ row.sample.sequence \in Nat
    BY <1>1, <1>4, SampleFacts, StatusConstants DEF StatusConstants
  <2>2. /\ memory.sample.sequence <= cursor[memory.sample.session]
        /\ cursor[row.sample.session] = row.sample.sequence
    BY <1>4 DEF IInv, RowAtCursor, MemoryBehindCursor
  <2> QED  BY <2>1, <2>2 DEF Older
<1> QED  BY <1>2, <1>3, <1>4

LEMMA NotOlderThanItself == ASSUME NEW s \in AnySample PROVE ~Older(s, s)
<1>1. s.sequence \in Nat
  BY SampleFacts, StatusConstants DEF NoSample, StatusConstants
<1> QED  BY <1>1 DEF Older

(* Neither the row nor memory goes back to older telemetry of a session,   *)
(* however AcceptInboundSequenceTx and the callbacks interleave.           *)
THEOREM NewestWins == Spec => NewestTelemetryWins
<1> DEFINE Forward == /\ ~Older(row'.sample, row.sample)
                      /\ ~Older(memory'.sample, memory.sample)
<1>1. ASSUME IInv, [Next]_vars PROVE [Forward]_vars
  <2>1. ~Older(row.sample, row.sample) /\ ~Older(memory.sample, memory.sample)
    BY <1>1, NotOlderThanItself DEF IInv, Typed, TypeOK, Memories
  <2>2. CASE row'.sample = row.sample /\ memory'.sample = memory.sample
    BY <2>1, <2>2
  <2>3. CASE Restart \/ \E c \in Callbacks : SwapState(c)
    <3>1. row' = row /\ memory'.sample = row.sample
      BY <1>1, <2>3, RestartStep, SwapStep DEF SwapState, tables
    <3> QED  BY <1>1, <2>1, <3>1, RowIsNoOlder
  <2>4. ASSUME NEW c \in Callbacks, CommitTelemetry(c) \/ CommitUnanswered(c) PROVE Forward
    <3>1. PICK m \in Samples : m = work[c].message
      BY <1>1, <2>4 DEF CommitTelemetry, CommitUnanswered, IInv, CopiesFollowMessages
    <3>2. memory' = memory
      BY <2>4 DEF CommitTelemetry, CommitUnanswered
    <3>3. CASE row' = row
      BY <2>1, <3>2, <3>3
    <3>4. CASE PersistTelemetry(m) /\ Accepted(m)
      BY <1>1, <2>1, <3>2, <3>4, PersistStep
    <3> QED  BY <2>4, <3>1, <3>3, <3>4 DEF CommitTelemetry, CommitUnanswered, tables
  <2>5. CASE OnlineSweep \/ Tick
    BY <1>1, <2>2, <2>5, SweepStep, TickStep
  <2>6. CASE DbLoop \/ \E c \in Callbacks : HandleRegister(c)
    <3>1. CASE DbLoop
      <4>1. queue # << >> /\ queue \in Seq(Jobs)
        BY <1>1, <3>1 DEF DbLoop, IInv, Typed, TypeOK
      <4>2. Head(queue) \in Jobs
        BY <4>1
      <4> QED  BY <1>1, <2>2, <3>1, <4>2, DoneType DEF DbLoop, IInv
    <3>2. CASE \E c \in Callbacks : HandleRegister(c)
      <4>1. RegisterJob(memory.group) \in Jobs
        BY <1>1 DEF IInv, Typed, TypeOK, Memories, Jobs
      <4> QED  BY <1>1, <2>2, <3>2, <4>1, SubmitType DEF HandleRegister, IInv
    <3> QED  BY <2>6, <3>1, <3>2
  <2>7. CASE RegisterVehicleInMemory
    BY <1>1, <2>2, <2>7 DEF RegisterVehicleInMemory, tables, IInv, Typed, TypeOK, Memories
  <2>8. CASE Revoke \/ (\E k \in DOMAIN enrollments : Activate(k))
              \/ \E g \in Groups : RegisterVehicle(g)
    BY <1>1, <2>2, <2>8 DEF Revoke, Activate, RegisterVehicle, IInv, Typed, TypeOK
  <2>9. CASE \/ (\E d \in Declarations : Start(d)) \/ SendTelemetry \/ CreateEnrollment
             \/ (\E k \in DOMAIN enrollments : ExpireEnrollment(k)) \/ DbLoopFails
             \/ \E c \in Callbacks :
                  \/ \E m \in Samples : ReceiveTelemetry(c, m)
                  \/ \E s \in DOMAIN declares : ReceiveRegister(c, s)
                  \/ PersistCapabilities(c) \/ ClaimRegister(c) \/ CopyState(c) \/ CommitFails(c)
    BY <2>2, <2>9 DEF Start, SendTelemetry, CreateEnrollment, ExpireEnrollment, DbLoopFails,
       ReceiveTelemetry, ReceiveRegister, PersistCapabilities, ClaimRegister, CopyState,
       CommitFails, tables
  <2>10. CASE UNCHANGED vars
    BY <2>10
  <2> HIDE DEF Forward
  <2> QED  BY <1>1, <2>3, <2>4, <2>5, <2>6, <2>7, <2>8, <2>9, <2>10 DEF Next, CallbackStep
<1> QED  BY <1>1, Invariance, PTL DEF Spec, NewestTelemetryWins

-----------------------------------------------------------------------------
(* Outbox.  What is marked delivered was taken by the Broker, whatever the *)
(* timing.  A message has one sender until its claim runs out in a hand:   *)
(* claimOutbox leaves a younger claim alone.                               *)

LEMMA OutboxNumbers ==
    /\ BatchSize \in Nat /\ MaxAttempts \in Nat /\ MaxAttempts >= 1
    /\ ClaimTimeout \in Nat /\ MaxBackoff \in Nat /\ ItemTime \in Nat /\ MaxOutages \in Nat
    /\ Floor \in Int /\ Furthest \in Int /\ Floor < -ClaimTimeout
    /\ ClaimTimeout \in Floor..Furthest /\ 0 \in Floor..Furthest
    /\ MaxBackoff <= Furthest
BY OutboxConstants DEF OutboxConstants, Floor, Furthest

(* What is left of a batch when its first item is done.                    *)
LEMMA Rest ==
    ASSUME NEW S, NEW s \in Seq(S), s # << >>
    PROVE  /\ Head(s) = s[1] /\ Head(s) \in S /\ 1 \in DOMAIN s /\ Len(s) \in Nat /\ Len(s) >= 1
           /\ Tail(s) \in Seq(S) /\ Len(Tail(s)) = Len(s) - 1
           /\ \A k \in DOMAIN Tail(s) : k + 1 \in DOMAIN s /\ k + 1 # 1 /\ Tail(s)[k] = s[k + 1]
           /\ \A j, k \in DOMAIN Tail(s) : j # k => j + 1 # k + 1
OBVIOUS

LEMMA FirstItem ==
    ASSUME NEW s \in Seq(Items), s # << >>
    PROVE  \E it \in Items : it = Head(s) /\ it = s[1] /\ it.id \in Messages
<1>1. Head(s) \in Items /\ Head(s) = s[1]
  OBVIOUS
<1> QED  BY <1>1 DEF Items

LEMMA Listed ==
    ASSUME NEW S, NEW n \in Nat, NEW f, f \in [1..n -> S]
    PROVE  f \in Seq(S) /\ Len(f) = n /\ DOMAIN f = 1..n
OBVIOUS

LEMMA RowFields ==
    ASSUME NEW r \in OutboxRows
    PROVE  /\ r.status \in RowStates /\ r.attempts \in 0..MaxAttempts
           /\ r.due \in Floor..Furthest
           /\ r.due \in Int
           /\ \A st \in RowStates :
                [r EXCEPT !.status = st] \in OutboxRows
                   /\ [r EXCEPT !.status = st].status = st
           /\ \A d \in Floor..Furthest :
                /\ [r EXCEPT !.due = d] \in OutboxRows
                /\ [r EXCEPT !.due = d].status = r.status
                /\ [r EXCEPT !.due = d].attempts = r.attempts
                /\ [r EXCEPT !.due = d].due = d
<1>1. r.status \in RowStates /\ r.attempts \in 0..MaxAttempts
        /\ r.due \in Floor..Furthest
  BY DEF OutboxRows
<1>2. r.due \in Int
  BY <1>1, OutboxNumbers
<1> QED  BY <1>1, <1>2 DEF OutboxRows

-----------------------------------------------------------------------------
(* The outcome of a publication is about the first item in hand, and "ok"  *)
(* says that the Broker has taken it.                                      *)
Truthful ==
    \A i \in Instances :
        /\ outcome[i] # "none" => hand[i] # << >>
        /\ outcome[i] = "ok" => hand[i][1].id \in accepted

OutboxInv == OutboxTypeOK /\ Truthful /\ DeliveredWasAccepted

LEMMA BackoffFits ==
    \A n \in 1..MaxAttempts : Backoff(n) \in Floor..Furthest
<1> SUFFICES ASSUME NEW n \in 1..MaxAttempts PROVE Backoff(n) \in Floor..Furthest
  OBVIOUS
<1>1. PICK q : q = n * n /\ q \in Nat
  BY OutboxNumbers
<1>2. Backoff(n) = IF q > MaxBackoff THEN MaxBackoff ELSE q
  BY <1>1 DEF Backoff
<1>3. \A x \in Nat : x <= MaxBackoff => x \in Floor..Furthest
  BY OutboxNumbers
<1> QED  BY <1>1, <1>2, <1>3, OutboxNumbers

LEMMA MarkedFacts ==
    ASSUME OutboxInv, NEW item \in Items, NEW ok \in BOOLEAN
    PROVE  /\ Marked(item, ok) \in OutboxRows
           /\ Marked(item, ok).status = "delivered" => ok
           /\ Marked(item, ok).status # "absent"
<1>1. rows[item.id] \in OutboxRows /\ item.attempts \in 1..MaxAttempts
  BY DEF OutboxInv, OutboxTypeOK, Items
<1>2. Backoff(item.attempts) \in Floor..Furthest
  BY <1>1, BackoffFits
<1>3. {"delivered", "dead", "pending"} \subseteq RowStates
  BY DEF RowStates
<1>4. CASE ok
  BY <1>1, <1>3, <1>4, RowFields DEF Marked
<1>5. CASE ~ok
  <2>1. PICK d \in Floor..Furthest : d = Backoff(item.attempts)
    BY <1>2
  <2>2. PICK st \in {"dead", "pending"} :
           Marked(item, ok) = [rows[item.id] EXCEPT !.status = st, !.due = d]
    BY <1>5, <2>1 DEF Marked
  <2>3. /\ [rows[item.id] EXCEPT !.status = st, !.due = d] \in OutboxRows
        /\ [rows[item.id] EXCEPT !.status = st, !.due = d].status = st
    BY <1>1, <1>3 DEF OutboxRows
  <2> QED  BY <2>2, <2>3
<1> QED  BY <1>4, <1>5

LEMMA RecoveredFacts ==
    ASSUME OutboxInv, NEW m \in Messages
    PROVE  /\ Recovered[m] \in OutboxRows
           /\ Recovered[m] = rows[m] \/ Recovered[m].status = "pending"
           /\ rows[m].due >= -ClaimTimeout => Recovered[m] = rows[m]
           /\ rows[m].attempts \in 0..MaxAttempts
<1>1. rows[m] \in OutboxRows /\ "pending" \in RowStates
  BY DEF OutboxInv, OutboxTypeOK, RowStates
<1>2. Recovered[m] = IF rows[m].status = "sending" /\ rows[m].due < -ClaimTimeout
                     THEN [rows[m] EXCEPT !.status = "pending", !.due = 0]
                     ELSE rows[m]
  BY DEF Recovered, ClaimRanOut
<1>3. rows[m].due \in Int /\ rows[m].attempts \in 0..MaxAttempts
  BY <1>1, RowFields
<1>4. /\ [rows[m] EXCEPT !.status = "pending", !.due = 0] \in OutboxRows
      /\ [rows[m] EXCEPT !.status = "pending", !.due = 0].status = "pending"
  BY <1>1, OutboxNumbers DEF OutboxRows
<1> QED  BY <1>1, <1>2, <1>3, <1>4, OutboxNumbers

LEMMA NextAttemptFits ==
    ASSUME OutboxInv, NEW m \in Messages
    PROVE  NextAttempt(m) \in 1..MaxAttempts
BY RecoveredFacts, OutboxNumbers DEF NextAttempt

(* What a process has claimed.                                             *)
LEMMA ClaimFacts ==
    ASSUME OutboxInv, NEW i \in Instances, Claim(i)
    PROVE  \E h \in Seq(Items) :
             /\ Len(h) <= BatchSize /\ hand' = [hand EXCEPT ![i] = h]
             /\ \A k \in DOMAIN h : h[k].id \in Ready
             /\ \A j, k \in DOMAIN h : j < k => CreatedBefore(h[j].id, h[k].id)
             /\ rows' \in [Messages -> OutboxRows]
             /\ \A m \in Messages :
                  IF \E k \in DOMAIN h : h[k].id = m
                  THEN rows'[m].status = "sending" /\ rows'[m].due = ClaimTimeout
                  ELSE rows'[m] = Recovered[m]
             /\ \A k \in DOMAIN h : rows'[h[k].id].attempts = h[k].attempts
<1>1. PICK batch \in Batches :
        /\ IsDue(batch)
        /\ rows' = [m \in Messages |->
              IF \E k \in DOMAIN batch : batch[k] = m
              THEN [status |-> "sending", attempts |-> NextAttempt(m), due |-> ClaimTimeout]
              ELSE Recovered[m]]
        /\ hand' = [hand EXCEPT
              ![i] = [k \in DOMAIN batch |->
                        [id |-> batch[k], attempts |-> NextAttempt(batch[k])]]]
  BY DEF Claim
<1>2. PICK n \in 0..BatchSize : batch \in [1..n -> Messages]
  BY DEF Batches
<1>3. PICK h : h = [k \in 1..n |-> [id |-> batch[k], attempts |-> NextAttempt(batch[k])]]
  OBVIOUS
<1>4. \A k \in 1..n : h[k] \in Items /\ h[k].id = batch[k]
  BY <1>2, <1>3, NextAttemptFits DEF Items
<1>5. h \in [1..n -> Items] /\ n \in Nat
  BY <1>3, <1>4, OutboxNumbers
<1>6. h \in Seq(Items) /\ Len(h) = n /\ DOMAIN h = 1..n
  BY <1>5, Listed
<1>7. DOMAIN batch = 1..n
  BY <1>2
<1>8. hand' = [hand EXCEPT ![i] = h]
  BY <1>1, <1>3, <1>7
<1>9. /\ \A k \in 1..n : batch[k] \in Ready
      /\ \A j, k \in 1..n : j < k => CreatedBefore(batch[j], batch[k])
      /\ Len(h) <= BatchSize
  <2>1. IsDue(batch)
    BY <1>1
  <2>2. /\ \A k \in 1..n : batch[k] \in Ready
        /\ \A j, k \in 1..n : j < k => CreatedBefore(batch[j], batch[k])
    BY <1>7, <2>1 DEF IsDue
  <2>3. Len(h) <= BatchSize
    BY <1>2, <1>6, OutboxNumbers
  <2> QED  BY <2>2, <2>3
<1>10. ASSUME NEW m \in Messages
       PROVE  /\ [status |-> "sending", attempts |-> NextAttempt(m),
                  due |-> ClaimTimeout] \in OutboxRows
              /\ Recovered[m] \in OutboxRows
  <2>1. NextAttempt(m) \in 0..MaxAttempts /\ "sending" \in RowStates
    BY NextAttemptFits, OutboxNumbers DEF RowStates
  <2> QED  BY <2>1, RecoveredFacts, OutboxNumbers DEF OutboxRows
<1>11. rows' \in [Messages -> OutboxRows]
  BY <1>1, <1>10
<1>12. \A m \in Messages :
         IF \E k \in 1..n : batch[k] = m
         THEN rows'[m].status = "sending" /\ rows'[m].due = ClaimTimeout
         ELSE rows'[m] = Recovered[m]
  BY <1>1, <1>7
<1>13. /\ \A k \in DOMAIN h : h[k].id \in Ready
       /\ \A j, k \in DOMAIN h : j < k => CreatedBefore(h[j].id, h[k].id)
  BY <1>4, <1>6, <1>9
<1>14. \A m \in Messages :
         IF \E k \in DOMAIN h : h[k].id = m
         THEN rows'[m].status = "sending" /\ rows'[m].due = ClaimTimeout
         ELSE rows'[m] = Recovered[m]
  BY <1>4, <1>6, <1>12
<1>15. \A k \in DOMAIN h : rows'[h[k].id].attempts = h[k].attempts
  <2> SUFFICES ASSUME NEW k \in 1..n PROVE rows'[h[k].id].attempts = h[k].attempts
    BY <1>6
  <2>1. h[k].id = batch[k] /\ batch[k] \in Messages /\ k \in DOMAIN batch
    BY <1>2, <1>4, <1>7
  <2>2. h[k].attempts = NextAttempt(batch[k])
    BY <1>3
  <2>3. rows'[batch[k]] =
          [status |-> "sending", attempts |-> NextAttempt(batch[k]), due |-> ClaimTimeout]
    BY <1>1, <2>1
  <2> QED  BY <2>1, <2>2, <2>3
<1> QED  BY <1>6, <1>8, <1>9, <1>11, <1>13, <1>14, <1>15

-----------------------------------------------------------------------------
(* Deliveries                                                              *)

LEMMA Unchanged ==
    ASSUME OutboxInv
    PROVE  /\ rows \in [Messages -> OutboxRows] /\ created \in Seq(Messages)
           /\ hand \in [Instances -> Seq(Items)]
           /\ \A i \in Instances : Len(hand[i]) <= BatchSize
           /\ outcome \in [Instances -> {"none", "ok", "error"}]
           /\ held \in [Instances -> 0..ItemTime]
           /\ accepted \subseteq Messages /\ outages \in 0..MaxOutages
           /\ overdue \subseteq Messages
BY DEF OutboxInv, OutboxTypeOK

LEMMA EnqueueStep ==
    ASSUME OutboxInv, NEW m \in Messages, Enqueue(m)
    PROVE  OutboxInv' /\ rows'[m].status = "pending" /\ \A n \in Messages : n # m
          => rows'[n] = rows[n]
<1>1. rows[m] \in OutboxRows /\ "pending" \in RowStates
  BY Unchanged DEF RowStates
<1>2. PICK r : r = [rows[m] EXCEPT !.status = "pending", !.due = 0]
  OBVIOUS
<1>3. r \in OutboxRows /\ r.status = "pending"
  BY <1>1, <1>2, OutboxNumbers DEF OutboxRows
<1>4. rows' = [rows EXCEPT ![m] = r]
  BY <1>2 DEF Enqueue
<1>5. /\ rows' \in [Messages -> OutboxRows] /\ rows'[m] = r
      /\ \A n \in Messages : n # m => rows'[n] = rows[n]
  BY <1>3, <1>4, Unchanged
<1>6. created' \in Seq(Messages) /\ UNCHANGED <<hand, outcome, held, accepted, outages, overdue>>
  BY Unchanged DEF Enqueue
<1>7. OutboxTypeOK' /\ Truthful'
  BY <1>5, <1>6 DEF OutboxInv, OutboxTypeOK, Truthful
<1>8. DeliveredWasAccepted'
  BY <1>3, <1>5, <1>6 DEF OutboxInv, DeliveredWasAccepted
<1> QED  BY <1>3, <1>5, <1>7, <1>8 DEF OutboxInv

LEMMA ClaimStep ==
    ASSUME OutboxInv, NEW i \in Instances, Claim(i)
    PROVE  OutboxInv'
<1>1. PICK h \in Seq(Items) :
         /\ Len(h) <= BatchSize /\ hand' = [hand EXCEPT ![i] = h]
         /\ \A k \in DOMAIN h : h[k].id \in Ready
         /\ \A j, k \in DOMAIN h : j < k => CreatedBefore(h[j].id, h[k].id)
         /\ rows' \in [Messages -> OutboxRows]
         /\ \A m \in Messages :
              IF \E k \in DOMAIN h : h[k].id = m
              THEN rows'[m].status = "sending" /\ rows'[m].due = ClaimTimeout
              ELSE rows'[m] = Recovered[m]
  BY ClaimFacts
<1>2. \A m \in Messages : rows'[m].status = "sending" \/ rows'[m] = Recovered[m]
  BY <1>1
<1>3. hand[i] = << >> /\ UNCHANGED <<created, outcome, held, accepted, outages, overdue>>
  BY DEF Claim
<1>4. /\ hand' \in [Instances -> Seq(Items)]
      /\ \A j \in Instances : hand'[j] = IF j = i THEN h ELSE hand[j]
  BY <1>1, Unchanged
<1>5. OutboxTypeOK'
  BY <1>1, <1>3, <1>4 DEF OutboxInv, OutboxTypeOK
<1>6. Truthful'
  BY <1>3, <1>4 DEF OutboxInv, Truthful
<1>7. DeliveredWasAccepted'
  BY <1>2, <1>3, RecoveredFacts DEF OutboxInv, DeliveredWasAccepted
<1> QED  BY <1>5, <1>6, <1>7 DEF OutboxInv

LEMMA PublishStep ==
    ASSUME OutboxInv, NEW i \in Instances, PublishSucceeds(i) \/ PublishFails(i)
    PROVE  OutboxInv'
<1>1. /\ hand[i] # << >> /\ UNCHANGED <<rows, created, hand, held, outages, overdue>>
      /\ outcome' = [outcome EXCEPT ![i] = "ok"] \/ outcome' = [outcome EXCEPT ![i] = "error"]
      /\ accepted' = accepted \/ accepted' = accepted \cup {Head(hand[i]).id}
      /\ outcome' = [outcome EXCEPT ![i] = "ok"] => Head(hand[i]).id \in accepted'
  <2>1. "error" # "ok" /\ [outcome EXCEPT ![i] = "error"][i] = "error"
        /\ [outcome EXCEPT ![i] = "ok"][i] = "ok"
    BY Unchanged
  <2> QED  BY <2>1 DEF PublishSucceeds, PublishFails
<1>2. PICK it \in Items : it = Head(hand[i]) /\ it = hand[i][1] /\ it.id \in Messages
  <2>1. hand[i] \in Seq(Items)
    BY Unchanged
  <2> QED  BY <1>1, <2>1, FirstItem
<1>3. accepted \subseteq accepted' /\ accepted' \subseteq Messages
  BY <1>1, <1>2, Unchanged
<1>4. OutboxTypeOK'
  BY <1>1, <1>3, Unchanged DEF OutboxTypeOK
<1>5. Truthful'
  BY <1>1, <1>2, <1>3, Unchanged DEF OutboxInv, Truthful
<1>6. DeliveredWasAccepted'
  BY <1>1, <1>3 DEF OutboxInv, DeliveredWasAccepted
<1> QED  BY <1>4, <1>5, <1>6 DEF OutboxInv

(* One item less.                                                          *)
LEMMA DropFacts ==
    ASSUME OutboxInv, NEW i \in Instances, Drop(i), outcome[i] # "none"
    PROVE  /\ hand' \in [Instances -> Seq(Items)] /\ hand[i] # << >>
           /\ hand[i] \in Seq(Items)
           /\ \A j \in Instances : /\ hand'[j] = IF j = i THEN Tail(hand[i]) ELSE hand[j]
                                   /\ outcome'[j] = IF j = i THEN "none" ELSE outcome[j]
                                   /\ held'[j] = IF j = i THEN 0 ELSE held[j]
                                   /\ Len(hand'[j]) <= BatchSize
           /\ outcome' \in [Instances -> {"none", "ok", "error"}]
           /\ held' \in [Instances -> 0..ItemTime]
           /\ overdue' = {m \in overdue : \E j \in Instances : Holds(hand'[j], m)}
           /\ overdue' \subseteq Messages
<1>1. hand[i] # << >> /\ hand[i] \in Seq(Items) /\ Len(hand[i]) <= BatchSize
  BY Unchanged DEF OutboxInv, Truthful
<1>2. Tail(hand[i]) \in Seq(Items) /\ Len(Tail(hand[i])) <= BatchSize
  BY <1>1, Rest, OutboxNumbers
<1>3. /\ hand' = [hand EXCEPT ![i] = Tail(hand[i])]
      /\ outcome' = [outcome EXCEPT ![i] = "none"] /\ held' = [held EXCEPT ![i] = 0]
  BY DEF Drop, GoesOn
<1>4. overdue' = {m \in overdue : \E j \in Instances : Holds(hand'[j], m)}
  BY DEF Drop, GoesOn
<1>5. overdue' \subseteq Messages
  BY <1>4, Unchanged
<1> QED  BY <1>1, <1>2, <1>3, <1>4, <1>5, Unchanged, OutboxNumbers

LEMMA MarkStep ==
    ASSUME OutboxInv, NEW i \in Instances, Mark(i)
    PROVE  /\ OutboxInv'
           /\ \A m \in Messages : m # Head(hand[i]).id => rows'[m] = rows[m]
<1>1. outcome[i] # "none" /\ Drop(i) /\ UNCHANGED <<created, accepted, outages>>
  BY DEF Mark
<1>2. hand[i] # << >> /\ hand[i] \in Seq(Items)
  BY <1>1, DropFacts
<1>3. PICK it \in Items : it = Head(hand[i]) /\ it = hand[i][1] /\ it.id \in Messages
  BY <1>2, FirstItem
<1>4. PICK r : r = Marked(it, outcome[i] = "ok")
  OBVIOUS
<1>5. r \in OutboxRows /\ (r.status = "delivered" => it.id \in accepted)
  BY <1>3, <1>4, MarkedFacts DEF OutboxInv, Truthful
<1>6. rows' = [rows EXCEPT ![it.id] = r]
  BY <1>3, <1>4 DEF Mark
<1>7. /\ rows' \in [Messages -> OutboxRows]
      /\ \A m \in Messages : rows'[m] = IF m = it.id THEN r ELSE rows[m]
  BY <1>3, <1>5, <1>6, Unchanged
<1>8. OutboxTypeOK'
  BY <1>1, <1>7, DropFacts DEF OutboxInv, OutboxTypeOK
<1>9. Truthful'
  BY <1>1, DropFacts DEF OutboxInv, Truthful
<1>10. DeliveredWasAccepted'
  BY <1>1, <1>5, <1>7 DEF OutboxInv, DeliveredWasAccepted
<1> QED  BY <1>3, <1>7, <1>8, <1>9, <1>10 DEF OutboxInv

LEMMA MarkFailsStep ==
    ASSUME OutboxInv, NEW i \in Instances, MarkFails(i)
    PROVE  OutboxInv'
<1>1. outcome[i] # "none" /\ Drop(i) /\ UNCHANGED <<rows, created, accepted>>
  BY DEF MarkFails
<1>2. outages' \in 0..MaxOutages
  BY Unchanged, OutboxNumbers DEF MarkFails
<1>3. OutboxTypeOK'
  BY <1>1, <1>2, DropFacts DEF OutboxInv, OutboxTypeOK
<1>4. Truthful'
  BY <1>1, DropFacts DEF OutboxInv, Truthful
<1> QED  BY <1>1, <1>3, <1>4 DEF OutboxInv, DeliveredWasAccepted

LEMMA CrashFacts ==
    ASSUME OutboxInv, NEW i \in Instances, Crash(i)
    PROVE  /\ UNCHANGED <<rows, created, accepted>>
           /\ hand' \in [Instances -> Seq(Items)]
           /\ \A j \in Instances : /\ hand'[j] = IF j = i THEN << >> ELSE hand[j]
                                   /\ outcome'[j] = IF j = i THEN "none" ELSE outcome[j]
                                   /\ held'[j] = IF j = i THEN 0 ELSE held[j]
           /\ outcome' \in [Instances -> {"none", "ok", "error"}]
           /\ held' \in [Instances -> 0..ItemTime]
           /\ outages' \in 0..MaxOutages
           /\ overdue' = {m \in overdue : \E j \in Instances : Holds(hand'[j], m)}
           /\ overdue' \subseteq Messages
<1>1. << >> \in Seq(Items)
  OBVIOUS
<1>2. outages' \in 0..MaxOutages
  BY Unchanged, OutboxNumbers DEF Crash
<1>3. /\ UNCHANGED <<rows, created, accepted>> /\ hand' = [hand EXCEPT ![i] = << >>]
      /\ outcome' = [outcome EXCEPT ![i] = "none"] /\ held' = [held EXCEPT ![i] = 0]
  BY DEF Crash, GoesOn
<1>4. overdue' = {m \in overdue : \E j \in Instances : Holds(hand'[j], m)}
  BY DEF Crash, GoesOn
<1>5. overdue' \subseteq Messages
  BY <1>4, Unchanged
<1> QED  BY <1>1, <1>2, <1>3, <1>4, <1>5, Unchanged, OutboxNumbers

LEMMA CrashStep ==
    ASSUME OutboxInv, NEW i \in Instances, Crash(i)
    PROVE  OutboxInv'
<1>1. Len(<< >>) <= BatchSize
  BY OutboxNumbers
<1>2. OutboxTypeOK'
  BY <1>1, CrashFacts DEF OutboxInv, OutboxTypeOK
<1>3. Truthful'
  BY CrashFacts DEF OutboxInv, Truthful
<1> QED  BY <1>2, <1>3, CrashFacts DEF OutboxInv, DeliveredWasAccepted

LEMMA ClockFacts ==
    ASSUME OutboxInv, AdvanceClock
    PROVE  /\ UNCHANGED <<created, hand, outcome, accepted, outages>>
           /\ rows' \in [Messages -> OutboxRows]
           /\ \A m \in Messages : /\ rows'[m].status = rows[m].status
                                  /\ rows'[m].attempts = rows[m].attempts
                                  /\ rows'[m].due \in Int
           /\ held' \in [Instances -> 0..ItemTime]
           /\ overdue \subseteq overdue' /\ overdue' \subseteq Messages
           /\ \A m \in Messages : \A i \in Instances :
                ClaimRanOut(rows'[m]) /\ Holds(hand[i], m) => m \in overdue'
<1>1. /\ UNCHANGED <<created, hand, outcome, accepted, outages>>
      /\ \A i \in Instances : hand[i] # << >> => held[i] < ItemTime
      /\ rows' = [m \in Messages |->
          IF Waiting(rows[m]) /\ rows[m].due > Floor
          THEN [rows[m] EXCEPT !.due = rows[m].due - 1] ELSE rows[m]]
      /\ held' = [i \in Instances |-> IF hand[i] # << >> THEN held[i] + 1 ELSE 0]
      /\ overdue' = overdue \cup
          {m \in Messages : ClaimRanOut(rows'[m]) /\ \E i \in Instances : Holds(hand[i], m)}
  BY DEF AdvanceClock
<1>2. ASSUME NEW m \in Messages
      PROVE  /\ rows'[m] \in OutboxRows /\ rows'[m].status = rows[m].status
             /\ rows'[m].attempts = rows[m].attempts /\ rows'[m].due \in Int
  <2>1. rows[m] \in OutboxRows /\ rows[m].due \in Floor..Furthest
          /\ rows[m].due \in Int
    BY Unchanged, RowFields
  <2>2. CASE rows'[m] = rows[m]
    BY <2>1, <2>2
  <2>3. CASE rows[m].due > Floor /\ rows'[m] = [rows[m] EXCEPT !.due = rows[m].due - 1]
    <3>1. PICK d \in Floor..Furthest : d = rows[m].due - 1
      BY <2>1, <2>3, OutboxNumbers
    <3>2. d \in Int
      BY <2>1, <3>1
    <3> QED  BY <2>1, <2>3, <3>1, <3>2, RowFields
  <2> QED  BY <1>1, <2>2, <2>3
<1>3. rows' \in [Messages -> OutboxRows]
  BY <1>1, <1>2
<1>4. ASSUME NEW i \in Instances
      PROVE  (IF hand[i] # << >> THEN held[i] + 1 ELSE 0) \in 0..ItemTime
  <2>1. held[i] \in 0..ItemTime
    BY Unchanged
  <2> QED  BY <1>1, <2>1, OutboxNumbers
<1>5. held' \in [Instances -> 0..ItemTime]
  BY <1>1, <1>4
<1>6. overdue \subseteq overdue' /\ overdue' \subseteq Messages
  BY <1>1, Unchanged
<1>7. \A m \in Messages : \A i \in Instances :
         ClaimRanOut(rows'[m]) /\ Holds(hand[i], m) => m \in overdue'
  BY <1>1
<1> QED  BY <1>1, <1>2, <1>3, <1>5, <1>6, <1>7

LEMMA ClockStep ==
    ASSUME OutboxInv, AdvanceClock
    PROVE  OutboxInv'
<1>1. OutboxTypeOK'
  BY ClockFacts DEF OutboxInv, OutboxTypeOK
<1>2. Truthful'
  BY ClockFacts DEF OutboxInv, Truthful
<1>3. DeliveredWasAccepted'
  BY ClockFacts DEF OutboxInv, DeliveredWasAccepted
<1> QED  BY <1>1, <1>2, <1>3 DEF OutboxInv

LEMMA OutboxInitially ==
    OutboxInit => OutboxInv
<1> SUFFICES ASSUME OutboxInit PROVE OutboxInv
  OBVIOUS
<1>1. [status |-> "absent", attempts |-> 0, due |-> 0] \in OutboxRows
  BY OutboxNumbers DEF OutboxRows, RowStates
<1>2. << >> \in Seq(Items) /\ << >> \in Seq(Messages) /\ Len(<< >>) <= BatchSize
  BY OutboxNumbers
<1>3. 0 \in 0..MaxOutages /\ 0 \in 0..ItemTime
  BY OutboxNumbers
<1>4. OutboxTypeOK
  BY <1>1, <1>2, <1>3 DEF OutboxInit, OutboxTypeOK
<1> QED  BY <1>4 DEF OutboxInit, OutboxInv, Truthful, DeliveredWasAccepted

LEMMA OutboxStep ==
    OutboxInv /\ [OutboxNext]_outboxVars => OutboxInv'
<1> SUFFICES ASSUME OutboxInv, [OutboxNext]_outboxVars PROVE OutboxInv'
  OBVIOUS
<1>1. CASE UNCHANGED outboxVars
  BY <1>1 DEF outboxVars, OutboxInv, OutboxTypeOK, Truthful, DeliveredWasAccepted
<1> QED  BY <1>1, EnqueueStep, ClaimStep, PublishStep, MarkStep, MarkFailsStep, CrashStep,
            ClockStep DEF OutboxNext, Work

(* Every row, claimed batch and outcome has the type the code gives it,    *)
(* and the backoff stays within its cap (claimOutbox, markOutbox).         *)
THEOREM OutboxTypes == OutboxSpec => []OutboxTypeOK
<1>1. OutboxInv => OutboxTypeOK
  BY DEF OutboxInv
<1> QED  BY <1>1, OutboxInitially, OutboxStep, PTL DEF OutboxSpec

(* A row is "delivered" only if the Broker took the message, whatever      *)
(* crashes, takeovers of old claims and late updates happened (markOutbox  *)
(* updates the row by id alone, but only after its own publication).       *)
THEOREM DeliveredIsAccepted == OutboxSpec => []DeliveredWasAccepted
<1>1. OutboxInv => DeliveredWasAccepted
  BY DEF OutboxInv
<1> QED  BY <1>1, OutboxInitially, OutboxStep, PTL DEF OutboxSpec

-----------------------------------------------------------------------------
(* Claims.  What is in hand and not overdue is claimed, and the claim has  *)
(* not run out: this is why nobody else takes it.                          *)

ClaimStands(i, k) ==
    LET m == hand[i][k].id IN
    /\ rows[m].status = "sending" /\ rows[m].attempts = hand[i][k].attempts
    /\ rows[m].due >= -ClaimTimeout

OnlyHere(i, k) ==
    \A j \in Instances : \A n \in DOMAIN hand[j] :
        hand[j][n].id = hand[i][k].id => j = i /\ n = k

CreatedOnce ==
    /\ \A k \in DOMAIN created : rows[created[k]].status # "absent"
    /\ \A j, k \in DOMAIN created : j # k => created[j] # created[k]

CInv ==
    /\ CreatedOnce
    /\ \A i \in Instances : \A k \in DOMAIN hand[i] :
          hand[i][k].id \notin overdue => ClaimStands(i, k) /\ OnlyHere(i, k)

LEMMA InHand ==
    ASSUME OutboxInv, NEW i \in Instances, NEW k \in DOMAIN hand[i]
    PROVE  hand[i] \in Seq(Items) /\ hand[i][k].id \in Messages /\ Holds(hand[i], hand[i][k].id)
<1>1. hand[i] \in Seq(Items) /\ hand[i][k] \in Items
  BY Unchanged
<1> QED  BY <1>1 DEF Items, Holds

(* Such a row is not ready to be claimed, nor does claimOutbox touch it.   *)
LEMMA LeftAlone ==
    ASSUME OutboxInv, CInv, NEW i \in Instances, NEW k \in DOMAIN hand[i],
           hand[i][k].id \notin overdue
    PROVE  /\ hand[i][k].id \notin Ready
           /\ Recovered[hand[i][k].id] = rows[hand[i][k].id]
<1>1. PICK m \in Messages : m = hand[i][k].id
  BY InHand
<1>2. rows[m].status = "sending" /\ rows[m].due >= -ClaimTimeout
  BY <1>1 DEF CInv, ClaimStands
<1>3. Recovered[m] = rows[m]
  BY <1>2, RecoveredFacts
<1> QED  BY <1>1, <1>2, <1>3 DEF Ready

LEMMA OrderIsStrict == OutboxInv /\ CreatedOnce => \A m : ~CreatedBefore(m, m)
<1> SUFFICES ASSUME OutboxInv, CreatedOnce, NEW m, NEW j \in DOMAIN created,
   NEW k \in DOMAIN created,
                    j < k, created[j] = m, created[k] = m
             PROVE  FALSE
  BY DEF CreatedBefore
<1>1. created \in Seq(Messages)
  BY Unchanged
<1>2. j # k
  BY <1>1
<1> QED  BY <1>2 DEF CreatedOnce

LEMMA ClaimExcludes ==
    ASSUME OutboxInv, CInv, NEW i \in Instances, Claim(i)
    PROVE  CInv'
<1>1. PICK h \in Seq(Items) :
         /\ Len(h) <= BatchSize /\ hand' = [hand EXCEPT ![i] = h]
         /\ \A k \in DOMAIN h : h[k].id \in Ready
         /\ \A j, k \in DOMAIN h : j < k => CreatedBefore(h[j].id, h[k].id)
         /\ rows' \in [Messages -> OutboxRows]
         /\ \A m \in Messages :
              IF \E k \in DOMAIN h : h[k].id = m
              THEN rows'[m].status = "sending" /\ rows'[m].due = ClaimTimeout
              ELSE rows'[m] = Recovered[m]
         /\ \A k \in DOMAIN h : rows'[h[k].id].attempts = h[k].attempts
  BY ClaimFacts
<1>2. UNCHANGED <<created, overdue>>
  BY DEF Claim
<1>3. \A j \in Instances : hand'[j] = IF j = i THEN h ELSE hand[j]
  BY <1>1, Unchanged
<1>4. ASSUME NEW j \in Instances, j # i, NEW k \in DOMAIN hand[j], hand[j][k].id \notin overdue
      PROVE  /\ rows'[hand[j][k].id] = rows[hand[j][k].id]
             /\ \A l \in DOMAIN h : h[l].id # hand[j][k].id
  <2>1. hand[j][k].id \in Messages
    BY InHand
  <2>2. /\ hand[j][k].id \notin Ready
        /\ Recovered[hand[j][k].id] = rows[hand[j][k].id]
    BY <1>4, LeftAlone
  <2> QED  BY <1>1, <2>1, <2>2
<1>5. ASSUME NEW j \in DOMAIN h, NEW k \in DOMAIN h, h[j].id = h[k].id PROVE j = k
  <2>1. j < k \/ k < j \/ j = k
    BY <1>1
  <2>2. \A m : ~CreatedBefore(m, m)
    BY OrderIsStrict DEF CInv
  <2> QED  BY <1>1, <1>5, <2>1, <2>2
<1>6. ASSUME NEW k \in DOMAIN h, h[k].id \notin overdue
      PROVE  ClaimStands(i, k)' /\ OnlyHere(i, k)'
  <2>1. h[k].id \in Messages /\ hand'[i] = h
    BY <1>1, <1>3 DEF Ready
  <2>2. rows'[h[k].id].status = "sending" /\ rows'[h[k].id].due = ClaimTimeout
    BY <1>1, <2>1
  <2>3. ClaimStands(i, k)'
    BY <1>1, <2>1, <2>2, OutboxNumbers DEF ClaimStands
  <2>4. OnlyHere(i, k)'
    BY <1>3, <1>4, <1>5, <1>6, <2>1 DEF OnlyHere
  <2> QED  BY <2>3, <2>4
<1>7. ASSUME NEW j \in Instances, j # i, NEW k \in DOMAIN hand[j], hand[j][k].id \notin overdue
      PROVE  ClaimStands(j, k)' /\ OnlyHere(j, k)'
  <2>1. hand'[j] = hand[j] /\ ClaimStands(j, k) /\ OnlyHere(j, k)
    BY <1>3, <1>7 DEF CInv
  <2>2. ClaimStands(j, k)'
    BY <1>4, <1>7, <2>1 DEF ClaimStands
  <2>3. OnlyHere(j, k)'
    BY <1>3, <1>4, <1>7, <2>1 DEF OnlyHere
  <2> QED  BY <2>2, <2>3
<1>8. CreatedOnce'
  <2>1. \A m \in Messages : rows[m].status # "absent" => rows'[m].status # "absent"
    BY <1>1, RecoveredFacts
  <2>2. \A k \in DOMAIN created : created[k] \in Messages
    BY Unchanged
  <2> QED  BY <1>2, <2>1, <2>2 DEF CInv, CreatedOnce
<1> QED  BY <1>2, <1>3, <1>6, <1>7, <1>8 DEF CInv

(* A step after which every process has what it had, or the rest of it,    *)
(* and the claims of what is not overdue stand.                            *)
LEMMA HandsShrink ==
    ASSUME OutboxInv, CInv, CreatedOnce',
           \A i \in Instances : \E d \in {0, 1} : \A k \in DOMAIN hand'[i] :
              k \in Int /\ k + d \in DOMAIN hand[i] /\ hand'[i][k] = hand[i][k + d],
           \A i \in Instances : \A k \in DOMAIN hand'[i] :
              hand'[i][k].id \notin overdue' =>
                 hand'[i][k].id \notin overdue /\ ClaimStands(i, k)'
    PROVE  CInv'
<1> SUFFICES ASSUME NEW i \in Instances, NEW k \in DOMAIN hand'[i],
                    hand'[i][k].id \notin overdue',
                    NEW j \in Instances, NEW n \in DOMAIN hand'[j],
                    hand'[j][n].id = hand'[i][k].id
             PROVE  j = i /\ n = k
  BY DEF CInv, OnlyHere
<1>1. PICK d \in {0, 1} : \A l \in DOMAIN hand'[i] :
         l \in Int /\ l + d \in DOMAIN hand[i] /\ hand'[i][l] = hand[i][l + d]
  OBVIOUS
<1>2. PICK e \in {0, 1} : \A l \in DOMAIN hand'[j] :
         l \in Int /\ l + e \in DOMAIN hand[j] /\ hand'[j][l] = hand[j][l + e]
  OBVIOUS
<1>3. OnlyHere(i, k + d)
  BY <1>1 DEF CInv
<1>4. j = i /\ n + e = k + d
  BY <1>1, <1>2, <1>3 DEF OnlyHere
<1>5. j = i /\ n + d \in DOMAIN hand[i] /\ hand[i][n + d] = hand'[i][n]
  BY <1>1, <1>4
<1>6. n + d = k + d
  BY <1>1, <1>3, <1>5 DEF OnlyHere
<1> QED  BY <1>1, <1>2, <1>4, <1>6

LEMMA EnqueueExcludes ==
    ASSUME OutboxInv, CInv, NEW m \in Messages, Enqueue(m)
    PROVE  CInv'
<1>1. /\ rows'[m].status = "pending" /\ rows[m].status = "absent"
      /\ \A n \in Messages : n # m => rows'[n] = rows[n]
      /\ UNCHANGED <<hand, overdue>> /\ created' = Append(created, m)
  BY EnqueueStep DEF Enqueue
<1>2. ASSUME NEW i \in Instances, NEW k \in DOMAIN hand[i], hand[i][k].id \notin overdue
      PROVE  ClaimStands(i, k)' /\ OnlyHere(i, k)'
  <2>1. hand[i][k].id \in Messages
    BY InHand
  <2>2. ClaimStands(i, k) /\ OnlyHere(i, k)
    BY <1>2 DEF CInv
  <2>3. hand[i][k].id # m
    BY <1>1, <2>2 DEF ClaimStands
  <2>4. ClaimStands(i, k)'
    BY <1>1, <2>1, <2>2, <2>3 DEF ClaimStands
  <2> QED  BY <1>1, <2>2, <2>4 DEF OnlyHere
<1>3. CreatedOnce'
  <2>1. created \in Seq(Messages)
    BY Unchanged
  <2>2. \A k \in DOMAIN created : created[k] \in Messages /\ created[k] # m
    BY <1>1, <2>1 DEF CInv, CreatedOnce
  <2>3. PICK n \in Nat : n = Len(created) /\ DOMAIN created = 1..n
    BY <2>1
  <2>4. /\ DOMAIN created' = 1..n + 1 /\ created'[n + 1] = m
        /\ \A k \in 1..n : created'[k] = created[k]
    BY <1>1, <2>1, <2>3
  <2>5. \A k \in 1..n + 1 : k = n + 1 \/ k \in 1..n
    BY <2>3
  <2>6. \A k \in 1..n : rows'[created[k]].status # "absent"
    BY <1>1, <2>2, <2>3 DEF CInv, CreatedOnce
  <2>7. \A k \in DOMAIN created' : rows'[created'[k]].status # "absent"
    BY <1>1, <2>4, <2>5, <2>6
  <2>8. \A j, k \in 1..n : j # k => created[j] # created[k]
    BY <2>3 DEF CInv, CreatedOnce
  <2>9. \A j, k \in DOMAIN created' : j # k => created'[j] # created'[k]
    BY <2>2, <2>3, <2>4, <2>5, <2>8
  <2> QED  BY <2>7, <2>9 DEF CreatedOnce
<1> QED  BY <1>1, <1>2, <1>3 DEF CInv

(* The row of the first item changes or not; those of the others do not.   *)
(* Whoever else has the first item has it overdue.                         *)
LEMMA DropExcludes ==
    ASSUME OutboxInv, CInv, NEW i \in Instances, Drop(i), outcome[i] # "none",
              created' = created,
           \A m \in Messages : m # Head(hand[i]).id => rows'[m] = rows[m],
           \A m \in Messages : rows[m].status # "absent" => rows'[m].status # "absent"
    PROVE  CInv'
<1>1. /\ hand[i] # << >> /\ hand[i] \in Seq(Items)
      /\ \A j \in Instances : hand'[j] = IF j = i THEN Tail(hand[i]) ELSE hand[j]
      /\ overdue' = {m \in overdue : \E j \in Instances : Holds(hand'[j], m)}
  BY DropFacts
<1>2. /\ Head(hand[i]) = hand[i][1] /\ 1 \in DOMAIN hand[i]
      /\ \A k \in DOMAIN Tail(hand[i]) :
            /\ k + 1 \in DOMAIN hand[i] /\ k + 1 # 1 /\ Tail(hand[i])[k] = hand[i][k + 1]
            /\ k \in Int
  BY <1>1
<1>3. ASSUME NEW j \in Instances, NEW k \in DOMAIN hand'[j], NEW d \in {0, 1},
             k \in Int, d = (IF j = i THEN 1 ELSE 0),
             k + d \in DOMAIN hand[j], hand'[j][k] = hand[j][k + d],
             hand'[j][k].id \notin overdue'
      PROVE  hand'[j][k].id \notin overdue /\ ClaimStands(j, k)'
  <2>1. PICK m \in Messages : m = hand[j][k + d].id
    BY <1>3, InHand
  <2>2. m \notin overdue
    BY <1>1, <1>3, <2>1 DEF Holds
  <2>3. ClaimStands(j, k + d) /\ OnlyHere(j, k + d)
    BY <1>3, <2>1, <2>2 DEF CInv
  <2>4. j = i => k + d # 1
    BY <1>1, <1>2, <1>3
  <2>5. hand[i][1].id # m
    BY <1>2, <2>1, <2>3, <2>4 DEF OnlyHere
  <2>6. rows'[m] = rows[m]
    BY <1>2, <2>5
  <2> QED  BY <1>3, <2>1, <2>2, <2>3, <2>6 DEF ClaimStands
<1>4. ASSUME NEW j \in Instances
      PROVE  \E d \in {0, 1} :
               /\ d = IF j = i THEN 1 ELSE 0
               /\ \A k \in DOMAIN hand'[j] :
                    k \in Int /\ k + d \in DOMAIN hand[j] /\ hand'[j][k] = hand[j][k + d]
  <2>1. CASE j = i
    BY <1>1, <1>2, <2>1
  <2>2. CASE j # i
    <3>1. hand'[j] = hand[j] /\ hand[j] \in Seq(Items)
      BY <1>1, <2>2, Unchanged
    <3>2. \A k \in DOMAIN hand[j] : k \in Int /\ k + 0 = k
      BY <3>1
    <3> QED  BY <2>2, <3>1, <3>2
  <2> QED  BY <2>1, <2>2
<1>5. CreatedOnce'
  <2>1. \A k \in DOMAIN created : created[k] \in Messages
    BY Unchanged
  <2> QED  BY <2>1 DEF CInv, CreatedOnce
<1>6. \A j \in Instances : \A k \in DOMAIN hand'[j] :
         hand'[j][k].id \notin overdue' =>
            hand'[j][k].id \notin overdue /\ ClaimStands(j, k)'
  BY <1>3, <1>4
<1>7. \A j \in Instances : \E d \in {0, 1} : \A k \in DOMAIN hand'[j] :
         k \in Int /\ k + d \in DOMAIN hand[j] /\ hand'[j][k] = hand[j][k + d]
  BY <1>4
<1> QED  BY <1>5, <1>6, <1>7, HandsShrink

LEMMA MarkExcludes ==
    ASSUME OutboxInv, CInv, NEW i \in Instances, Mark(i) \/ MarkFails(i)
    PROVE  CInv'
<1>1. Drop(i) /\ outcome[i] # "none" /\ created' = created
  BY DEF Mark, MarkFails
<1>2. \A m \in Messages : m # Head(hand[i]).id => rows'[m] = rows[m]
  BY MarkStep DEF MarkFails
<1>3. ASSUME NEW m \in Messages, rows[m].status # "absent" PROVE rows'[m].status # "absent"
  <2>1. CASE rows' = rows
    BY <1>3, <2>1
  <2>2. CASE Mark(i)
    <3>1. hand[i] # << >> /\ hand[i] \in Seq(Items)
      BY <1>1, DropFacts
    <3>2. PICK it \in Items : it = Head(hand[i]) /\ it.id \in Messages
      BY <3>1, FirstItem
    <3>3. PICK r : r = Marked(it, outcome[i] = "ok")
      OBVIOUS
    <3>4. r.status # "absent"
      BY <3>2, <3>3, MarkedFacts
    <3>5. rows' = [rows EXCEPT ![it.id] = r]
      BY <2>2, <3>2, <3>3 DEF Mark
    <3> QED  BY <1>3, <3>2, <3>4, <3>5, Unchanged
  <2> QED  BY <2>1, <2>2 DEF MarkFails
<1> QED  BY <1>1, <1>2, <1>3, DropExcludes

LEMMA CrashExcludes ==
    ASSUME OutboxInv, CInv, NEW i \in Instances, Crash(i)
    PROVE  CInv'
<1>1. /\ UNCHANGED <<rows, created>>
      /\ \A j \in Instances : hand'[j] = IF j = i THEN << >> ELSE hand[j]
      /\ overdue' = {m \in overdue : \E j \in Instances : Holds(hand'[j], m)}
  BY CrashFacts
<1>2. DOMAIN << >> = {}
  OBVIOUS
<1>3. \A j \in Instances : DOMAIN hand'[j] # {} => hand'[j] = hand[j]
  BY <1>1, <1>2
<1>4. ASSUME NEW j \in Instances, NEW k \in DOMAIN hand'[j], hand'[j][k].id \notin overdue'
      PROVE  ClaimStands(j, k)' /\ OnlyHere(j, k)'
  <2>1. k \in DOMAIN hand[j] /\ hand'[j] = hand[j]
    BY <1>3
  <2>2. hand[j][k].id \notin overdue
    BY <1>1, <1>4, <2>1 DEF Holds
  <2>3. ClaimStands(j, k) /\ OnlyHere(j, k)
    BY <2>1, <2>2 DEF CInv
  <2> QED  BY <1>1, <1>3, <2>1, <2>3 DEF ClaimStands, OnlyHere
<1> QED  BY <1>1, <1>4 DEF CInv, CreatedOnce

LEMMA ClockExcludes ==
    ASSUME OutboxInv, CInv, AdvanceClock
    PROVE  CInv'
<1>1. UNCHANGED <<hand, created>> /\ \A m \in Messages : rows'[m].status = rows[m].status
  BY ClockFacts
<1>2. ASSUME NEW i \in Instances, NEW k \in DOMAIN hand[i], hand[i][k].id \notin overdue'
      PROVE  ClaimStands(i, k)' /\ OnlyHere(i, k)'
  <2>1. PICK m \in Messages : m = hand[i][k].id /\ Holds(hand[i], m)
    BY InHand
  <2>2. ClaimStands(i, k) /\ OnlyHere(i, k)
    BY <1>2, ClockFacts DEF CInv
  <2>3. rows'[m].status = "sending" /\ rows'[m].attempts = hand[i][k].attempts
    BY <2>1, <2>2, ClockFacts DEF ClaimStands
  <2>4. rows'[m].due >= -ClaimTimeout
    <3>1. ~ClaimRanOut(rows'[m]) /\ rows'[m].due \in Int
      BY <1>2, <2>1, ClockFacts
    <3> QED  BY <2>3, <3>1, OutboxNumbers DEF ClaimRanOut
  <2>5. ClaimStands(i, k)'
    BY <1>1, <2>1, <2>3, <2>4 DEF ClaimStands
  <2> QED  BY <1>1, <2>2, <2>5 DEF OnlyHere
<1>3. \A k \in DOMAIN created : created[k] \in Messages
  BY Unchanged
<1>4. CreatedOnce'
  BY <1>1, <1>3 DEF CInv, CreatedOnce
<1> QED  BY <1>1, <1>2, <1>4 DEF CInv

LEMMA ClaimsStep ==
    OutboxInv /\ CInv /\ [OutboxNext]_outboxVars => CInv'
<1> SUFFICES ASSUME OutboxInv, CInv, [OutboxNext]_outboxVars PROVE CInv'
  OBVIOUS
<1>1. ASSUME UNCHANGED <<rows, created, hand, overdue>> PROVE CInv'
  BY <1>1 DEF CInv, ClaimStands, OnlyHere, CreatedOnce
<1>2. ASSUME NEW i \in Instances, PublishSucceeds(i) \/ PublishFails(i) PROVE CInv'
  BY <1>1, <1>2 DEF PublishSucceeds, PublishFails
<1>3. CASE UNCHANGED outboxVars
  BY <1>1, <1>3 DEF outboxVars
<1> QED  BY <1>2, <1>3, EnqueueExcludes, ClaimExcludes, MarkExcludes, CrashExcludes,
            ClockExcludes DEF OutboxNext, Work

(* As long as its claim has not run out in a hand, a message has one       *)
(* sender, and its row is the one that sender claimed: whatever the batch  *)
(* size, the time an item takes, the crashes and the failed updates        *)
(* (claimOutbox, markOutbox).                                              *)
THEOREM OneSender == OutboxSpec => []ClaimsAreExclusive
<1>1. OutboxInit => CInv
  BY DEF OutboxInit, CInv, CreatedOnce
<1>2. CInv => ClaimsAreExclusive
  BY DEF CInv, ClaimStands, OnlyHere, ClaimsAreExclusive
<1> QED  BY <1>1, <1>2, ClaimsStep, OutboxInitially, OutboxStep, PTL DEF OutboxSpec

=============================================================================
