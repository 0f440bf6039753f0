--------------------------- MODULE NavigationRoute ---------------------------
(***************************************************************************)
(* A navigation task from the operator to the vehicle and back.            *)
(*                                                                         *)
(*   NavStore (server/fleet/nav.go): the table navigation_routes, and the  *)
(*     map ns.routes that every reader and Cancel look at;                 *)
(*   HandleNavigationAck (server/fleet/nav_ack.go): the transaction that   *)
(*     consumes an acknowledgement, and the update of the map that follows;*)
(*   the outbox (server/fleet/outbox.go), here only as at-least-once       *)
(*     delivery of the command and the projection markDispatched;          *)
(*   NavigationBridge (vehicle/adapters/ros1/ros1_node.py), which drives   *)
(*     one route at a time through move_base.                              *)
(*                                                                         *)
(* One vehicle, one Fleet process.  HTTP handlers and MQTT callbacks are   *)
(* goroutines (SetOrderMatters(false)): Workers.  An operation takes one   *)
(* step per transaction and one per section under ns.mu, so that others    *)
(* may run in between.  Callbacks run in any order, and an acknowledgement *)
(* may be lost, dead-lettered after an error or overtaken: none is ever    *)
(* certain to be handled.                                                  *)
(***************************************************************************)
EXTENDS Integers, Sequences

CONSTANTS
    Routes,
    Workers,            \* goroutines of the Fleet process
    Cancellable,        \* bound: the tasks an operator may cancel
    Restarts,           \* whether the Fleet process may restart
    MaxDeliveries,      \* bound: times a command reaches the vehicle
    MaxHandled,         \* bound: last acknowledgement that reaches the platform
    MaxRecent           \* how many results the bridge remembers (128)

NoRoute == "none"

ASSUME NavigationConstants ==
    /\ NoRoute \notin Routes
    /\ Cancellable \subseteq Routes /\ Restarts \in BOOLEAN
    /\ MaxDeliveries \in Nat \ {0} /\ MaxRecent \in Nat \ {0}
    /\ MaxHandled \in Nat

Open == {"queued", "dispatched", "accepted", "running"}

Terminal == {"completed", "cancelled", "cancel_rejected", "rejected", "failed"}

Statuses == {"absent", "cancel_requested"} \cup Open \cup Terminal

Actions == {"DISPATCH", "CANCEL"}

Results ==
    {"ACCEPTED", "STARTED", "COMPLETED", "REJECTED", "FAILED", "CANCELLED"}

Acks == [route : Routes, action : Actions, result : Results]

Steps ==
    {"idle", "put", "cancelling", "cancelled", "delivered", "dispatched", "acked"}

Stages == {"idle", "accepted", "driving", "decided", "closing"}

VARIABLES
    row,            \* navigation_routes.status, "absent" where there is no row
    memory,         \* ns.routes[id].Status
    worker,         \* what each goroutine does next
    commands,       \* outbox: "none", "pending" or "delivered"
    deliveries,     \* how often each command reached the vehicle
    bridge,         \* the route the bridge drives and how far it got
    recent,         \* recent_results
    acks,           \* NavigationAcks sent, in order of their sequence number
    cursor          \* inbound_message_cursors.last_sequence

vars == <<row, memory, worker, commands, deliveries, bridge, recent, acks, cursor>>

vehicle == <<deliveries, bridge, recent, acks>>

Idle == [step |-> "idle", route |-> NoRoute, status |-> "absent"]

Parked == [route |-> NoRoute, stage |-> "idle", cancel |-> FALSE, result |-> "ACCEPTED"]

Init ==
    /\ row = [r \in Routes |-> "absent"]
    /\ memory = [r \in Routes |-> "absent"]
    /\ worker = [w \in Workers |-> Idle]
    /\ commands = [r \in Routes |-> [a \in Actions |-> "none"]]
    /\ deliveries = [r \in Routes |-> [a \in Actions |-> 0]]
    /\ bridge = Parked
    /\ recent = << >>
    /\ acks = << >>
    /\ cursor = 0

Doing(step, r, status) == [step |-> step, route |-> r, status |-> status]

Begin(w, step, r, status) ==
    /\ worker[w] = Idle
    /\ worker' = [worker EXCEPT ![w] = Doing(step, r, status)]

(* The transaction commits.  The goroutine is told so and goes on with its *)
(* next step, or the answer is lost: it returns the error, and what it     *)
(* would have put into the map is not put there.                           *)
Commits(w, next) ==
    \E then \in {next, Idle} : worker' = [worker EXCEPT ![w] = then]

End(w, step) ==
    /\ worker[w].step = step
    /\ worker' = [worker EXCEPT ![w] = Idle]

-----------------------------------------------------------------------------
(* Submit: the row and the command in one transaction, then the map.       *)

Submit(w, r) ==
    /\ row[r] = "absent"
    /\ worker[w] = Idle
    /\ Commits(w, Doing("put", r, "queued"))
    /\ row' = [row EXCEPT ![r] = "queued"]
    /\ commands' = [commands EXCEPT ![r]["DISPATCH"] = "pending"]
    /\ UNCHANGED <<memory, vehicle, cursor>>

SubmitSettles(w) ==
    /\ End(w, "put")
    /\ memory' = [memory EXCEPT ![worker[w].route] = "queued"]
    /\ UNCHANGED <<row, commands, vehicle, cursor>>

-----------------------------------------------------------------------------
(* Cancel: the status is read from the map, the row overwritten by         *)
(* persistTx whatever it holds by then, and the map updated afterwards.    *)
(* Asking again for a requested cancellation changes nothing.              *)

CancelReads(w, r) ==
    /\ r \in Cancellable
    /\ memory[r] \in Open
    /\ Begin(w, "cancelling", r, "cancel_requested")
    /\ UNCHANGED <<row, memory, commands, vehicle, cursor>>

CancelCommits(w) ==
    LET r == worker[w].route
    IN  /\ worker[w].step = "cancelling"
        /\ Commits(w, Doing("cancelled", r, "cancel_requested"))
        /\ row' = [row EXCEPT ![r] = "cancel_requested"]
        /\ commands' = [commands EXCEPT ![r]["CANCEL"] = "pending"]
        /\ UNCHANGED <<memory, vehicle, cursor>>

(* The transaction is rolled back: Cancel returns the error.               *)
CancelFails(w) ==
    /\ End(w, "cancelling")
    /\ UNCHANGED <<row, memory, commands, vehicle, cursor>>

CancelSettles(w) ==
    /\ End(w, "cancelled")
    /\ memory' = [memory EXCEPT ![worker[w].route] = "cancel_requested"]
    /\ UNCHANGED <<row, commands, vehicle, cursor>>

-----------------------------------------------------------------------------
(* The outbox loop, a single goroutine, marks a command delivered, and     *)
(* markDispatched then projects the Broker's acceptance.                   *)

OutboxSteps == {"delivered", "dispatched"}

OutboxDelivers(w, r, a) ==
    /\ commands[r][a] = "pending"
    /\ \A u \in Workers : worker[u].step \notin OutboxSteps
    /\ Begin(w, "delivered", r, "dispatched")
    /\ commands' = [commands EXCEPT ![r][a] = "delivered"]
    /\ UNCHANGED <<row, memory, vehicle, cursor>>

DispatchCommits(w) ==
    LET r == worker[w].route
    IN  /\ worker[w].step = "delivered"
        /\ Commits(w, Doing("dispatched", r, "dispatched"))
        /\ row[r] \in {"queued", "cancel_requested"}
        /\ row' = [row EXCEPT ![r] = IF @ = "queued" THEN "dispatched" ELSE @]
        /\ UNCHANGED <<memory, commands, vehicle, cursor>>

(* The UPDATE fails, or finds no row to update: markDispatched returns.    *)
DispatchReturns(w) ==
    /\ End(w, "delivered")
    /\ UNCHANGED <<row, memory, commands, vehicle, cursor>>

DispatchSettles(w) ==
    /\ End(w, "dispatched")
    /\ memory' = [memory EXCEPT
          ![worker[w].route] = IF @ = "queued" THEN "dispatched" ELSE @]
    /\ UNCHANGED <<row, commands, vehicle, cursor>>

-----------------------------------------------------------------------------
(* HandleNavigationAck                                                     *)

(* navigationAckTransition: the statuses each kind of acknowledgement is   *)
(* allowed in, and the status it leads to.                                 *)
DispatchTransitions ==
    {[action |-> "DISPATCH", result |-> "ACCEPTED",
      from |-> {"queued", "dispatched", "accepted"}, to |-> "accepted"],
     [action |-> "DISPATCH", result |-> "STARTED", from |-> Open, to |-> "running"],
     [action |-> "DISPATCH", result |-> "COMPLETED",
      from |-> Open \cup {"completed"}, to |-> "completed"],
     [action |-> "DISPATCH", result |-> "REJECTED",
      from |-> Open \cup {"rejected"}, to |-> "rejected"],
     [action |-> "DISPATCH", result |-> "FAILED",
      from |-> Open \cup {"failed"}, to |-> "failed"]}

(* Mutant: the request's acceptance is taken for the cancellation.         *)
CancelTransitionsHasty ==
    {[action |-> "CANCEL", result |-> "ACCEPTED",
      from |-> {"cancel_requested"}, to |-> "cancelled"]}

CancelTransitions ==
    {[action |-> "CANCEL", result |-> "ACCEPTED",
      from |-> {"cancel_requested"}, to |-> "cancel_requested"],
     [action |-> "CANCEL", result |-> "CANCELLED",
      from |-> {"cancel_requested", "cancelled"}, to |-> "cancelled"],
     [action |-> "CANCEL", result |-> "REJECTED",
      from |-> {"cancel_requested", "cancel_rejected"}, to |-> "cancel_rejected"],
     [action |-> "CANCEL", result |-> "FAILED",
      from |-> {"cancel_requested", "cancel_rejected"}, to |-> "cancel_rejected"]}

AckTransitions == DispatchTransitions \cup CancelTransitions

(* Mutant: an acknowledgement of an earlier stage is accepted afterwards.  *)
AllowedInAnyStatus(ack) ==
    {t \in AckTransitions : t.action = ack.action /\ t.result = ack.result}

Allowed(ack) ==
    {t \in AckTransitions :
        /\ t.action = ack.action /\ t.result = ack.result
        /\ row[ack.route] \in t.from}

(* AcceptInboundSequenceTx: the cursor only moves up.                      *)
NotSeen(i) == i \in (cursor + 1)..Len(acks) /\ i <= MaxHandled

(* The transaction: a transition that is refused is rolled back and does   *)
(* not consume the sequence number.                                        *)
AckCommits(w, i) ==
    /\ NotSeen(i)
    /\ worker[w] = Idle
    /\ \E t \in Allowed(acks[i]) :
          /\ Commits(w, Doing("acked", acks[i].route, t.to))
          /\ row' = [row EXCEPT ![acks[i].route] = t.to]
    /\ cursor' = i
    /\ UNCHANGED <<memory, commands, vehicle>>

(* A route that Submit has not put into the map yet is left out.           *)
AckSettles(w) ==
    /\ End(w, "acked")
    /\ memory' = [memory EXCEPT
          ![worker[w].route] = IF @ = "absent" THEN @ ELSE worker[w].status]
    /\ UNCHANGED <<row, commands, vehicle, cursor>>

-----------------------------------------------------------------------------
(* load: a new process takes the map from the table; what the goroutines   *)
(* of the old one had not committed is gone.                               *)

Restart ==
    /\ Restarts
    /\ memory' = row
    /\ worker' = [w \in Workers |-> Idle]
    /\ UNCHANGED <<row, commands, vehicle, cursor>>

-----------------------------------------------------------------------------
(* NavigationBridge.on_command                                             *)

cloud == <<row, memory, worker, commands, cursor>>

Reply(r, action, result) ==
    acks' = Append(acks, [route |-> r, action |-> action, result |-> result])

Receive(r, a) ==
    /\ commands[r][a] # "none"
    /\ deliveries[r][a] < MaxDeliveries
    /\ deliveries' = [deliveries EXCEPT ![r][a] = @ + 1]

ReceiveNew(r) ==
    /\ \A k \in DOMAIN recent : recent[k].route # r
    /\ bridge.route = NoRoute
    /\ Receive(r, "DISPATCH")
    /\ bridge' = [Parked EXCEPT !.route = r, !.stage = "accepted"]
    /\ Reply(r, "DISPATCH", "ACCEPTED")
    /\ UNCHANGED <<recent, cloud>>

(* A command that comes again is answered with the result of the first.    *)
ReceiveKnown(r) ==
    /\ \E k \in DOMAIN recent :
          recent[k].route = r /\ Reply(r, "DISPATCH", recent[k].result)
    /\ Receive(r, "DISPATCH")
    /\ UNCHANGED <<bridge, recent, cloud>>

(* Mutant: a command that comes while another route is driven is dropped.  *)
ReceiveBusyDrops(r) ==
    /\ \A k \in DOMAIN recent : recent[k].route # r
    /\ bridge.route # NoRoute
    /\ Receive(r, "DISPATCH")
    /\ UNCHANGED <<bridge, recent, acks, cloud>>

(* A route is being driven, this one or another.                           *)
ReceiveBusy(r) ==
    /\ \A k \in DOMAIN recent : recent[k].route # r
    /\ bridge.route # NoRoute
    /\ Receive(r, "DISPATCH")
    /\ Reply(r, "DISPATCH", "REJECTED")
    /\ UNCHANGED <<bridge, recent, cloud>>

ReceiveCancel(r) ==
    /\ Receive(r, "CANCEL")
    /\ IF bridge.route = r
       THEN /\ bridge' = [bridge EXCEPT !.cancel = TRUE]
            /\ Reply(r, "CANCEL", "ACCEPTED")
       ELSE /\ UNCHANGED bridge
            /\ Reply(r, "CANCEL", "REJECTED")
    /\ UNCHANGED <<recent, cloud>>

-----------------------------------------------------------------------------
(* NavigationBridge._run                                                   *)

(* The action server answers.                                              *)
RunStarts ==
    /\ bridge.stage = "accepted"
    /\ bridge' = [bridge EXCEPT !.stage = "driving"]
    /\ Reply(bridge.route, "DISPATCH", "STARTED")
    /\ UNCHANGED <<deliveries, recent, cloud>>

(* The server is not there, a point is not reached or anything is raised;  *)
(* the cancel event is seen at a point, or while waiting at one; or every  *)
(* point was reached and the event not seen.                               *)
RunDecides(result) ==
    /\ \/ result = "FAILED" /\ bridge.stage \in {"accepted", "driving"}
       \/ result = "CANCELLED" /\ bridge.stage = "driving" /\ bridge.cancel
       \/ result = "COMPLETED" /\ bridge.stage = "driving" /\ ~ bridge.cancel
    /\ bridge' = [bridge EXCEPT !.stage = "decided", !.result = result]
    /\ UNCHANGED <<deliveries, recent, acks, cloud>>

(* Mutant: the result is not remembered.                                   *)
RecordNothing(r, result) == recent

(* _record_result: the oldest result makes room.                           *)
Record(r, result) ==
    LET s == Append(recent, [route |-> r, result |-> result])
    IN  IF Len(s) > MaxRecent THEN Tail(s) ELSE s

RunReports ==
    /\ bridge.stage = "decided"
    /\ bridge' = [bridge EXCEPT !.stage = "closing"]
    /\ recent' = Record(bridge.route, bridge.result)
    /\ Reply(bridge.route, "DISPATCH", bridge.result)
    /\ UNCHANGED <<deliveries, cloud>>

RunCloses ==
    /\ bridge.stage = "closing"
    /\ bridge' = Parked
    /\ UNCHANGED <<deliveries, recent, acks, cloud>>

-----------------------------------------------------------------------------
FleetStep(w) ==
    \/ \E r \in Routes : Submit(w, r) \/ CancelReads(w, r)
    \/ \E r \in Routes, a \in Actions : OutboxDelivers(w, r, a)
    \/ \E i \in DOMAIN acks : AckCommits(w, i)
    \/ SubmitSettles(w)
    \/ CancelCommits(w) \/ CancelFails(w) \/ CancelSettles(w)
    \/ DispatchCommits(w) \/ DispatchReturns(w) \/ DispatchSettles(w)
    \/ AckSettles(w)

BridgeReceives(r) ==
    ReceiveNew(r) \/ ReceiveKnown(r) \/ ReceiveBusy(r) \/ ReceiveCancel(r)

BridgeRuns ==
    \/ RunStarts \/ RunReports \/ RunCloses
    \/ \E result \in {"COMPLETED", "FAILED", "CANCELLED"} : RunDecides(result)

Next ==
    \/ \E w \in Workers : FleetStep(w)
    \/ \E r \in Routes : BridgeReceives(r)
    \/ BridgeRuns
    \/ Restart

Spec == Init /\ [][Next]_vars

(* The bridge's thread runs, and move_base ends every goal it is given.    *)
(* Nothing is assumed of the operators, of the platform or of the network. *)
Fairness == WF_vars(BridgeRuns)

FairSpec == Spec /\ Fairness

-----------------------------------------------------------------------------
(* Properties                                                              *)

(* Every status, goroutine, command and acknowledgement is one of those    *)
(* the code knows, and the cursor is not ahead of the vehicle.             *)
TypeOK ==
    /\ row \in [Routes -> Statuses]
    /\ memory \in [Routes -> Statuses]
    /\ worker \in [Workers ->
          [step : Steps, route : Routes \cup {NoRoute}, status : Statuses]]
    /\ commands \in [Routes -> [Actions -> {"none", "pending", "delivered"}]]
    /\ deliveries \in [Routes -> [Actions -> 0..MaxDeliveries]]
    /\ bridge \in [route : Routes \cup {NoRoute}, stage : Stages,
                   cancel : BOOLEAN, result : Results]
    /\ recent \in Seq([route : Routes, result : Results]) /\ Len(recent) <= MaxRecent
    /\ acks \in Seq(Acks)
    /\ cursor \in 0..Len(acks)

(* The vehicle has said this of the route, in one of the acknowledgements  *)
(* consumed so far.                                                        *)
Said(r, action, result) ==
    \E i \in 1..cursor :
        acks[i] = [route |-> r, action |-> action, result |-> result]

(* Only an acknowledgement of the vehicle makes a task accepted, running,  *)
(* completed, failed, rejected or its cancellation decided; the Broker's   *)
(* acceptance and the operator's request never do, whatever is overwritten *)
(* (architecture-functional-specification.md, TASK-005).                   *)
OnlyTheVehicleConfirms ==
    \A r \in Routes :
        /\ row[r] = "accepted" => Said(r, "DISPATCH", "ACCEPTED")
        /\ row[r] = "running" => Said(r, "DISPATCH", "STARTED")
        /\ row[r] = "completed" => Said(r, "DISPATCH", "COMPLETED")
        /\ row[r] = "failed" => Said(r, "DISPATCH", "FAILED")
        /\ row[r] = "rejected" => Said(r, "DISPATCH", "REJECTED")
        /\ row[r] = "cancel_rejected" => Said(r, "CANCEL", "REJECTED")
        /\ row[r] = "cancelled" => Said(r, "CANCEL", "CANCELLED")

(* The vehicle drives a task at most once, however often the outbox        *)
(* delivers it (TASK-006: an action is not repeated unconditionally).      *)
DrivenOnce ==
    \A i, j \in DOMAIN acks :
        (/\ acks[i].route = acks[j].route
         /\ acks[i].result = "STARTED" /\ acks[j].result = "STARTED") => i = j

Rank ==
    [s \in Statuses |->
        CASE s = "absent" -> 0
          [] s = "queued" -> 1
          [] s = "dispatched" -> 2
          [] s = "accepted" -> 3
          [] s = "running" -> 4
          [] s = "cancel_requested" -> 5
          [] OTHER -> 6]

(* A Cancel that found the task open in the map overwrites how it ended.   *)
OverwrittenByCancel(r) ==
    /\ row[r] \in Terminal /\ row'[r] = "cancel_requested"
    /\ \E w \in Workers : worker[w].step = "cancelling" /\ worker[w].route = r

(* A task only moves forward (nav_ack.go: an acknowledgement "is not       *)
(* allowed to move a route backwards"), whatever order acknowledgements,   *)
(* delivery reports and cancellations are committed in, whatever answers of*)
(* the database are lost and whenever the process restarts: no delivery    *)
(* report after the vehicle's own, no start after a cancellation, no end   *)
(* replaced by another.  The one way back is a Cancel that decided on a    *)
(* stale map.                                                              *)
TasksMoveForward ==
    [][\A r \in Routes : row'[r] # row[r] =>
          Rank[row'[r]] > Rank[row[r]] \/ OverwrittenByCancel(r)]_vars

(* A task that ended keeps its status: the state diagram leads nowhere     *)
(* from an end, and the platform is to refuse to fall back from one        *)
(* (architecture-functional-specification.md, 5.6).                        *)
TerminalIsFinal ==
    [][\A r \in Routes : row[r] \in Terminal => row'[r] = row[r]]_vars

Answered(r, results) ==
    \E i \in DOMAIN acks :
        /\ acks[i].route = r /\ acks[i].action = "DISPATCH"
        /\ acks[i].result \in results

(* The vehicle answers for every task that reaches it, however often, while*)
(* another is driven or not, cancelled or not: a task it accepts ends with *)
(* a result, and one that it does not accept is refused.                   *)
TasksAreAnswered ==
    \A r \in Routes :
        /\ Answered(r, {"ACCEPTED"})
              ~> Answered(r, {"COMPLETED", "FAILED", "CANCELLED"})
        /\ (deliveries[r]["DISPATCH"] > 0)
              ~> Answered(r, {"COMPLETED", "FAILED", "CANCELLED", "REJECTED"})

=============================================================================
