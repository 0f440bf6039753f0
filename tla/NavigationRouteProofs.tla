----------------------- MODULE NavigationRouteProofs -----------------------
(***************************************************************************)
(* Proofs about NavigationRoute for any number of tasks, goroutines and    *)
(* deliveries.                                                             *)
(***************************************************************************)
EXTENDS NavigationRoute, FiniteSetTheorems, TLAPS

(* A goroutine that is at work works on a task.                            *)
WorkersHaveRoutes ==
    \A w \in Workers : worker[w].step # "idle" => worker[w].route \in Routes

(* The bridge has a route exactly while its thread runs.                   *)
BridgeHasRoute == bridge.stage = "idle" <=> bridge.route = NoRoute

(* on_command answers a cancellation with one of two results.              *)
CancelAnswers ==
    \A i \in DOMAIN acks :
        acks[i].action = "CANCEL" => acks[i].result \in {"ACCEPTED", "REJECTED"}

IInv ==
    TypeOK /\ WorkersHaveRoutes /\ BridgeHasRoute /\ CancelAnswers
    /\ OnlyTheVehicleConfirms

Typed == TypeOK /\ WorkersHaveRoutes

-----------------------------------------------------------------------------
LEMMA SeqElement == ASSUME NEW S, NEW s \in Seq(S), NEW k \in DOMAIN s PROVE s[k] \in S
OBVIOUS

LEMMA IdleFacts ==
    /\ Idle \in [step : Steps, route : Routes \cup {NoRoute}, status : Statuses]
    /\ Idle.step = "idle"
    /\ Parked \in [route : Routes \cup {NoRoute}, stage : Stages,
                   cancel : BOOLEAN, result : Results]
    /\ Parked.stage = "idle" /\ Parked.route = NoRoute /\ Parked.result = "ACCEPTED"
    /\ Parked.cancel = FALSE
BY DEF Idle, Parked, Steps, Statuses, Stages, Results

LEMMA BeginStep ==
    ASSUME Typed, NEW w \in Workers, NEW step \in Steps, NEW r \in Routes,
           NEW status \in Statuses, Begin(w, step, r, status)
    PROVE  /\ worker' \in [Workers ->
                 [step : Steps, route : Routes \cup {NoRoute}, status : Statuses]]
           /\ WorkersHaveRoutes'
BY DEF Begin, Doing, Typed, TypeOK, WorkersHaveRoutes

(* A commit that is answered, or whose answer is lost.                     *)
LEMMA CommitsStep ==
    ASSUME Typed, NEW w \in Workers, NEW step \in Steps, NEW r \in Routes,
           NEW status \in Statuses, Commits(w, Doing(step, r, status))
    PROVE  /\ worker' \in [Workers ->
                 [step : Steps, route : Routes \cup {NoRoute}, status : Statuses]]
           /\ WorkersHaveRoutes'
<1>1. PICK then \in {Doing(step, r, status), Idle} :
          worker' = [worker EXCEPT ![w] = then]
  BY DEF Commits
<1>2. /\ then \in [step : Steps, route : Routes \cup {NoRoute}, status : Statuses]
      /\ then.step # "idle" => then.route \in Routes
  BY IdleFacts DEF Doing
<1> QED  BY <1>1, <1>2 DEF Typed, TypeOK, WorkersHaveRoutes

LEMMA EndStep ==
    ASSUME Typed, NEW w \in Workers, NEW step \in Steps, step # "idle", End(w, step)
    PROVE  /\ worker' \in [Workers ->
                 [step : Steps, route : Routes \cup {NoRoute}, status : Statuses]]
           /\ WorkersHaveRoutes'
           /\ worker[w].route \in Routes
BY IdleFacts DEF End, Typed, TypeOK, WorkersHaveRoutes

(* What the vehicle has said stays said.                                   *)
LEMMA SaidStays ==
    ASSUME TypeOK, cursor' \in Nat, cursor' >= cursor,
           \A i \in 1..cursor : acks'[i] = acks[i],
           NEW r \in Routes, NEW a \in Actions, NEW x \in Results
    PROVE  Said(r, a, x) => Said(r, a, x)'
<1> SUFFICES ASSUME Said(r, a, x) PROVE Said(r, a, x)'
  OBVIOUS
<1>1. PICK i \in 1..cursor : acks[i] = [route |-> r, action |-> a, result |-> x]
  BY DEF Said
<1>2. i \in 1..cursor' /\ acks'[i] = acks[i]
  BY DEF TypeOK
<1> QED  BY <1>1, <1>2 DEF Said

(* A status that only the vehicle decides is given up or kept.             *)
LEMMA ConfirmedStays ==
    ASSUME TypeOK, OnlyTheVehicleConfirms, cursor' \in Nat, cursor' >= cursor,
           \A i \in 1..cursor : acks'[i] = acks[i],
           \A r \in Routes : \/ row'[r] = row[r]
                             \/ row'[r] \in {"queued", "dispatched", "cancel_requested"}
    PROVE  OnlyTheVehicleConfirms'
<1>1. \A r \in Routes, a \in Actions, x \in Results : Said(r, a, x) => Said(r, a, x)'
  BY SaidStays
<1>2. SUFFICES ASSUME NEW r \in Routes, row'[r] = row[r]
      PROVE  /\ row'[r] = "accepted" => Said(r, "DISPATCH", "ACCEPTED")'
             /\ row'[r] = "running" => Said(r, "DISPATCH", "STARTED")'
             /\ row'[r] = "completed" => Said(r, "DISPATCH", "COMPLETED")'
             /\ row'[r] = "failed" => Said(r, "DISPATCH", "FAILED")'
             /\ row'[r] = "rejected" => Said(r, "DISPATCH", "REJECTED")'
             /\ row'[r] = "cancel_rejected" => Said(r, "CANCEL", "REJECTED")'
             /\ row'[r] = "cancelled" => Said(r, "CANCEL", "CANCELLED")'
  BY DEF OnlyTheVehicleConfirms
<1> QED  BY <1>1, <1>2 DEF OnlyTheVehicleConfirms, Actions, Results

-----------------------------------------------------------------------------
(* The Fleet process                                                       *)

(* No acknowledgement is involved.                                         *)
LEMMA FleetSteps ==
    ASSUME IInv, UNCHANGED <<vehicle, cursor>>,
           row' \in [Routes -> Statuses], memory' \in [Routes -> Statuses],
           worker' \in [Workers ->
                 [step : Steps, route : Routes \cup {NoRoute}, status : Statuses]],
           WorkersHaveRoutes',
           commands' \in [Routes -> [Actions -> {"none", "pending", "delivered"}]],
           \A r \in Routes : \/ row'[r] = row[r]
                             \/ row'[r] \in {"queued", "dispatched", "cancel_requested"}
    PROVE  IInv'
<1>1. TypeOK'
  BY DEF IInv, TypeOK, vehicle
<1>2. OnlyTheVehicleConfirms'
  BY ConfirmedStays DEF IInv, TypeOK, vehicle
<1>3. BridgeHasRoute' /\ CancelAnswers'
  BY DEF IInv, BridgeHasRoute, CancelAnswers, vehicle
<1> QED  BY <1>1, <1>2, <1>3 DEF IInv

LEMMA SubmitStep ==
    ASSUME IInv, NEW w \in Workers, NEW r \in Routes, Submit(w, r) PROVE IInv'
<1>1. /\ worker' \in [Workers ->
            [step : Steps, route : Routes \cup {NoRoute}, status : Statuses]]
      /\ WorkersHaveRoutes'
  BY CommitsStep DEF Submit, IInv, Typed, Steps, Statuses, Open
<1>2. /\ row' \in [Routes -> Statuses] /\ memory' = memory
      /\ commands' \in [Routes -> [Actions -> {"none", "pending", "delivered"}]]
      /\ \A q \in Routes : row'[q] = row[q] \/ row'[q] = "queued"
  BY DEF Submit, IInv, TypeOK, Statuses, Open, Actions
<1> QED  BY <1>1, <1>2, FleetSteps DEF Submit, IInv, TypeOK

LEMMA SubmitSettlesStep ==
    ASSUME IInv, NEW w \in Workers, SubmitSettles(w) PROVE IInv'
<1>1. /\ worker' \in [Workers ->
            [step : Steps, route : Routes \cup {NoRoute}, status : Statuses]]
      /\ WorkersHaveRoutes'
  BY EndStep DEF SubmitSettles, IInv, Typed, Steps
<1>2. memory' \in [Routes -> Statuses] /\ row' = row /\ commands' = commands
  BY DEF SubmitSettles, IInv, TypeOK, Statuses, Open
<1> QED  BY <1>1, <1>2, FleetSteps DEF SubmitSettles, IInv, TypeOK

LEMMA CancelReadsStep ==
    ASSUME IInv, NEW w \in Workers, NEW r \in Routes, CancelReads(w, r) PROVE IInv'
<1>1. /\ worker' \in [Workers ->
            [step : Steps, route : Routes \cup {NoRoute}, status : Statuses]]
      /\ WorkersHaveRoutes'
  BY BeginStep DEF CancelReads, IInv, Typed, Steps, Statuses
<1> QED  BY <1>1, FleetSteps DEF CancelReads, IInv, TypeOK

LEMMA CancelCommitsStep ==
    ASSUME IInv, NEW w \in Workers, CancelCommits(w) PROVE IInv'
<1>1. /\ worker' \in [Workers ->
            [step : Steps, route : Routes \cup {NoRoute}, status : Statuses]]
      /\ WorkersHaveRoutes'
  BY CommitsStep DEF CancelCommits, IInv, Typed, Steps, Statuses, WorkersHaveRoutes
<1>2. /\ row' \in [Routes -> Statuses] /\ memory' = memory
      /\ commands' \in [Routes -> [Actions -> {"none", "pending", "delivered"}]]
      /\ \A q \in Routes : row'[q] = row[q] \/ row'[q] = "cancel_requested"
  BY DEF CancelCommits, IInv, TypeOK, Statuses, Actions
<1> QED  BY <1>1, <1>2, FleetSteps DEF CancelCommits, IInv, TypeOK

LEMMA CancelFailsStep ==
    ASSUME IInv, NEW w \in Workers, CancelFails(w) PROVE IInv'
<1>1. /\ worker' \in [Workers ->
            [step : Steps, route : Routes \cup {NoRoute}, status : Statuses]]
      /\ WorkersHaveRoutes'
  BY EndStep DEF CancelFails, IInv, Typed, Steps
<1> QED  BY <1>1, FleetSteps DEF CancelFails, IInv, TypeOK

LEMMA CancelSettlesStep ==
    ASSUME IInv, NEW w \in Workers, CancelSettles(w) PROVE IInv'
<1>1. /\ worker' \in [Workers ->
            [step : Steps, route : Routes \cup {NoRoute}, status : Statuses]]
      /\ WorkersHaveRoutes'
  BY EndStep DEF CancelSettles, IInv, Typed, Steps
<1>2. memory' \in [Routes -> Statuses] /\ row' = row /\ commands' = commands
  BY DEF CancelSettles, IInv, TypeOK, Statuses
<1> QED  BY <1>1, <1>2, FleetSteps DEF CancelSettles, IInv, TypeOK

LEMMA OutboxDeliversStep ==
    ASSUME IInv, NEW w \in Workers, NEW r \in Routes, NEW a \in Actions,
           OutboxDelivers(w, r, a)
    PROVE  IInv'
<1>1. /\ worker' \in [Workers ->
            [step : Steps, route : Routes \cup {NoRoute}, status : Statuses]]
      /\ WorkersHaveRoutes'
  BY BeginStep DEF OutboxDelivers, IInv, Typed, Steps, Statuses, Open
<1>2. commands' \in [Routes -> [Actions -> {"none", "pending", "delivered"}]]
  BY DEF OutboxDelivers, IInv, TypeOK
<1> QED  BY <1>1, <1>2, FleetSteps DEF OutboxDelivers, IInv, TypeOK

LEMMA DispatchCommitsStep ==
    ASSUME IInv, NEW w \in Workers, DispatchCommits(w) PROVE IInv'
<1>1. /\ worker' \in [Workers ->
            [step : Steps, route : Routes \cup {NoRoute}, status : Statuses]]
      /\ WorkersHaveRoutes'
  BY CommitsStep
  DEF DispatchCommits, IInv, Typed, Steps, Statuses, Open, WorkersHaveRoutes
<1>2. /\ row' \in [Routes -> Statuses]
      /\ \A q \in Routes : row'[q] = row[q] \/ row'[q] = "dispatched"
  BY DEF DispatchCommits, IInv, TypeOK, Statuses, Open
<1> QED  BY <1>1, <1>2, FleetSteps DEF DispatchCommits, IInv, TypeOK

LEMMA DispatchReturnsStep ==
    ASSUME IInv, NEW w \in Workers, DispatchReturns(w) PROVE IInv'
<1>1. /\ worker' \in [Workers ->
            [step : Steps, route : Routes \cup {NoRoute}, status : Statuses]]
      /\ WorkersHaveRoutes'
  BY EndStep DEF DispatchReturns, IInv, Typed, Steps
<1> QED  BY <1>1, FleetSteps DEF DispatchReturns, IInv, TypeOK

LEMMA DispatchSettlesStep ==
    ASSUME IInv, NEW w \in Workers, DispatchSettles(w) PROVE IInv'
<1>1. /\ worker' \in [Workers ->
            [step : Steps, route : Routes \cup {NoRoute}, status : Statuses]]
      /\ WorkersHaveRoutes'
  BY EndStep DEF DispatchSettles, IInv, Typed, Steps
<1>2. memory' \in [Routes -> Statuses] /\ row' = row /\ commands' = commands
  BY DEF DispatchSettles, IInv, TypeOK, Statuses, Open
<1> QED  BY <1>1, <1>2, FleetSteps DEF DispatchSettles, IInv, TypeOK

LEMMA AckSettlesStep ==
    ASSUME IInv, NEW w \in Workers, AckSettles(w) PROVE IInv'
<1>1. /\ worker' \in [Workers ->
            [step : Steps, route : Routes \cup {NoRoute}, status : Statuses]]
      /\ WorkersHaveRoutes'
  BY EndStep DEF AckSettles, IInv, Typed, Steps
<1>2. memory' \in [Routes -> Statuses] /\ row' = row /\ commands' = commands
  BY DEF AckSettles, IInv, TypeOK
<1> QED  BY <1>1, <1>2, FleetSteps DEF AckSettles, IInv, TypeOK

LEMMA RestartStep == ASSUME IInv, Restart PROVE IInv'
<1>1. /\ worker' \in [Workers ->
            [step : Steps, route : Routes \cup {NoRoute}, status : Statuses]]
      /\ WorkersHaveRoutes'
  BY IdleFacts DEF Restart, WorkersHaveRoutes
<1> QED  BY <1>1, FleetSteps DEF Restart, IInv, TypeOK

(* The table of navigationAckTransition.                                   *)
LEMMA TransitionFacts ==
    ASSUME NEW t \in AckTransitions
    PROVE  /\ t.to \in Statuses
           /\ t.to = "accepted" => t.action = "DISPATCH" /\ t.result = "ACCEPTED"
           /\ t.to = "running" => t.action = "DISPATCH" /\ t.result = "STARTED"
           /\ t.to = "completed" => t.action = "DISPATCH" /\ t.result = "COMPLETED"
           /\ t.to = "failed" => t.action = "DISPATCH" /\ t.result = "FAILED"
           /\ t.to = "rejected" => t.action = "DISPATCH" /\ t.result = "REJECTED"
           /\ t.to = "cancelled" => t.action = "CANCEL" /\ t.result = "CANCELLED"
           /\ t.to = "cancel_rejected" =>
                 t.action = "CANCEL" /\ t.result \in {"REJECTED", "FAILED"}
           /\ \A s \in t.from : s # "absent" /\ (s \in Terminal => t.to = s)
<1>1. CASE t \in DispatchTransitions
  BY <1>1 DEF DispatchTransitions, Statuses, Open, Terminal
<1>2. CASE t \in CancelTransitions
  BY <1>2 DEF CancelTransitions, Statuses, Open, Terminal
<1> QED  BY <1>1, <1>2 DEF AckTransitions

LEMMA AckCommitsStep ==
    ASSUME IInv, NEW w \in Workers, NEW i \in DOMAIN acks, AckCommits(w, i)
    PROVE  IInv'
<1>1. PICK t \in Allowed(acks[i]) :
          /\ Commits(w, Doing("acked", acks[i].route, t.to))
          /\ row' = [row EXCEPT ![acks[i].route] = t.to]
  BY DEF AckCommits
<1>2. /\ acks \in Seq(Acks) /\ i \in 1..Len(acks) /\ i > cursor /\ cursor \in Nat
      /\ cursor' = i /\ i \in Nat /\ acks' = acks
  BY DEF AckCommits, NotSeen, IInv, TypeOK, vehicle
<1>3. acks[i] \in Acks
  BY <1>2
<1>4. acks[i].route \in Routes /\ acks[i].action \in Actions /\ acks[i].result \in Results
  BY <1>3 DEF Acks
<1>5. t \in AckTransitions /\ t.action = acks[i].action /\ t.result = acks[i].result
  BY <1>1 DEF Allowed
<1>6. t.to \in Statuses
  BY <1>5, TransitionFacts
<1>7. /\ worker' \in [Workers ->
            [step : Steps, route : Routes \cup {NoRoute}, status : Statuses]]
      /\ WorkersHaveRoutes'
  BY <1>1, <1>4, <1>6, CommitsStep DEF IInv, Typed, Steps
<1>8. TypeOK'
  <2>1. row' \in [Routes -> Statuses]
    BY <1>1, <1>6 DEF IInv, TypeOK
  <2>2. cursor' \in 0..Len(acks')
    BY <1>2
  <2> QED  BY <1>7, <2>1, <2>2 DEF AckCommits, IInv, TypeOK, vehicle
<1>9. BridgeHasRoute' /\ CancelAnswers'
  BY DEF AckCommits, IInv, BridgeHasRoute, CancelAnswers, vehicle
<1>10. OnlyTheVehicleConfirms'
  <2>1. ASSUME NEW r \in Routes
        PROVE  /\ row'[r] = "accepted" => Said(r, "DISPATCH", "ACCEPTED")'
               /\ row'[r] = "running" => Said(r, "DISPATCH", "STARTED")'
               /\ row'[r] = "completed" => Said(r, "DISPATCH", "COMPLETED")'
               /\ row'[r] = "failed" => Said(r, "DISPATCH", "FAILED")'
               /\ row'[r] = "rejected" => Said(r, "DISPATCH", "REJECTED")'
               /\ row'[r] = "cancel_rejected" => Said(r, "CANCEL", "REJECTED")'
               /\ row'[r] = "cancelled" => Said(r, "CANCEL", "CANCELLED")'
    <3>1. CASE r = acks[i].route
      <4>1. row'[r] = t.to
        BY <1>1, <1>4, <3>1 DEF IInv, TypeOK
      <4>2. Said(r, acks[i].action, acks[i].result)'
        <5>1. acks'[i] = [route |-> r, action |-> acks[i].action, result |-> acks[i].result]
          BY <1>2, <1>3, <3>1 DEF Acks
        <5>2. i \in 1..cursor'
          BY <1>2
        <5> QED  BY <1>2, <5>1, <5>2 DEF Said
      <4>3. acks[i].action = "CANCEL" => acks[i].result \in {"ACCEPTED", "REJECTED"}
        BY DEF IInv, CancelAnswers
      <4> QED  BY <1>2, <1>5, <4>1, <4>2, <4>3, TransitionFacts
    <3>2. CASE r # acks[i].route
      <4>1. row'[r] = row[r]
        BY <1>1, <3>2 DEF IInv, TypeOK
      <4>2. \A a \in Actions, x \in Results : Said(r, a, x) => Said(r, a, x)'
        BY <1>2, SaidStays DEF IInv
      <4> QED  BY <4>1, <4>2 DEF IInv, OnlyTheVehicleConfirms, Actions, Results
    <3> QED  BY <3>1, <3>2
  <2> QED  BY <2>1 DEF OnlyTheVehicleConfirms
<1> QED  BY <1>7, <1>8, <1>9, <1>10 DEF IInv

-----------------------------------------------------------------------------
(* The vehicle                                                             *)

LEMMA ReceiveFacts ==
    ASSUME TypeOK, NEW r \in Routes, NEW a \in Actions, Receive(r, a)
    PROVE  deliveries' \in [Routes -> [Actions -> 0..MaxDeliveries]]
<1>1. deliveries[r] \in [Actions -> 0..MaxDeliveries] /\ MaxDeliveries \in Nat
  BY NavigationConstants DEF TypeOK, NavigationConstants
<1>2. deliveries[r][a] + 1 \in 0..MaxDeliveries
  BY <1>1 DEF Receive
<1> QED  BY <1>1, <1>2 DEF Receive, TypeOK

LEMMA ReplyFacts ==
    ASSUME TypeOK, NEW r \in Routes, NEW a \in Actions, NEW x \in Results,
           Reply(r, a, x)
    PROVE  /\ acks' \in Seq(Acks) /\ Len(acks') = Len(acks) + 1
           /\ acks'[Len(acks) + 1] = [route |-> r, action |-> a, result |-> x]
           /\ \A i \in DOMAIN acks : acks'[i] = acks[i]
           /\ DOMAIN acks' = DOMAIN acks \cup {Len(acks) + 1}
<1>1. [route |-> r, action |-> a, result |-> x] \in Acks
  BY DEF Acks
<1> QED  BY <1>1 DEF Reply, TypeOK

LEMMA VehicleSteps ==
    ASSUME IInv, UNCHANGED cloud,
           deliveries' \in [Routes -> [Actions -> 0..MaxDeliveries]],
           bridge' \in [route : Routes \cup {NoRoute}, stage : Stages,
                        cancel : BOOLEAN, result : Results],
           recent' \in Seq([route : Routes, result : Results]),
           Len(recent') <= MaxRecent, BridgeHasRoute',
           \/ acks' = acks
           \/ \E r \in Routes, a \in Actions, x \in Results :
                 /\ Reply(r, a, x)
                 /\ a = "CANCEL" => x \in {"ACCEPTED", "REJECTED"}
    PROVE  IInv'
<1>1. /\ acks' \in Seq(Acks) /\ Len(acks') >= Len(acks)
      /\ \A i \in DOMAIN acks : acks'[i] = acks[i]
      /\ CancelAnswers'
  <2>1. CASE acks' = acks
    BY <2>1 DEF IInv, TypeOK, CancelAnswers
  <2>2. ASSUME NEW r \in Routes, NEW a \in Actions, NEW x \in Results,
               Reply(r, a, x), a = "CANCEL" => x \in {"ACCEPTED", "REJECTED"}
        PROVE  /\ acks' \in Seq(Acks) /\ Len(acks') >= Len(acks)
               /\ \A i \in DOMAIN acks : acks'[i] = acks[i]
               /\ CancelAnswers'
    <3>1. /\ acks' \in Seq(Acks) /\ Len(acks') = Len(acks) + 1
          /\ acks'[Len(acks) + 1] = [route |-> r, action |-> a, result |-> x]
          /\ \A i \in DOMAIN acks : acks'[i] = acks[i]
          /\ DOMAIN acks' = DOMAIN acks \cup {Len(acks) + 1}
      BY <2>2, ReplyFacts DEF IInv
    <3>2. CancelAnswers'
      BY <2>2, <3>1 DEF IInv, CancelAnswers
    <3> QED  BY <3>1, <3>2 DEF IInv, TypeOK
  <2> QED  BY <2>1, <2>2
<1>2. cursor \in Nat /\ cursor <= Len(acks) /\ cursor' = cursor
  BY DEF IInv, TypeOK, cloud
<1>3. cursor' \in 0..Len(acks')
  BY <1>1, <1>2 DEF IInv, TypeOK
<1>4. TypeOK'
  BY <1>1, <1>3 DEF IInv, TypeOK, cloud
<1>5. \A i \in 1..cursor : acks'[i] = acks[i]
  BY <1>1, <1>2 DEF IInv, TypeOK
<1>6. OnlyTheVehicleConfirms'
  BY <1>2, <1>5, ConfirmedStays DEF IInv, cloud
<1>7. WorkersHaveRoutes'
  BY DEF IInv, WorkersHaveRoutes, cloud
<1> QED  BY <1>1, <1>4, <1>6, <1>7 DEF IInv

LEMMA ReceiveNewStep ==
    ASSUME IInv, NEW r \in Routes, ReceiveNew(r) PROVE IInv'
<1>1. deliveries' \in [Routes -> [Actions -> 0..MaxDeliveries]]
  BY ReceiveFacts DEF ReceiveNew, IInv, Actions
<1>2. /\ bridge' \in [route : Routes \cup {NoRoute}, stage : Stages,
                      cancel : BOOLEAN, result : Results]
      /\ bridge'.route = r /\ bridge'.stage = "accepted"
  BY IdleFacts DEF ReceiveNew, Parked, Stages, Results
<1>3. BridgeHasRoute'
  BY <1>2, NavigationConstants DEF BridgeHasRoute, NavigationConstants
<1>4. Reply(r, "DISPATCH", "ACCEPTED") /\ "DISPATCH" \in Actions /\ "ACCEPTED" \in Results
  BY DEF ReceiveNew, Actions, Results
<1> QED  BY <1>1, <1>2, <1>3, <1>4, VehicleSteps DEF ReceiveNew, IInv, TypeOK

LEMMA ReceiveKnownStep ==
    ASSUME IInv, NEW r \in Routes, ReceiveKnown(r) PROVE IInv'
<1>1. deliveries' \in [Routes -> [Actions -> 0..MaxDeliveries]]
  BY ReceiveFacts DEF ReceiveKnown, IInv, Actions
<1>2. PICK k \in DOMAIN recent : Reply(r, "DISPATCH", recent[k].result)
  BY DEF ReceiveKnown
<1>3. recent[k] \in [route : Routes, result : Results]
  <2>1. recent \in Seq([route : Routes, result : Results])
    BY DEF IInv, TypeOK
  <2> QED  BY <2>1, SeqElement
<1>4. recent[k].result \in Results /\ "DISPATCH" \in Actions
  BY <1>3 DEF Actions
<1>5. BridgeHasRoute'
  BY DEF ReceiveKnown, IInv, BridgeHasRoute
<1> QED  BY <1>1, <1>2, <1>4, <1>5, VehicleSteps DEF ReceiveKnown, IInv, TypeOK

LEMMA ReceiveBusyStep ==
    ASSUME IInv, NEW r \in Routes, ReceiveBusy(r) PROVE IInv'
<1>1. deliveries' \in [Routes -> [Actions -> 0..MaxDeliveries]]
  BY ReceiveFacts DEF ReceiveBusy, IInv, Actions
<1>2. Reply(r, "DISPATCH", "REJECTED") /\ "DISPATCH" \in Actions /\ "REJECTED" \in Results
  BY DEF ReceiveBusy, Actions, Results
<1>3. BridgeHasRoute'
  BY DEF ReceiveBusy, IInv, BridgeHasRoute
<1> QED  BY <1>1, <1>2, <1>3, VehicleSteps DEF ReceiveBusy, IInv, TypeOK

LEMMA ReceiveCancelStep ==
    ASSUME IInv, NEW r \in Routes, ReceiveCancel(r) PROVE IInv'
<1>1. deliveries' \in [Routes -> [Actions -> 0..MaxDeliveries]]
  BY ReceiveFacts DEF ReceiveCancel, IInv, Actions
<1>2. \E x \in {"ACCEPTED", "REJECTED"} : Reply(r, "CANCEL", x)
  BY DEF ReceiveCancel
<1>3. "CANCEL" \in Actions /\ "ACCEPTED" \in Results /\ "REJECTED" \in Results
  BY DEF Actions, Results
<1>4. /\ bridge' \in [route : Routes \cup {NoRoute}, stage : Stages,
                      cancel : BOOLEAN, result : Results]
      /\ bridge'.route = bridge.route /\ bridge'.stage = bridge.stage
  <2>1. CASE bridge' = [bridge EXCEPT !.cancel = TRUE]
    BY <2>1 DEF IInv, TypeOK
  <2>2. CASE bridge' = bridge
    BY <2>2 DEF IInv, TypeOK
  <2> QED  BY <2>1, <2>2 DEF ReceiveCancel
<1>5. BridgeHasRoute'
  BY <1>4 DEF IInv, BridgeHasRoute
<1> QED  BY <1>1, <1>2, <1>3, <1>4, <1>5, VehicleSteps DEF ReceiveCancel, IInv, TypeOK

LEMMA RunStartsStep == ASSUME IInv, RunStarts PROVE IInv'
<1>1. bridge.route \in Routes
  BY DEF IInv, TypeOK, BridgeHasRoute, RunStarts
<1>2. Reply(bridge.route, "DISPATCH", "STARTED") /\ "DISPATCH" \in Actions
      /\ "STARTED" \in Results
  BY DEF RunStarts, Actions, Results
<1>3. /\ bridge' \in [route : Routes \cup {NoRoute}, stage : Stages,
                      cancel : BOOLEAN, result : Results]
      /\ bridge'.route = bridge.route /\ bridge'.stage = "driving"
  BY DEF RunStarts, IInv, TypeOK, Stages
<1>4. BridgeHasRoute'
  BY <1>1, <1>3, NavigationConstants DEF BridgeHasRoute, NavigationConstants
<1> QED  BY <1>1, <1>2, <1>3, <1>4, VehicleSteps DEF RunStarts, IInv, TypeOK

LEMMA RunDecidesStep ==
    ASSUME IInv, NEW result \in {"COMPLETED", "FAILED", "CANCELLED"}, RunDecides(result)
    PROVE  IInv'
<1>1. bridge.route \in Routes
  BY DEF IInv, TypeOK, BridgeHasRoute, RunDecides
<1>2. /\ bridge' \in [route : Routes \cup {NoRoute}, stage : Stages,
                      cancel : BOOLEAN, result : Results]
      /\ bridge'.route = bridge.route /\ bridge'.stage = "decided"
  BY DEF RunDecides, IInv, TypeOK, Stages, Results
<1>3. BridgeHasRoute'
  BY <1>1, <1>2, NavigationConstants DEF BridgeHasRoute, NavigationConstants
<1> QED  BY <1>2, <1>3, VehicleSteps DEF RunDecides, IInv, TypeOK

(* _record_result keeps at most MaxRecent results.                         *)
LEMMA RecordFacts ==
    ASSUME TypeOK, NEW r \in Routes, NEW x \in Results
    PROVE  /\ Record(r, x) \in Seq([route : Routes, result : Results])
           /\ Len(Record(r, x)) <= MaxRecent
<1> DEFINE e == [route |-> r, result |-> x]
           s == Append(recent, e)
<1>1. e \in [route : Routes, result : Results]
  OBVIOUS
<1>2. /\ s \in Seq([route : Routes, result : Results]) /\ Len(s) = Len(recent) + 1
      /\ Len(recent) \in Nat /\ Len(recent) <= MaxRecent /\ MaxRecent \in Nat
  BY <1>1, NavigationConstants DEF TypeOK, NavigationConstants
<1>3. Record(r, x) = IF Len(s) > MaxRecent THEN Tail(s) ELSE s
  BY DEF Record
<1> HIDE DEF s
<1>4. /\ s # << >> /\ Tail(s) \in Seq([route : Routes, result : Results])
      /\ Len(Tail(s)) = Len(recent)
  BY <1>2
<1> QED  BY <1>2, <1>3, <1>4

LEMMA RunReportsStep == ASSUME IInv, RunReports PROVE IInv'
<1>1. bridge.route \in Routes /\ bridge.result \in Results
  BY DEF IInv, TypeOK, BridgeHasRoute, RunReports
<1>2. Reply(bridge.route, "DISPATCH", bridge.result) /\ "DISPATCH" \in Actions
  BY DEF RunReports, Actions
<1>3. /\ bridge' \in [route : Routes \cup {NoRoute}, stage : Stages,
                      cancel : BOOLEAN, result : Results]
      /\ bridge'.route = bridge.route /\ bridge'.stage = "closing"
  BY DEF RunReports, IInv, TypeOK, Stages
<1>4. BridgeHasRoute'
  BY <1>1, <1>3, NavigationConstants DEF BridgeHasRoute, NavigationConstants
<1>5. recent' \in Seq([route : Routes, result : Results]) /\ Len(recent') <= MaxRecent
  BY <1>1, RecordFacts DEF RunReports, IInv
<1> QED  BY <1>1, <1>2, <1>3, <1>4, <1>5, VehicleSteps DEF RunReports, IInv, TypeOK

LEMMA RunClosesStep == ASSUME IInv, RunCloses PROVE IInv'
<1>1. BridgeHasRoute'
  BY IdleFacts DEF RunCloses, BridgeHasRoute
<1> QED  BY <1>1, IdleFacts, VehicleSteps DEF RunCloses, IInv, TypeOK

-----------------------------------------------------------------------------
LEMMA Initially == Init => IInv
<1> SUFFICES ASSUME Init PROVE IInv
  OBVIOUS
<1>1. /\ row \in [Routes -> Statuses] /\ memory \in [Routes -> Statuses]
      /\ commands \in [Routes -> [Actions -> {"none", "pending", "delivered"}]]
  BY DEF Init, Statuses
<1>2. deliveries \in [Routes -> [Actions -> 0..MaxDeliveries]]
  BY NavigationConstants DEF Init, NavigationConstants
<1>3. /\ recent = << >> /\ recent \in Seq([route : Routes, result : Results])
      /\ Len(recent) <= MaxRecent
      /\ acks = << >> /\ acks \in Seq(Acks) /\ cursor \in 0..Len(acks)
  BY NavigationConstants DEF Init, NavigationConstants
<1>4. TypeOK
  BY <1>1, <1>2, <1>3, IdleFacts DEF Init, TypeOK
<1>5. WorkersHaveRoutes /\ BridgeHasRoute /\ CancelAnswers
  BY <1>3, IdleFacts DEF Init, WorkersHaveRoutes, BridgeHasRoute, CancelAnswers
<1>6. OnlyTheVehicleConfirms
  BY DEF Init, OnlyTheVehicleConfirms
<1> QED  BY <1>4, <1>5, <1>6 DEF IInv

LEMMA Step == IInv /\ [Next]_vars => IInv'
<1> SUFFICES ASSUME IInv, [Next]_vars PROVE IInv'
  OBVIOUS
<1>1. CASE UNCHANGED vars
  BY <1>1 DEF vars, IInv, TypeOK, WorkersHaveRoutes, BridgeHasRoute, CancelAnswers,
     OnlyTheVehicleConfirms, Said
<1>2. ASSUME NEW w \in Workers, FleetStep(w) PROVE IInv'
  BY <1>2, SubmitStep, SubmitSettlesStep, CancelReadsStep, CancelCommitsStep,
     CancelFailsStep, CancelSettlesStep, OutboxDeliversStep, DispatchCommitsStep, DispatchReturnsStep,
     DispatchSettlesStep, AckCommitsStep, AckSettlesStep DEF FleetStep
<1>3. ASSUME NEW r \in Routes, BridgeReceives(r) PROVE IInv'
  BY <1>3, ReceiveNewStep, ReceiveKnownStep, ReceiveBusyStep, ReceiveCancelStep
     DEF BridgeReceives
<1>4. CASE BridgeRuns
  BY <1>4, RunStartsStep, RunDecidesStep, RunReportsStep, RunClosesStep DEF BridgeRuns
<1> QED  BY <1>1, <1>2, <1>3, <1>4, RestartStep DEF Next

LEMMA Invariance == Spec => []IInv
BY Initially, Step, PTL DEF Spec

(* Every state of a task, a goroutine, the outbox and the vehicle is one   *)
(* the code knows, and HandleNavigationAck's cursor never runs ahead of    *)
(* the acknowledgements sent.                                              *)
THEOREM TypeCorrect == Spec => []TypeOK
<1>1. IInv => TypeOK
  BY DEF IInv
<1> QED  BY <1>1, Invariance, PTL

(* However submissions, cancellations, markDispatched, acknowledgements    *)
(* and restarts interleave, a status that the vehicle alone decides is     *)
(* found in the table only after the vehicle said so.                      *)
THEOREM VehicleConfirms == Spec => []OnlyTheVehicleConfirms
<1>1. IInv => OnlyTheVehicleConfirms
  BY DEF IInv
<1> QED  BY <1>1, Invariance, PTL

-----------------------------------------------------------------------------
(* A task moves forward                                                    *)

LEMMA RankFacts ==
    /\ Rank["absent"] = 0 /\ Rank["queued"] = 1 /\ Rank["dispatched"] = 2
    /\ Rank["accepted"] = 3 /\ Rank["running"] = 4 /\ Rank["cancel_requested"] = 5
    /\ \A s \in Terminal : Rank[s] = 6
BY DEF Rank, Statuses, Open, Terminal

(* navigationAckTransition leads forward, or nowhere.                      *)
LEMMA TransitionsMoveForward ==
    ASSUME NEW t \in AckTransitions, NEW s \in t.from
    PROVE  t.to = s \/ Rank[t.to] > Rank[s]
<1>1. CASE t \in DispatchTransitions
  BY <1>1, RankFacts DEF DispatchTransitions, Open, Terminal
<1>2. CASE t \in CancelTransitions
  BY <1>2, RankFacts DEF CancelTransitions, Terminal
<1> QED  BY <1>1, <1>2 DEF AckTransitions

Forward(r) ==
    row'[r] # row[r] => Rank[row'[r]] > Rank[row[r]] \/ OverwrittenByCancel(r)

LEMMA StepMovesForward ==
    ASSUME IInv, Next, NEW r \in Routes
    PROVE  Forward(r)
<1>1. row \in [Routes -> Statuses]
  BY DEF IInv, TypeOK
<1>2. ASSUME NEW w \in Workers, NEW q \in Routes, Submit(w, q) PROVE Forward(r)
  BY <1>1, <1>2, RankFacts DEF Submit, Forward
<1>3. ASSUME NEW w \in Workers, CancelCommits(w) PROVE Forward(r)
  <2>1. CASE r = worker[w].route
    <3>1. worker[w].step = "cancelling" /\ row'[r] = "cancel_requested"
      BY <1>1, <1>3, <2>1 DEF CancelCommits
    <3>2. CASE row[r] \in Terminal
      BY <2>1, <3>1, <3>2 DEF Forward, OverwrittenByCancel
    <3>3. CASE row[r] \notin Terminal
      BY <1>1, <3>1, <3>3, RankFacts DEF Forward, Statuses, Open
    <3> QED  BY <3>2, <3>3
  <2>2. CASE r # worker[w].route
    BY <1>1, <1>3, <2>2 DEF CancelCommits, Forward
  <2> QED  BY <2>1, <2>2
<1>4. ASSUME NEW w \in Workers, DispatchCommits(w) PROVE Forward(r)
  BY <1>1, <1>4, RankFacts DEF DispatchCommits, Forward
<1>5. ASSUME NEW w \in Workers, NEW i \in DOMAIN acks, AckCommits(w, i)
      PROVE  Forward(r)
  <2>1. PICK t \in Allowed(acks[i]) : row' = [row EXCEPT ![acks[i].route] = t.to]
    BY <1>5 DEF AckCommits
  <2>2. t \in AckTransitions /\ row[acks[i].route] \in t.from
    BY DEF Allowed
  <2>3. t.to = row[acks[i].route] \/ Rank[t.to] > Rank[row[acks[i].route]]
    BY <2>2, TransitionsMoveForward
  <2> QED  BY <1>1, <2>1, <2>3 DEF Forward
<1>6. ASSUME NEW w \in Workers, FleetStep(w) PROVE Forward(r)
  <2>1. CASE row' = row
    BY <2>1 DEF Forward
  <2> QED  BY <1>2, <1>3, <1>4, <1>5, <1>6, <2>1
           DEF FleetStep, CancelReads, OutboxDelivers, SubmitSettles, CancelFails,
               CancelSettles, DispatchReturns, DispatchSettles, AckSettles
<1>7. CASE row' = row
  BY <1>7 DEF Forward
<1>8. ASSUME NEW q \in Routes, BridgeReceives(q) PROVE row' = row
  BY <1>8 DEF BridgeReceives, ReceiveNew, ReceiveKnown, ReceiveBusy, ReceiveCancel, cloud
<1>9. CASE BridgeRuns
  BY <1>7, <1>9 DEF BridgeRuns, RunStarts, RunReports, RunCloses, RunDecides, cloud
<1> QED  BY <1>6, <1>7, <1>8, <1>9 DEF Next, Restart

(* With any number of goroutines that overlap, cancellations, lost answers *)
(* of the database, reordered, repeated and lost acknowledgements and      *)
(* restarts, the row of a task only moves forward; the one write that takes*)
(* back how a task ended is that of a Cancel which found it open in the    *)
(* map (nav.go, persistTx).                                                *)
THEOREM MovesForward == Spec => TasksMoveForward
<1> DEFINE Moves ==
      \A r \in Routes : row'[r] # row[r] =>
          Rank[row'[r]] > Rank[row[r]] \/ OverwrittenByCancel(r)
<1>1. IInv /\ [Next]_vars => [Moves]_vars
  BY StepMovesForward DEF Forward
<1> HIDE DEF Moves
<1>2. Spec => [][Moves]_vars
  BY <1>1, Invariance, PTL DEF Spec
<1> QED  BY <1>2 DEF TasksMoveForward, Moves

-----------------------------------------------------------------------------
(* A task is driven once                                                   *)

Recorded(r) == \E k \in DOMAIN recent : recent[k].route = r

(* Results are recorded once per route, and when the thread reports.       *)
RecordedOnce ==
    /\ \A k, l \in DOMAIN recent : recent[k].route = recent[l].route => k = l
    /\ bridge.stage \in {"accepted", "driving", "decided"} => ~Recorded(bridge.route)

(* STARTED is no result: only the thread sends it, when it starts.         *)
StartIsNoResult ==
    /\ bridge.result # "STARTED"
    /\ \A k \in DOMAIN recent : recent[k].result # "STARTED"

(* A route that was started has a result, or is still driven.              *)
StartedIsKnown ==
    \A i \in DOMAIN acks :
        acks[i].result = "STARTED" =>
            \/ Recorded(acks[i].route)
            \/ /\ bridge.route = acks[i].route
               /\ bridge.stage \in {"driving", "decided"}

DInv == RecordedOnce /\ StartIsNoResult /\ StartedIsKnown /\ DrivenOnce

(* The vehicle gets no more tasks than the bridge remembers results.       *)
AllAreRemembered == IsFiniteSet(Routes) /\ Cardinality(Routes) <= MaxRecent

LEMMA DrivenInitially == Init => DInv
<1> SUFFICES ASSUME Init PROVE DInv
  OBVIOUS
<1>1. recent = << >> /\ acks = << >> /\ bridge = Parked
  BY DEF Init
<1> QED  BY <1>1, IdleFacts DEF DInv, RecordedOnce, StartIsNoResult, StartedIsKnown,
         DrivenOnce, Recorded

(* Nothing is forgotten while there is room for every task.                *)
LEMMA NothingIsForgotten ==
    ASSUME AllAreRemembered, TypeOK, RecordedOnce, bridge.route \in Routes,
           bridge.stage = "decided"
    PROVE  Len(recent) < MaxRecent
<1>1. recent \in Seq([route : Routes, result : Results])
  BY DEF TypeOK
<1>2. PICK n \in Nat : n = Len(recent) /\ DOMAIN recent = 1..n
  BY <1>1
<1>3. \A k \in 1..n : recent[k].route \in Routes
  <2>1. \A k \in 1..n : recent[k] \in [route : Routes, result : Results]
    BY <1>1, <1>2, SeqElement
  <2> QED  BY <2>1
<1> DEFINE f == [k \in 1..(n + 1) |-> IF k = n + 1 THEN bridge.route ELSE recent[k].route]
<1>4. f \in [1..(n + 1) -> Routes]
  BY <1>2, <1>3
<1>5. \A k, l \in 1..(n + 1) : f[k] = f[l] => k = l
  <2> SUFFICES ASSUME NEW k \in 1..(n + 1), NEW l \in 1..(n + 1), f[k] = f[l] PROVE k = l
    OBVIOUS
  <2>1. \A j \in 1..n : recent[j].route # bridge.route
    BY <1>2 DEF RecordedOnce, Recorded
  <2>2. \A i, j \in 1..n : recent[i].route = recent[j].route => i = j
    BY <1>2 DEF RecordedOnce
  <2>3. \A j \in 1..(n + 1) : j = n + 1 \/ j \in 1..n
    BY <1>2
  <2> QED  BY <2>1, <2>2, <2>3
<1> HIDE DEF f
<1>6. f \in Injection(1..(n + 1), Routes)
  BY <1>4, <1>5 DEF Injection, IsInjective
<1>7. Cardinality(1..(n + 1)) <= Cardinality(Routes)
  BY <1>6, FS_Injection DEF AllAreRemembered
<1>8. Cardinality(1..(n + 1)) = n + 1
  BY <1>2, FS_Interval
<1> QED  BY <1>2, <1>7, <1>8, NavigationConstants, FS_CardinalityType
         DEF AllAreRemembered, NavigationConstants

(* Nothing is said of a start.                                             *)
LEMMA QuietSteps ==
    ASSUME IInv, DInv, UNCHANGED recent,
           bridge'.result # "STARTED",
           bridge'.route = bridge.route,
           \/ bridge'.stage = bridge.stage
           \/ bridge'.stage = "decided" /\ bridge.stage \in {"accepted", "driving"},
           \/ acks' = acks
           \/ \E r \in Routes, a \in Actions, x \in Results :
                 Reply(r, a, x) /\ x # "STARTED"
    PROVE  DInv'
<1>1. RecordedOnce' /\ StartIsNoResult'
  BY DEF DInv, RecordedOnce, StartIsNoResult, Recorded
<1>2. CASE acks' = acks
  BY <1>1, <1>2 DEF DInv, StartedIsKnown, DrivenOnce, Recorded
<1>3. ASSUME NEW r \in Routes, NEW a \in Actions, NEW x \in Results,
             Reply(r, a, x), x # "STARTED"
      PROVE  StartedIsKnown' /\ DrivenOnce'
  <2>1. /\ acks'[Len(acks) + 1] = [route |-> r, action |-> a, result |-> x]
        /\ \A i \in DOMAIN acks : acks'[i] = acks[i]
        /\ DOMAIN acks' = DOMAIN acks \cup {Len(acks) + 1}
    BY <1>3, ReplyFacts DEF IInv
  <2>2. acks'[Len(acks) + 1].result # "STARTED"
    BY <1>3, <2>1
  <2> QED  BY <2>1, <2>2 DEF DInv, StartedIsKnown, DrivenOnce, Recorded
<1> QED  BY <1>1, <1>2, <1>3 DEF DInv

LEMMA DrivenNew == ASSUME IInv, DInv, NEW r \in Routes, ReceiveNew(r) PROVE DInv'
<1>1. /\ recent' = recent /\ ~Recorded(r) /\ bridge.stage = "idle"
      /\ bridge'.route = r /\ bridge'.stage = "accepted" /\ bridge'.result = "ACCEPTED"
  BY IdleFacts DEF ReceiveNew, IInv, BridgeHasRoute, Recorded, Parked
<1>2. RecordedOnce' /\ StartIsNoResult'
  BY <1>1 DEF DInv, RecordedOnce, StartIsNoResult, Recorded
<1>3. /\ acks'[Len(acks) + 1] =
            [route |-> r, action |-> "DISPATCH", result |-> "ACCEPTED"]
      /\ \A i \in DOMAIN acks : acks'[i] = acks[i]
      /\ DOMAIN acks' = DOMAIN acks \cup {Len(acks) + 1}
  BY ReplyFacts DEF ReceiveNew, IInv, Actions, Results
<1>4. StartedIsKnown' /\ DrivenOnce'
  BY <1>1, <1>3 DEF DInv, StartedIsKnown, DrivenOnce, Recorded
<1> QED  BY <1>2, <1>4 DEF DInv

LEMMA DrivenReceives ==
    ASSUME IInv, DInv, NEW r \in Routes,
           ReceiveKnown(r) \/ ReceiveBusy(r) \/ ReceiveCancel(r)
    PROVE  DInv'
<1>1. recent' = recent /\ bridge.result # "STARTED"
  BY DEF ReceiveKnown, ReceiveBusy, ReceiveCancel, DInv, StartIsNoResult
<1>2. /\ bridge'.result # "STARTED" /\ bridge'.route = bridge.route
      /\ bridge'.stage = bridge.stage
  BY <1>1 DEF ReceiveKnown, ReceiveBusy, ReceiveCancel, IInv, TypeOK
<1>3. \E a \in Actions, x \in Results : Reply(r, a, x) /\ x # "STARTED"
  <2>1. CASE ReceiveKnown(r)
    <3>1. PICK k \in DOMAIN recent : Reply(r, "DISPATCH", recent[k].result)
      BY <2>1 DEF ReceiveKnown
    <3>2. recent \in Seq([route : Routes, result : Results])
      BY DEF IInv, TypeOK
    <3>3. recent[k] \in [route : Routes, result : Results]
      BY <3>2, SeqElement
    <3>4. recent[k].result \in Results /\ recent[k].result # "STARTED"
      BY <3>3 DEF DInv, StartIsNoResult
    <3> QED  BY <3>1, <3>4 DEF Actions
  <2>2. CASE ReceiveBusy(r)
    BY <2>2 DEF ReceiveBusy, Actions, Results
  <2>3. CASE ReceiveCancel(r)
    BY <2>3 DEF ReceiveCancel, Actions, Results
  <2> QED  BY <2>1, <2>2, <2>3
<1>4. PICK a \in Actions, x \in Results : Reply(r, a, x) /\ x # "STARTED"
  BY <1>3
<1> QED  BY <1>1, <1>2, <1>4, QuietSteps

LEMMA DrivenStarts == ASSUME IInv, DInv, RunStarts PROVE DInv'
<1>1. /\ bridge.route \in Routes /\ bridge.stage = "accepted" /\ recent' = recent
      /\ bridge'.route = bridge.route /\ bridge'.stage = "driving"
      /\ bridge'.result = bridge.result
  BY DEF RunStarts, IInv, TypeOK, BridgeHasRoute
<1>2. RecordedOnce' /\ StartIsNoResult'
  BY <1>1 DEF DInv, RecordedOnce, StartIsNoResult, Recorded
<1>3. /\ acks'[Len(acks) + 1] =
            [route |-> bridge.route, action |-> "DISPATCH", result |-> "STARTED"]
      /\ \A i \in DOMAIN acks : acks'[i] = acks[i]
      /\ DOMAIN acks' = DOMAIN acks \cup {Len(acks) + 1}
  BY <1>1, ReplyFacts DEF RunStarts, IInv, Actions, Results
<1>4. StartedIsKnown'
  BY <1>1, <1>3 DEF DInv, StartedIsKnown, Recorded
<1>5. \A i \in DOMAIN acks : acks[i].result = "STARTED" => acks[i].route # bridge.route
  BY <1>1 DEF DInv, StartedIsKnown, RecordedOnce
<1>6. DrivenOnce'
  BY <1>3, <1>5 DEF DInv, DrivenOnce
<1> QED  BY <1>2, <1>4, <1>6 DEF DInv

LEMMA DrivenReports ==
    ASSUME AllAreRemembered, IInv, DInv, RunReports
    PROVE  DInv'
<1>1. /\ bridge.route \in Routes /\ bridge.result \in Results
      /\ bridge.stage = "decided" /\ bridge'.stage = "closing"
      /\ bridge'.route = bridge.route /\ bridge'.result = bridge.result
      /\ bridge.result # "STARTED"
  BY DEF RunReports, IInv, TypeOK, BridgeHasRoute, DInv, StartIsNoResult
<1>2. PICK e \in [route : Routes, result : Results] :
          e = [route |-> bridge.route, result |-> bridge.result]
  BY <1>1
<1>3. recent \in Seq([route : Routes, result : Results]) /\ Len(recent) < MaxRecent
  BY <1>1, NothingIsForgotten DEF IInv, DInv, TypeOK
<1>4. recent' = Append(recent, e)
  <2>1. Len(Append(recent, e)) = Len(recent) + 1 /\ Len(recent) \in Nat
    BY <1>2, <1>3
  <2> QED  BY <1>2, <1>3, <2>1, NavigationConstants DEF RunReports, Record, NavigationConstants
<1>5. /\ DOMAIN recent' = DOMAIN recent \cup {Len(recent) + 1}
      /\ recent'[Len(recent) + 1] = e
      /\ \A k \in DOMAIN recent : recent'[k] = recent[k]
  BY <1>2, <1>3, <1>4
<1>6. \A k \in DOMAIN recent : recent[k].route # bridge.route
  BY <1>1 DEF DInv, RecordedOnce, Recorded
<1>7. RecordedOnce'
  BY <1>1, <1>2, <1>5, <1>6 DEF DInv, RecordedOnce
<1>8. StartIsNoResult'
  BY <1>1, <1>2, <1>5 DEF DInv, StartIsNoResult
<1>9. /\ acks'[Len(acks) + 1] =
            [route |-> bridge.route, action |-> "DISPATCH", result |-> bridge.result]
      /\ \A i \in DOMAIN acks : acks'[i] = acks[i]
      /\ DOMAIN acks' = DOMAIN acks \cup {Len(acks) + 1}
  BY <1>1, ReplyFacts DEF RunReports, IInv, Actions
<1>10. StartedIsKnown'
  <2>1. ASSUME NEW i \in DOMAIN acks', acks'[i].result = "STARTED"
        PROVE  \E k \in DOMAIN recent' : recent'[k].route = acks'[i].route
    <3>1. i \in DOMAIN acks /\ acks'[i] = acks[i]
      BY <1>1, <1>9, <2>1
    <3>2. CASE \E k \in DOMAIN recent : recent[k].route = acks[i].route
      BY <1>5, <3>1, <3>2
    <3>3. CASE bridge.route = acks[i].route
      BY <1>2, <1>5, <3>1, <3>3
    <3> QED  BY <2>1, <3>1, <3>2, <3>3 DEF DInv, StartedIsKnown, Recorded
  <2> QED  BY <2>1 DEF StartedIsKnown, Recorded
<1>11. DrivenOnce'
  BY <1>1, <1>9 DEF DInv, DrivenOnce
<1> QED  BY <1>7, <1>8, <1>10, <1>11 DEF DInv

LEMMA DrivenCloses == ASSUME IInv, DInv, RunCloses PROVE DInv'
<1>1. /\ bridge.stage = "closing" /\ recent' = recent /\ acks' = acks
      /\ bridge'.stage = "idle" /\ bridge'.result = "ACCEPTED"
  BY IdleFacts DEF RunCloses
<1> QED  BY <1>1 DEF DInv, RecordedOnce, StartIsNoResult, StartedIsKnown, DrivenOnce, Recorded

LEMMA DrivenStep ==
    ASSUME AllAreRemembered, IInv, DInv, [Next]_vars
    PROVE  DInv'
<1>1. CASE bridge' = bridge /\ recent' = recent /\ acks' = acks
  BY <1>1 DEF DInv, RecordedOnce, StartIsNoResult, StartedIsKnown, DrivenOnce, Recorded
<1>2. ASSUME NEW w \in Workers, FleetStep(w) PROVE DInv'
  BY <1>1, <1>2 DEF FleetStep, Submit, SubmitSettles, CancelReads, CancelCommits, CancelFails,
     CancelSettles, OutboxDelivers, DispatchCommits, DispatchReturns, DispatchSettles,
     AckCommits, AckSettles, vehicle
<1>3. ASSUME NEW r \in Routes, BridgeReceives(r) PROVE DInv'
  BY <1>3, DrivenNew, DrivenReceives DEF BridgeReceives
<1>4. ASSUME NEW result \in {"COMPLETED", "FAILED", "CANCELLED"}, RunDecides(result)
      PROVE  DInv'
  <2>1. /\ recent' = recent /\ acks' = acks
        /\ bridge'.route = bridge.route /\ bridge'.result # "STARTED"
        /\ bridge'.stage = "decided" /\ bridge.stage \in {"accepted", "driving"}
    BY <1>4 DEF RunDecides, IInv, TypeOK
  <2> QED  BY <2>1, QuietSteps
<1>5. CASE BridgeRuns
  BY <1>4, <1>5, DrivenStarts, DrivenReports, DrivenCloses DEF BridgeRuns
<1> QED  BY <1>1, <1>2, <1>3, <1>5 DEF Next, Restart, vehicle, vars

(* However often the outbox delivers a task, and whatever is cancelled or  *)
(* restarted in between, NavigationBridge starts driving it once, as long  *)
(* as _record_result has room for every task the vehicle is given.  With   *)
(* more tasks a forgotten one that is delivered again is driven again.     *)
THEOREM DrivesOnce ==
    ASSUME AllAreRemembered
    PROVE  Spec => []DrivenOnce
<1>1. IInv /\ DInv /\ [Next]_vars => DInv'
  BY DrivenStep
<1>2. DInv => DrivenOnce
  BY DEF DInv
<1> QED  BY <1>1, <1>2, DrivenInitially, Invariance, PTL DEF Spec

=============================================================================
