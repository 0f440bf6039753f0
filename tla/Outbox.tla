------------------------------- MODULE Outbox -------------------------------
(***************************************************************************)
(* The transactional outbox (server/fleet/outbox.go): every signed message *)
(* to a vehicle is a row of platform_outbox, and every Fleet process runs  *)
(* one loop that claims a batch of due rows, publishes them one by one     *)
(* over MQTT and marks each with the outcome.                              *)
(*                                                                         *)
(* Instants are kept as distances from now: due is next_attempt_at - now,  *)
(* so that the clock may run for ever.  A distance below Floor cannot be   *)
(* told from Floor by the code and is not counted further.                 *)
(***************************************************************************)
EXTENDS Integers, Sequences

CONSTANTS
    Messages,       \* dedupe keys: a message enqueued again is the same row
    Instances,      \* Fleet processes
    BatchSize,      \* outboxBatchSize
    MaxAttempts,    \* outboxMaxAttempts
    ClaimTimeout,   \* outboxClaimTimeout
    MaxBackoff,     \* the cap of the backoff, 60 s
    ItemTime,       \* how long publishing and marking one item may take, 4 s
    MaxOutages      \* bound: crashes and failed updates

ASSUME OutboxConstants ==
    /\ BatchSize \in Nat \ {0} /\ MaxAttempts \in Nat \ {0}
    /\ ClaimTimeout \in Nat \ {0} /\ MaxBackoff \in Nat
    /\ ItemTime \in Nat /\ MaxOutages \in Nat

Floor == -(ClaimTimeout + 1)

Furthest == IF MaxBackoff > ClaimTimeout THEN MaxBackoff ELSE ClaimTimeout

RowStates == {"absent", "pending", "sending", "delivered", "dead"}

OutboxRows == [status : RowStates, attempts : 0..MaxAttempts, due : Floor..Furthest]

Items == [id : Messages, attempts : 1..MaxAttempts]

VARIABLES
    rows,           \* platform_outbox
    created,        \* the rows in the order of created_at
    hand,           \* per process, the claimed items it has not marked yet
    outcome,        \* what publishMQTT returned for the first of them
    held,           \* how long each process has been at its first item
    accepted,       \* the messages the Broker has taken at least once
    outages,
    overdue         \* history: messages whose claim ran out in somebody's hand

outboxVars ==
    <<rows, created, hand, outcome, held, accepted, outages, overdue>>

Holds(items, m) == \E k \in DOMAIN items : items[k].id = m

OutboxInit ==
    /\ rows = [m \in Messages |-> [status |-> "absent", attempts |-> 0, due |-> 0]]
    /\ created = << >>
    /\ hand = [i \in Instances |-> << >>]
    /\ outcome = [i \in Instances |-> "none"]
    /\ held = [i \in Instances |-> 0]
    /\ accepted = {}
    /\ outages = 0
    /\ overdue = {}

(* insertOutbox: ON CONFLICT (dedupe_key) DO NOTHING.                      *)
Enqueue(m) ==
    /\ rows[m].status = "absent"
    /\ rows' = [rows EXCEPT ![m].status = "pending", ![m].due = 0]
    /\ created' = Append(created, m)
    /\ UNCHANGED <<hand, outcome, held, accepted, outages, overdue>>

-----------------------------------------------------------------------------
(* claimOutbox                                                             *)

(* Mutant: rows of a crashed process are left alone.                       *)
RecoveredNever == rows

(* Mutant: every claim is taken for one of a crashed process.              *)
RecoveredAtOnce ==
    [m \in Messages |->
        IF rows[m].status = "sending"
        THEN [rows[m] EXCEPT !.status = "pending", !.due = 0]
        ELSE rows[m]]

(* The claim is two claim timeouts old: its process is taken for dead.     *)
ClaimRanOut(row) == row.status = "sending" /\ row.due < -ClaimTimeout

Recovered ==
    [m \in Messages |->
        IF ClaimRanOut(rows[m])
        THEN [rows[m] EXCEPT !.status = "pending", !.due = 0]
        ELSE rows[m]]

Ready == {m \in Messages : Recovered[m].status = "pending" /\ Recovered[m].due <= 0}

CreatedBefore(m, n) ==
    \E j, k \in DOMAIN created : j < k /\ created[j] = m /\ created[k] = n

Batches == UNION {[1..n -> Messages] : n \in 0..BatchSize}

(* The oldest rows that are due, in their order, at most a batch of them.  *)
IsDue(batch) ==
    LET taken == {batch[k] : k \in DOMAIN batch} IN
    /\ taken \subseteq Ready
    /\ \A j, k \in DOMAIN batch : j < k => CreatedBefore(batch[j], batch[k])
    /\ \A m \in Ready \ taken : /\ Len(batch) = BatchSize
                               /\ \A n \in taken : CreatedBefore(n, m)

(* The number of attempts only matters up to MaxAttempts.                  *)
NextAttempt(m) ==
    IF rows[m].attempts < MaxAttempts THEN rows[m].attempts + 1 ELSE MaxAttempts

Claim(i) ==
    /\ hand[i] = << >>
    /\ \E batch \in Batches :
        /\ IsDue(batch)
        /\ rows' = [m \in Messages |->
              IF \E k \in DOMAIN batch : batch[k] = m
              THEN [status |-> "sending", attempts |-> NextAttempt(m), due |-> ClaimTimeout]
              ELSE Recovered[m]]
        /\ hand' = [hand EXCEPT
              ![i] = [k \in DOMAIN batch |->
                        [id |-> batch[k], attempts |-> NextAttempt(batch[k])]]]
    /\ UNCHANGED <<created, outcome, held, accepted, outages, overdue>>

-----------------------------------------------------------------------------
(* publishMQTT: the Broker takes the message; there is no connection; or   *)
(* the wait for the Broker ends after 2 s, and the message may have been   *)
(* taken or not.                                                           *)

PublishSucceeds(i) ==
    /\ hand[i] # << >> /\ outcome[i] = "none"
    /\ accepted' = accepted \cup {Head(hand[i]).id}
    /\ outcome' = [outcome EXCEPT ![i] = "ok"]
    /\ UNCHANGED <<rows, created, hand, held, outages, overdue>>

PublishFails(i) ==
    /\ hand[i] # << >> /\ outcome[i] = "none"
    /\ \/ UNCHANGED accepted
       \/ accepted' = accepted \cup {Head(hand[i]).id}
    /\ outcome' = [outcome EXCEPT ![i] = "error"]
    /\ UNCHANGED <<rows, created, hand, held, outages, overdue>>

-----------------------------------------------------------------------------
(* markOutbox: the row is updated whatever its status is by then.          *)

Backoff(attempts) ==
    IF attempts * attempts > MaxBackoff THEN MaxBackoff ELSE attempts * attempts

(* Mutant: a message that was not taken is marked like one that was.       *)
MarkedDelivered(item, ok) == [rows[item.id] EXCEPT !.status = "delivered"]

Marked(item, ok) ==
    CASE ok ->
            [rows[item.id] EXCEPT !.status = "delivered"]
      [] ~ ok /\ item.attempts >= MaxAttempts ->
            [rows[item.id] EXCEPT !.status = "dead", !.due = Backoff(item.attempts)]
      [] OTHER ->
            [rows[item.id] EXCEPT !.status = "pending", !.due = Backoff(item.attempts)]

(* A process goes on with the rest of its batch, or with nothing.          *)
GoesOn(i, rest) ==
    /\ hand' = [hand EXCEPT ![i] = rest]
    /\ outcome' = [outcome EXCEPT ![i] = "none"]
    /\ held' = [held EXCEPT ![i] = 0]
    /\ overdue' = {m \in overdue : \E j \in Instances : Holds(hand'[j], m)}

Drop(i) == GoesOn(i, Tail(hand[i]))

Mark(i) ==
    /\ outcome[i] # "none"
    /\ rows' = [rows EXCEPT
          ![Head(hand[i]).id] = Marked(Head(hand[i]), outcome[i] = "ok")]
    /\ Drop(i)
    /\ UNCHANGED <<created, accepted, outages>>

(* The update fails; the error is logged and the row stays as it is.       *)
MarkFails(i) ==
    /\ outcome[i] # "none" /\ outages < MaxOutages
    /\ outages' = outages + 1
    /\ Drop(i)
    /\ UNCHANGED <<rows, created, accepted>>

Crash(i) ==
    /\ hand[i] # << >> /\ outages < MaxOutages
    /\ outages' = outages + 1
    /\ GoesOn(i, << >>)
    /\ UNCHANGED <<rows, created, accepted>>

-----------------------------------------------------------------------------
Waiting(row) == row.status \in {"pending", "sending"}

AdvanceClock ==
    /\ \A i \in Instances : hand[i] # << >> => held[i] < ItemTime
    /\ rows' = [m \in Messages |->
          IF Waiting(rows[m]) /\ rows[m].due > Floor
          THEN [rows[m] EXCEPT !.due = @ - 1] ELSE rows[m]]
    /\ held' = [i \in Instances |-> IF hand[i] # << >> THEN held[i] + 1 ELSE 0]
    /\ overdue' = overdue \cup
          {m \in Messages : ClaimRanOut(rows'[m]) /\ \E i \in Instances : Holds(hand[i], m)}
    /\ UNCHANGED <<created, hand, outcome, accepted, outages>>

Work(i) == Claim(i) \/ PublishSucceeds(i) \/ PublishFails(i) \/ Mark(i)

OutboxNext ==
    \/ \E m \in Messages : Enqueue(m)
    \/ \E i \in Instances : Work(i) \/ MarkFails(i) \/ Crash(i)
    \/ AdvanceClock

OutboxSpec == OutboxInit /\ [][OutboxNext]_outboxVars

(* The loop wakes up every 500 ms, publishMQTT and the updates have        *)
(* timeouts, and time passes.                                              *)
Fairness ==
    /\ \A i \in Instances : WF_outboxVars(Work(i))
    /\ WF_outboxVars(AdvanceClock)

FairOutboxSpec == OutboxSpec /\ Fairness

-----------------------------------------------------------------------------
(* Properties                                                              *)

(* The rows, the claimed batches and their order have the types the code   *)
(* gives them; the backoff is capped.                                      *)
OutboxTypeOK ==
    /\ rows \in [Messages -> OutboxRows]
    /\ created \in Seq(Messages)
    /\ hand \in [Instances -> Seq(Items)]
    /\ \A i \in Instances : Len(hand[i]) <= BatchSize
    /\ outcome \in [Instances -> {"none", "ok", "error"}]
    /\ held \in [Instances -> 0..ItemTime]
    /\ accepted \subseteq Messages
    /\ outages \in 0..MaxOutages
    /\ overdue \subseteq Messages

(* "delivered" means that the Broker took the message, whatever crashes,   *)
(* takeovers and late updates happened since it was claimed.               *)
DeliveredWasAccepted ==
    \A m \in Messages : rows[m].status = "delivered" => m \in accepted

(* A message has one sender at a time, once in its batch, and nobody else  *)
(* writes its row meanwhile: what the sender marks is the attempt it       *)
(* claimed, so no older result replaces a newer one.  The exception is a   *)
(* message whose claim ran out while a process still had it, which a batch *)
(* of slow items brings about (32 items of up to 4 s, two claim timeouts   *)
(* of 30 s), and it lasts until no process has the message any more.       *)
ClaimsAreExclusive ==
    \A i \in Instances : \A k \in DOMAIN hand[i] :
        LET m == hand[i][k].id IN
        m \notin overdue =>
            /\ rows[m].status = "sending"
            /\ rows[m].attempts = hand[i][k].attempts
            /\ \A j \in Instances : \A n \in DOMAIN hand[j] :
                  hand[j][n].id = m => j = i /\ n = k

(* Every message that was enqueued is delivered or given up, also when the *)
(* process that claimed it crashed or could not mark it.                   *)
MessagesSettle ==
    \A m \in Messages :
        (rows[m].status = "pending") ~> (rows[m].status \in {"delivered", "dead"})

=============================================================================
