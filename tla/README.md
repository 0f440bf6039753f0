# A TLA+ verification of the remote-driving platform

This directory models the control core of the platform in `src/`: the cloud
service that grants remote control, the outbox that carries its decisions to the
vehicles, the vehicle-side arbiter that decides whether a command may move the
car, the navigation and map-publication protocols between the two, the
platform's view of a vehicle, and who may use the platform: accounts, sessions,
groups, the gate of the open API, and the store of maps. TLC checks every module
on small instances; TLAPS proves every invariant and every safety action property
of the passing runs for every value of the constants.

`PROJECT.json` lists the components, the runs, the line of source every
definition translates, the mutants that show each property can fail, the
hazards and the theorems.

```
tlc -workers 2 -config MCSafetyArbiter.cfg MCSafetyArbiter      # one run
tlapm DeliveryProofs.tla                                        # one proof module
```

## 1. Inventory

| Component (source) | State | Operations | What is hard |
| --- | --- | --- | --- |
| Safety Arbiter (`vehicle/safety-arbiter`) | current lease, highest fencing token, latched minimal-risk reason, watchdog deadline | grant, renewal, revocation, command, tick, restart | one mutex shared by the frame loop and the watchdog, held during actuator calls that time out; two links that duplicate and reorder |
| ROS 1 adapter (`vehicle/adapters/ros1`) | the motion on the ECU; the route being driven, the last 128 results | actuator requests, one thread per connection; navigation bridge | requests that outlive their caller's timeout; redelivered commands |
| Control Authority (`durable_authority.go`, `capabilities.go`) | leases, epochs, renewals, outbox messages | request, renew, release, emergency stop, lazy expiry | concurrent transactions, retries, overdue leases, a vehicle that loses its standing |
| Navigation tasks (`nav.go`, `nav_ack.go`) | `navigation_routes` and a map in memory | submit, cancel, delivery report, acknowledgement, restart | decisions on the copy in memory, callbacks in any order, commits whose answer is lost |
| Outbox (`outbox.go`) | `platform_outbox` | enqueue, claim, publish, mark | several processes, crashes, lost answers, slow batches |
| Map publication (`map_publication.go`) | `map_publications` | request, approve (with the vehicle's standing and compatibility), dispatch, acknowledge, roll back | reads before transactions, acknowledgements handled before the sequence check |
| Vehicle state (`state.go`, `state_ext.go`) | `vehicles`, `vehicle_state`, their copy in memory, a queue of writes | telemetry, register, sweep, REST registration, restart | copy, commit, swap under one lock while others write without it; queued writes |
| Gateway registry (`vehicle_registry.go`, `capabilities.go`) | enrollments, gateways, capabilities, sequence cursors | enroll, activate, revoke, admit, claim a sequence | several open enrollments, revocation against messages in flight |
| Inbound router (`mqtt.go`) | none | dispatch of each message kind | the order of admission, effect and sequence check differs per kind |
| Takeover desk (`takeover_reg.go`) | a projection of leases and requests | refresh, request, approve | the projection is rebuilt without the lock |
| Vehicle Gateway, control relay, dual-link client (`gateway.py`, `control_relay.py`, `dual_link_control.py`) | return routes, pending acknowledgements | relay commands and acknowledgements over two links | duplicates, expiry of routes |
| Accounts and sessions (`auth.go`) | users, sessions in memory and in the table, captchas, lockout | two-step login, sliding renewal, restoration, logout, password change, clean-up | every session row is written without the mutex: restoring a session against revoking it |
| Accounts and groups (`admin.go`, `groups.go`) | accounts and groups in memory and in tables, quotas | create, delete, regroup, list, group changes | checks in one critical section and effects in another; failed and unanswered writes |
| Open API gate (`openapi.go`) and settings (`config.go`) | keys, nonces, rate windows, lockouts, settings | admission of a signed request, its scope, life of a key, change of settings | four critical sections per call, boundaries of windows, changes under way |
| WebSocket hub (`ws.go`) | clients with bounded queues | register, fan out, close | closing a queue against sending to it |
| Maintenance workspace (`workspace.go`, `terminal_agent.py`) | approvals, sessions | approve, open, revoke, terminal | an approval that changes while a session is opened |
| Map store (`maps.go`) | version directories, rows and entries in memory | upload, edit, convert, preview, delete | files and rows that change separately, a deletion that removes files without the mutex |
| Conversions, devices, events, metrics, HTTP, web console | tables or none | | parsing, arithmetic, input and output |

How they interact. An operator's request becomes a lease row, an epoch and a
signed `LeaseGrant` in the outbox, in one transaction; the outbox publishes it
over MQTT; the Gateway hands it to the Arbiter. Driving commands do not pass
through the database: they go over two UDP links to the Gateway and to the
Arbiter, which looks only at its lease, its clock and its watchdog. Navigation
and map commands take the outbox; their acknowledgements come back through the
router, as do telemetry and registrations. The authority reads what the registry
and the telemetry wrote (`requireControlCapabilityTx`,
`requireVehicleLiveForControlTx`) at each request and renewal, and the approval
of a map reads them too. Browsers come in through a session of `auth.go`, other
systems through a key of `openapi.go`; a map is published from the store.

What makes each part correct is stated by the properties of section 3.

## 2. Modules

| Module | Models | State and steps |
| --- | --- | --- |
| `FencedControl` | what a vehicle promises about control | terms that only grow, one holder, ordered motions |
| `SafetyArbiter` | the Arbiter and the actuator server | `lease`, `lastFencing`, `minimalRisk` are the Go fields; `ecu` and `late` are the adapter. One action per handler, its actuator call included; a call advances the clock by up to `CallTime` with the mutex held. `lost` (the highest token lost since the start) and `astray` (the ECU may hold what the Arbiter did not want last) are histories |
| `ControlAuthority` | `DurableAuthority` | the tables; one action per serializable transaction |
| `NavigationRoute` | `NavStore`, `HandleNavigationAck`, the navigation bridge | one step per transaction and per section under `ns.mu`, of goroutines `Workers` that overlap; a commit may apply without an answer, and the map is then left as it was; an acknowledgement may be overtaken, repeated or never handled |
| `Outbox` | `outboxLoop` of several processes | claim, publish, mark are separate steps; instants are distances from now. A claim picks the batch the query describes: rows that are ready, oldest first, as many as fit. `overdue` is the history of claims that ran out while a process still had the message |
| `MapPublication` | the publication workflow and a Map Agent | reads and inserts that are not one transaction are two steps |
| `VehicleStatus` | telemetry, registration, sweep, queue, registry | callbacks with the stages admitted, copied, committed (telemetry) and admitted, declared, claimed (register); the sweep, `RegisterVehicle` and the queue beside them |
| `AuthSessions` | logins and sessions of one account | goroutines `Workers` with one step per critical section and per write of a row; a write is ok, failed or unanswered |
| `Organisation` | accounts, roles, groups, quotas | one action for each one-section request; regrouping and the deletion of a group in three steps each |
| `OpenApiGate` | `authenticate`, `ServeOpen`, the life of one key, the settings it reads | the stages of a call are its critical sections; `recordFail` uses the clock it read before it took the mutex; the scope check and the effect of a call end it |
| `MapStore` | versions of one map, their files and rows, and what a publication sends | the store's mutex is a variable; files, commit and entry are separate steps, a stop between any two |
| `...Proofs` | `DeliveryProofs` is about `VehicleStatus` and `Outbox`, `MapProofs` about `MapStore` and `MapPublication`, each other one about the module it is named after | theorems, the inductive invariant and one lemma per action (section 4). Where there are two, both are extended: `Outbox` and `MapPublication` name their specification `OutboxSpec` and `PublicationSpec` for this |
| `MC...` | | model values and symmetry for TLC |

Conventions. A message refused by an early return is a stuttering step: guards
are the code's conditions. MACs, certificates and protobuf parsing are assumed to
have succeeded; a message that fails them changes nothing. Definitions whose
comment starts with *Mutant* are not part of the model: each is the plausible
mistake that shows a property can fail.

What is abstracted. Kinematic limits are one command mode, "outside limits". A
telemetry message stands for the values it carries. A driver stands for an
operator and the device of the lease. The Map Agent is not in the repository and
is modelled from the messages the platform expects. The unit of time is one
tick, one batch item or one window, whichever the module needs. What a Gateway
declares is the set of facts the compatibility matrix asks for. Roles and groups
of a session are one grant; a content of a map is a number in place of its
SHA-256; a nonce stands for one signed message. Operations on different accounts,
keys or maps share only a mutex, so that one of each is modelled where nothing
relates them.

## 3. Runs

| Run | Configuration | Shows |
| --- | --- | --- |
| `arbiter` | 2 leases, 2 sessions, 2 tokens, 2 sequence numbers, 5 instants, every outcome of an actuator call, restarts | control ends within one watchdog period, tick and call; motions are in order; a token lost since the start is not armed again; no motion is left on the ECU without a lease but in the three named ways; `FencedControl` is implemented |
| `authority` | 2 vehicles, 2 drivers, 2 leases, one request identifier, renewals in the grace period, vehicles that lose and regain standing | exclusive control, ended leases fenced, messages that say what the tables say, no control longer than one lease after the vehicle was last fit, leases and epochs that only move forward |
| `navigation` | 1 task, 2 goroutines, acknowledgements in any order and again, cancellations, lost answers of commits, restarts | only the vehicle confirms; a task only moves forward, except when a cancellation decided on a stale map |
| `navigation_overwritten` | 1 task, 2 goroutines, no restart | expected violation of `TerminalIsFinal`: a cancellation overwrites how the task ended |
| `navigation_answers` | 2 tasks, 2 deliveries of each command, nothing handled by the platform, fairness of the bridge alone | each task is driven at most once; the vehicle answers for every task that reaches it |
| `outbox` | 2 messages, 2 processes, 3 attempts, 2 faults, batches longer than their claims, fairness | a message has one sender, which marks the attempt it claimed, until the claim runs out in its hand; delivered means taken by the Broker; every message is delivered or given up |
| `map_publication` | 3 publications, acknowledgements in order or not, a vehicle whose standing changes | at most one active and, in order, the one the vehicle runs |
| `vehicle_status` | 2 callbacks, declarations that allow everything, monitoring or nothing, 2 enrollments, faults, fairness | memory is the row, telemetry never goes back, a revoked Gateway leaves its vehicle quarantined, an activation uses up older enrollments, a silent vehicle is shown offline |
| `sessions` | 1 token, 2 requests at a time, 2 grants, 2 events (failed writes, restarts, administrative changes) | no request admitted later than 8 hours after its login; a session that is revoked when neither the map nor a request has a copy of it any more does not return; a change of groups arrives in map and table for the sessions it can reach |
| `organisation` | 2 administrators, 4 names, 1 group with room for one of each role, 3 events | a super remains; memory is the table; a quota is exceeded by the crossing requests at most; no account in a group that is gone, outside the named crossings |
| `open_api` | 2 calls at a time, 2 messages that come repeatedly, 2 grants, settings that change, 2 events | a message passes again only after its nonce's time; no window lets in more than the limit; a lock stops all but the calls on their way; an answered change or revocation binds every later call |
| `map_store` | 2 requests at a time, 2 contents, 4 versions, 3 events | a version keeps its files; memory is the table; previews and publications are of what was asked for, outside the named crossings |

Why the bounds are enough. The arbiter compares tokens, sequence numbers and
instants with one another and with one lease: two tokens, two leases and two
sequence numbers give older, equal and newer, and the horizon of five instants is
longer than lease, watchdog, tick and call together. The authority needs two of
each party for a conflict. Two goroutines and one task give every overlap of the
operations of `NavStore`, which touch one task each. An outbox row meets two
processes at a time, and three attempts include a retry and the last one; two
items of two units against a claim of two units keep the proportion of the code,
where a batch (32 items of up to 4 s) may take twice the life of a claim (60 s).
Two callbacks and two messages give every overtaking. `Window = 0` in
`vehicle_status` makes any passing of time exceed the window, so that the sweep
may run at any point between two messages. In the four last runs two workers give
every pair of crossing requests, and the events are few because each is a failure,
a restart or a change that the others then meet at any stage. Larger instances
were checked once and agree: `sessions` with three events (13.7 million states)
and with two tokens (11.7 million), `open_api` started from every valid setting
(4.1 million). `CHECK_DEADLOCK FALSE` is used where the bounded inputs run out:
the authority's identifiers, the tasks, the publications, the clock or the events
of the last four.

Exceptions. Where the code does not keep a promise in some crossing, a history
variable records exactly that crossing and the property is required of everything
else: `astray` in `SafetyArbiter`, `overdue` in `Outbox`, and in the four last
runs `ended`, `astray`, `doubt`, `lost`, `unsure`, `spoiled`, `behind`, `atRisk`
and `deleted`. Such a property says where the promise stops; it does not catch
the crossing itself, which is listed under the observations below and in the notes
of the hazards.

Fairness. `Outbox`: each process's loop and the clock (a ticker of 500 ms; every
wait has a timeout). `NavigationRoute`: the bridge's thread alone, with
`move_base` ending its goals. Nothing is assumed of operators, delivery or the
platform: callbacks are unordered (`mqtt.go:50`), a message whose handling fails
is dead-lettered (`mqtt.go:342`), an overtaken acknowledgement is dropped and an
outbox message dies after 20 attempts or its time to live, so that a task of the
platform need not end. `TasksAreAnswered` is about the vehicle. `VehicleStatus`:
the sweep, the queue's loop, callbacks that have begun (their waits have
deadlines) and the clock; the vehicle, the administrators and faults are not fair.

### Observations

Cases in which the code does something a reader may not expect.

Disagreement with the documentation (`findings`):

* `Cancel` decides on the map, unlocks, and writes `cancel_requested` whatever the
  row holds (`nav.go:274`). An acknowledgement committed in between, or one whose
  commit got no answer and so never reached the map (`nav_ack.go:142`), has ended
  the task by then. `docs/architecture-functional-specification.md:246` says that
  the platform refuses to fall back from a terminal state;
  `navigation_overwritten` shows it happen. `TasksMoveForward` shows that it is the
  only way back.

Reproduced with TLC as violated properties of earlier, stronger statements, and now
named exceptions or limits of the properties:

* `UnixActuator.call` gives up at its deadline while the adapter's thread still
  holds the request (`ros1_node.py:238`), so a motion is published after the
  minimal-risk action that followed the timeout, which `arbiter.go:7` excludes.
  Minimal risk is asked for once: when the adapter refuses it the last motion stays
  on the ECU (`arbiter.go:162`). Both are `astray`.
* The highest token is only in memory (`arbiter.go:119`): after a restart a token
  that had been lost can be armed again. `LossIsFinal` is about one process.
* A batch that takes longer than its claim lasts is taken over while its process
  still works it off, and the older result may then overwrite the newer one
  (`outbox.go:214`: rows are marked by id alone). This is `overdue`.
* The bridge reports the end of a cancelled task with the action `DISPATCH`
  (`ros1_node.py:385`), for which `nav_ack.go` has no transition to `cancelled`;
  the task stays `cancel_requested`.
* A late or repeated `ACCEPTED` takes an active publication back to confirmed,
  because map acknowledgements are applied before the sequence check
  (`map_publication.go:431`). `OneActive` and `ActiveIsInstalled` do not forbid it.
* The queued write of a registration carries the group memory had when the
  message was handled and undoes a later change of group (`state.go:459`).

Reproduced by changing a constant of a run, or found while modelling:

* `MaxRecent = 1` and two deliveries in `NavigationRoute` break `DrivenOnce`: a task
  whose result was forgotten is driven again when it is delivered again
  (`ros1_node.py:427`).
* Overdue leases: the check of a request and the unique indexes of migration 0015
  disagree about them; the request is then refused by the index, so
  `ExclusiveControl` holds although the check alone would not ensure it.
* After a restart a vehicle that was online and stays silent keeps
  `lifecycle_state = 'online'`: the sweep only looks at vehicles that are online
  in memory. `SilentIsOffline` therefore speaks of the row only when there is no
  fault. `requireVehicleLiveForControlTx` also looks at `updated_at`, so control
  is refused all the same.
* The sequence cursor is kept per session: telemetry of an earlier start of the
  vehicle that is handled late replaces that of a later one. `NewestTelemetryWins`
  is about one session.
* `RegisterVehicle` changes the group in memory without the vehicle's lock; a
  telemetry callback that has copied the state puts the old group back.
* Capabilities are persisted before the sequence is claimed: an older declaration
  that is delivered late replaces a newer one (`mqtt.go:248`).

Sessions and accounts (the exceptions of `sessions` and `organisation`):

* A password change or a reset revokes the sessions in the map of this process;
  those it has not loaded since its start keep their rows (`auth.go:871`). A
  change of groups misses them too. A password login that awaits its captcha
  survives a reset.
* A session restored from its row is put in the map after the row was read
  (`auth.go:763`): a revocation in between is undone in memory. A revocation that
  fails in the table is only logged, and a lock is lost with the process.
* `GET /api/admin/users` by a group administrator sets the groups of the live
  accounts it lists to nil (`admin.go:253`).
* A change of groups that crosses the deletion of the account writes the row
  again; two that cross may exceed a quota; an unanswered creation of a group
  makes later ones fail until a restart, and its number may be used again.

Open API (the exceptions of `open_api`):

* `replay_window_s` may be set up to 3600 s while a nonce is remembered for 600 s
  (`config.go:212`, `openapi.go:987`); at the default the first and the last second
  of a timestamp still admit the same message twice. `ReplaysAreRefused` is about the
  time a nonce is remembered and not about the life of a timestamp.
* A call that names no key counts as a failure of its address alone
  (`openapi.go:947`). Such calls are left out: an address is locked by calls with a
  wrong signature in the same way, and with them the instance has 6.4 million states.
* An unanswered revocation leaves the key live in memory until a restart, and the
  repeated one is refused. A success clears an active lock. Nonces, locks and rate
  windows are lost with the process, and a start that cannot read
  `platform_config` runs with the defaults.
* The recent calls are collected at the front of the array they are read from, and
  a call that is refused does not store the shorter list (`openapi.go:1011`): what
  lies behind is counted again by the next call. The limit is then reached earlier
  than it should be, never later (`Compacted`, `NoWindowOverfull`).
* The cursor condition of the audit query has unbalanced parentheses, and a
  cancellation reads the vehicle of a task that was not found (`openapi.go:1423`).

Maps (the exceptions of `map_store`):

* An unanswered commit removes the files of a version that is in the table
  (`maps.go:368`), and later uploads conflict until a restart. The directory of a
  deleted map is removed without the mutex and may be that of a new upload.
* A second process with an older view of the map may overwrite or remove a
  directory that the first committed (`maps.go:244`).
* Approvals and rollbacks look for the publication among the 200 last changed.

## 4. Proofs

`SafetyArbiterProofs`. The inductive invariant is
`IInv == TypeOK /\ HighestToken /\ Timing /\ Order`. `HighestToken` says that only
the lease of the highest token seen is in force. `Timing` adds
to `ControlEndsOnTime` where the next tick is relative to the clock, without
which a tick that is due later than allowed could not be excluded; `Order`
relates the last motion to the lease's session and sequence number, without
which a new lease could be thought to replay an old motion. From it:

| Theorem | Statement |
| --- | --- |
| `TypeCorrect`, `EndsOnTime` | `Spec => []...` of the run's invariants |
| `InOrder` | `Spec => MotionInOrder` |
| `Refinement` | `Spec => ImplementsFencedControl`: initial states map to initial states, each action to an action of `FencedControl` or to a stutter |
| `LossFinal` | `Spec => []LossIsFinal`, because `lost` is never above the highest token seen and a grant must be above that |
| `SafeAfterLoss` | `Spec => []NoActuationAfterControlLoss`, restarts and every outcome of the actuator included |

They hold for every set of leases and sessions, every token and sequence bound,
every timing and set of outcomes allowed by `ArbiterConstants`.

`ControlAuthorityProofs`. `IInv` is `TypeOK` with: rows that were issued name a
vehicle and a driver; `OneActive`, that is the two unique indexes (stronger than
`ExclusiveControl`, because an overdue lease is still active and may be renewed);
`EndedLeasesAreFenced`; `MessagesMatchLeases`; every renewal recorded is at most
the lease's validity; and no validity beyond one lease from now, which is what
makes a renewal unable to shorten one. From it `TypeCorrect`, `Exclusive`,
`Fenced`, `Truthful`, `StandingLimits` and `MovesForward`.

`NavigationRouteProofs`. `IInv` is `TypeOK` with: a goroutine at work works on a
task; the bridge has a route exactly while its thread runs; a cancellation is
answered with `ACCEPTED` or `REJECTED` only (otherwise a `FAILED` could make a
task `cancel_rejected` that nobody rejected); and `OnlyTheVehicleConfirms`, which
is preserved because the cursor and the acknowledgements only grow. From it
`TypeCorrect`, `VehicleConfirms` and `MovesForward` (`TasksMoveForward`), which gives
every status a rank and shows that each write raises it, but for that of a
cancellation; no hypothesis is made about the number of goroutines, the order of
acknowledgements or the answers of the database. One result has a hypothesis:

* `DrivesOnce` (`DrivenOnce`) holds while the vehicle is given no more tasks than
  `_record_result` keeps (`AllAreRemembered`; 128 in the code). A route that was
  started is being driven or has its result recorded, results are recorded once
  per route, and an injection from the recorded routes and the one being driven
  into the tasks shows that nothing is evicted.

`DeliveryProofs`, of `Outbox`. `OutboxInv` is `OutboxTypeOK`, that a process which
saw a message accepted saw the truth, and `DeliveredWasAccepted`; hence
`OutboxTypes` and `DeliveredIsAccepted`. `OneSender` (`ClaimsAreExclusive`) has no
hypothesis on how long a batch takes: `CInv` says that an item in a hand which is
not `overdue` is claimed under the attempt it was taken with, that its claim has
not run out, and that it is in that hand only; nobody can therefore claim it, and
whatever makes its claim run out also makes it overdue.

The same module, of `VehicleStatus`. `IInv` adds to the types (`StatusTypes`):
`Exclusive`, one callback at a time is between its copy and its swap (the
vehicle's lock); the copy shows the message it was made for; the row is at the
sequence cursor of its session, memory at it or behind. Together they make memory
equal to the row (`MemoryIsCurrent`), keep a revoked vehicle in quarantine
(`Quarantined`), leave no older enrollment (`EnrollmentsDie`), and give the action
property `NewestWins`: telemetry never goes back within a session.

`MapProofs`, of `MapStore`. `IInv` says that a staged version is the next number,
so that its files cannot be those of a committed one; that a removal under way, or
a table ahead of memory, is recorded in `spoiled` or `behind`; that memory and
table agree on the versions; and that a reader's version exists or its read is at
risk. From it `StoreTypes`, `FilesStay`, `EntryIsRows`, `PreviewsGenuine` and
`SentAsAsked`, with the exceptions named in the properties.

The same module, of `MapPublication`. `PubInv == PublicationTypeOK /\ OneActive /\
InOrder`, where `InOrder` relates, as long as acknowledgements were handled in
order, the active row to the last activation handled and that to what the vehicle
installed. From it `PublicationTypes`, `ExclusivelyActive` and `ShowsInstalled`.

`AuthSessionsProofs`. Three parts, each closed under every step: `Lifetime` (the
copies of the workers, the map and the rows of a session all begin at the login
that made it, and a login that is not finished is alone with its token), `Finality`
(a token in `ended` is in no copy, and what is in neither map nor row cannot be
made again), `Groups` (one change of groups at a time carries the account's grant,
and a row that does not show it yet is among those the change will write). From them
`LifetimeBounded`, `RevokedForGood` and `GroupsReach`; `TypeCorrect` needs besides
what the counters, locks and challenges can hold.

`OrganisationProofs`. `IInv` adds to the types and to the properties: a request
under way names an account or a group; the role of an account does not change while
a pointer to it holds; every super in memory is one in the table; a group past the
check of members still has none outside `doubt`; a group in memory has its row; no
quota is above the highest there was; and `HeldIsBounded`. The last is what makes
the bound on the overshoot inductive: the members of a group and the accounts for
which requests have found room are counted together, against the highest quota and
one for each worker but one, because a request that is looking for room has not
found any yet. From it `OrganisationTypes`, `SuperIsLeft`, `AccountsAreRows`,
`NoGroupLostUnderMembers` and `QuotaOvershoot`.

`OpenApiGateProofs`. Four invariants over the types, one for each property:

* `NInv`: a nonce is remembered at least `NonceTtl` after its last use, hence
  `NoEarlyReplay`.
* `KInv`: the key in memory and its row are in force or revoked, and whatever state
  the key is in, a call under way has seen it, hence `ServedAsAnswered`.
* `LInv`: while a target is locked, its failures so far and the calls that may yet
  fail against it are together fewer than the workers, hence
  `FewGuessesAgainstALock`. A lock falls through one of the workers, and no call
  comes upon a lock.
* `RInv`: every call let in that is still in a window ending now or later is among
  the hits, the hits are no more than the highest limit there was, and a call that
  has read the clock compares with such a limit, hence `NoWindowOverfull`. `Later`,
  which filters a list of times, is defined by an enumeration of the positions it
  keeps; that there always is one is shown from a smallest set of positions without
  (`UpwardsExist`), and that it drops nothing beyond the cut by counting
  (`LaterFacts`).

`GateTypes` needs `RInv` for the length of the hits.

Each step lemma has one case per action and one step per conjunct that the action
can disturb; where many actions touch little, a general lemma says what a step
must respect and each action is shown to. Before it was proved every inductive
invariant was checked by TLC as an invariant of the run's instance.

Assumptions. The constants' assumptions (`...Constants`) say that bounds are
numbers, positive where the code's are, and that a "none" value is not an
identifier; TLC evaluates them in every run. `Organisation` and `OpenApiGate` count
requests and accounts, so that workers (at least one) and names are finite sets.
`AllAreRemembered` is a hypothesis of `DrivesOnce` alone, satisfied by the instance of
`navigation_answers` and necessary: section 3 says what happens without it. Every
other theorem is about the specification as it stands.

`TypeOK` of every module was checked by TLC and is stated by a theorem
(`TypeCorrect`, `...Types`), so that the runs are left to the properties.

Only model-checked: liveness under fairness (`TasksAreAnswered`, `MessagesSettle`,
`SilentIsOffline`), which is out of the prover's reach.

## 5. Not modelled

Cryptography, parsing, certificates and kinematic limits (data); point-cloud and
map conversion (floating-point arithmetic on files); HTTP wiring, device tables,
metrics and the event ring (no protocol of their own); the settings other than
those the gate reads; the queries and the export of the audit; the login by phone
(nothing issues its code); the web console (no authoritative state).

Four parts have a protocol of their own and are left out. The takeover desk is a
projection for the console: `refreshFromDB` queries without the lock and replaces
both maps with it (`takeover_reg.go:83`), so that a takeover put in between
disappears, but control is decided on the rows. The WebSocket hub registers a
client before its first snapshot is sent without the lock (`ws.go:181`): the hub
may close the queue in between. The workspace does not consume an approval with
the session it opens (`workspace.go:218`). The Gateway opens a new return route
for a copy of a command that comes after the acknowledgement (`gateway.py:586`),
which only its expiry removes.

## 6. Plan

1. `ControlPlane`: the composition of `ControlAuthority`, a lossy network with
   time to live, and `SafetyArbiter`: the bound on how long a revoked lease may
   still drive when its revocation is lost.
2. `Workspace`, the Gateway's return routes and the WebSocket hub.
