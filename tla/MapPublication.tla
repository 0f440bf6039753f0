--------------------------- MODULE MapPublication ---------------------------
(***************************************************************************)
(* Publishing a map version to a vehicle (server/fleet/map_publication.go):*)
(* a request, an approval by somebody else, the command in the outbox, the *)
(* Broker's acceptance, and the acknowledgements of the vehicle, which     *)
(* activate the publication or, for a rollback, the publication it goes    *)
(* back to.                                                                *)
(*                                                                         *)
(* One vehicle.  A request and a rollback read the table before they       *)
(* insert, without a transaction, so they take two steps; the others are   *)
(* transactions.  MapPublicationAck is handled before the inbound sequence *)
(* is looked at (server/fleet/mqtt.go), so an acknowledgement may be       *)
(* handled late or again.  The vehicle's Map Agent is not part of the      *)
(* repository: it is modelled from the messages the platform expects.      *)
(***************************************************************************)
EXTENDS Integers, Sequences

CONSTANTS
    Publications    \* identifiers of publications

NoPub == "none"

ASSUME PublicationConstants == NoPub \notin Publications

States ==
    {"absent", "drafted", "requested", "approved", "dispatched", "confirmed",
     "active", "superseded", "rolled_back", "rejected"}

Pubs ==
    [state : States, action : {"apply", "rollback"},
     previous : Publications \cup {NoPub}, target : Publications \cup {NoPub}]

Results == {"ACCEPTED", "APPLIED", "REJECTED", "FAILED"}

(* What a publication needs of the vehicle: it is monitored and not        *)
(* quarantined, and its Gateway declares the frame and format of the map.  *)
Needs == {"monitored", "compatible"}

VARIABLES
    standing,       \* which of Needs the vehicle meets
    pubs,           \* map_publications; "drafted" is read but not inserted
    agent,          \* what the Map Agent did with each command
    installed,      \* the publication whose map the vehicle runs
    acks,           \* the acknowledgements sent
    handled,        \* how many were handled, if they are in order
    inOrder         \* whether each is handled once and in order, for good

publicationVars == <<standing, pubs, agent, installed, acks, handled, inOrder>>

PublicationInit ==
    /\ standing = Needs
    /\ pubs = [p \in Publications |->
          [state |-> "absent", action |-> "apply", previous |-> NoPub, target |-> NoPub]]
    /\ agent = [p \in Publications |-> "none"]
    /\ installed = NoPub
    /\ acks = << >>
    /\ handled = 0
    /\ inOrder \in BOOLEAN

vehicle == <<standing, agent, installed, acks, handled, inOrder>>

Active == {p \in Publications : pubs[p].state = "active"}

(* Its command is in the outbox since the approval.                        *)
Enqueued(p) == pubs[p].state \notin {"absent", "drafted", "requested"}

-----------------------------------------------------------------------------
(* RequestMapPublication: the active publication is noted, if there is     *)
(* one, and the row inserted.  The routes only ask for "apply".            *)

RequestReads(p) ==
    /\ pubs[p].state = "absent"
    /\ \E q \in IF Active = {} THEN {NoPub} ELSE Active :
          pubs' = [pubs EXCEPT ![p] =
              [state |-> "drafted", action |-> "apply", previous |-> q,
               target |-> NoPub]]
    /\ UNCHANGED vehicle

(* RollbackMapPublication: back to the publication that was active when    *)
(* the active one was requested.                                           *)
RollbackReads(p, source) ==
    /\ pubs[p].state = "absent"
    /\ pubs[source].state = "active" /\ pubs[source].previous # NoPub
    /\ pubs' = [pubs EXCEPT ![p] =
          [state |-> "drafted", action |-> "rollback", previous |-> source,
           target |-> pubs[source].previous]]
    /\ UNCHANGED vehicle

Insert(p) ==
    /\ pubs[p].state = "drafted"
    /\ pubs' = [pubs EXCEPT ![p].state = "requested"]
    /\ UNCHANGED vehicle

(* The vehicle's row and its capabilities are read by the transaction.     *)
loadMapPublicationTarget == "monitored" \in standing
mapPublicationCompatibility == "compatible" \in standing

(* ApproveMapPublication, by another user and for a vehicle that is fit    *)
(* for the map; the command is enqueued by the same transaction.           *)
Approve(p) ==
    /\ pubs[p].state = "requested"
    /\ loadMapPublicationTarget /\ mapPublicationCompatibility
    /\ pubs' = [pubs EXCEPT ![p].state = "approved"]
    /\ UNCHANGED vehicle

(* markMapPublicationDispatched                                            *)
MarkDispatched(p) ==
    /\ pubs[p].state = "approved"
    /\ pubs' = [pubs EXCEPT ![p].state = "dispatched"]
    /\ UNCHANGED vehicle

-----------------------------------------------------------------------------
(* HandleMapPublicationAck                                                 *)

SetState(p, s) == [pubs[p] EXCEPT !.state = s]

(* Mutant: the publications that were active stay so.                      *)
AppliedKeepsOthers(p) == [pubs EXCEPT ![p].state = "active"]

(* A new publication is active in the place of every other.                *)
Applied(p) ==
    [q \in Publications |->
        CASE q = p -> SetState(q, "active")
          [] q # p /\ pubs[q].state = "active" -> SetState(q, "superseded")
          [] OTHER -> pubs[q]]

(* Mutant: the target is not activated.                                    *)
AppliedRollbackForgetsTarget(p) ==
    [q \in Publications |->
        CASE q = p -> SetState(q, "confirmed")
          [] q # p /\ pubs[q].state = "active" /\ q = pubs[p].previous ->
                SetState(q, "rolled_back")
          [] OTHER -> pubs[q]]

(* A rollback: the target is active, the publication it came from is       *)
(* rolled back, and the rollback itself is a record.                       *)
AppliedRollback(p) ==
    [q \in Publications |->
        CASE q = p ->
                SetState(q, "confirmed")
          [] q = pubs[p].previous /\ pubs[q].state = "active" ->
                SetState(q, "rolled_back")
          [] q = pubs[p].target
                /\ pubs[q].state \in {"superseded", "rolled_back", "confirmed"} ->
                SetState(q, "active")
          [] q \notin {p, pubs[p].previous, pubs[p].target}
                /\ pubs[q].state = "active" ->
                SetState(q, "superseded")
          [] OTHER -> pubs[q]]

HandleAck(i) ==
    LET p == acks[i].pub  result == acks[i].result
    IN  /\ inOrder => i = handled + 1
        /\ \/ /\ result = "ACCEPTED"
              /\ pubs' = [pubs EXCEPT ![p] = SetState(p, "confirmed")]
           \/ /\ result \in {"REJECTED", "FAILED"}
              /\ pubs' = [pubs EXCEPT ![p] = SetState(p, "rejected")]
           \/ /\ result = "APPLIED"
              /\ pubs[p].state \in {"approved", "dispatched", "confirmed", "active"}
              /\ pubs' = IF pubs[p].action = "rollback"
                         THEN AppliedRollback(p) ELSE Applied(p)
        /\ handled' = IF inOrder THEN i ELSE handled
        /\ UNCHANGED <<standing, agent, installed, acks, inOrder>>

-----------------------------------------------------------------------------
(* The Map Agent: it takes a command that was enqueued, or refuses it, and *)
(* then installs the map, or fails to.                                     *)

Answer(p, result) == acks' = Append(acks, [pub |-> p, result |-> result])

AgentAccepts(p) ==
    /\ Enqueued(p) /\ agent[p] = "none"
    /\ agent' = [agent EXCEPT ![p] = "accepted"]
    /\ Answer(p, "ACCEPTED")
    /\ UNCHANGED <<standing, pubs, installed, handled, inOrder>>

AgentInstalls(p) ==
    /\ agent[p] = "accepted"
    /\ agent' = [agent EXCEPT ![p] = "applied"]
    /\ installed' = IF pubs[p].action = "rollback" THEN pubs[p].target ELSE p
    /\ Answer(p, "APPLIED")
    /\ UNCHANGED <<standing, pubs, handled, inOrder>>

AgentRefuses(p) ==
    /\ Enqueued(p)
    /\ \/ agent[p] = "none" /\ Answer(p, "REJECTED")
       \/ agent[p] = "accepted" /\ Answer(p, "FAILED")
    /\ agent' = [agent EXCEPT ![p] = "failed"]
    /\ UNCHANGED <<standing, pubs, installed, handled, inOrder>>

(* The vehicle is quarantined, declares something else, comes back.        *)
StandingChanges(s) ==
    /\ s # standing
    /\ standing' = s
    /\ UNCHANGED <<pubs, agent, installed, acks, handled, inOrder>>

PublicationNext ==
    \/ \E s \in SUBSET Needs : StandingChanges(s)
    \/ \E p \in Publications :
          \/ RequestReads(p) \/ Insert(p) \/ Approve(p) \/ MarkDispatched(p)
          \/ \E source \in Publications : RollbackReads(p, source)
          \/ AgentAccepts(p) \/ AgentInstalls(p) \/ AgentRefuses(p)
    \/ \E i \in DOMAIN acks : HandleAck(i)

PublicationSpec == PublicationInit /\ [][PublicationNext]_publicationVars

-----------------------------------------------------------------------------
(* Properties                                                              *)

(* The table holds the states its CHECK allows; a rollback has a target.   *)
PublicationTypeOK ==
    /\ standing \subseteq Needs
    /\ pubs \in [Publications -> Pubs]
    /\ \A p \in Publications :
          pubs[p].action = "rollback" => pubs[p].previous # NoPub /\ pubs[p].target # NoPub
    /\ agent \in [Publications -> {"none", "accepted", "applied", "failed"}]
    /\ installed \in Publications \cup {NoPub}
    /\ acks \in Seq([pub : Publications, result : Results])
    /\ handled \in 0..Len(acks) /\ inOrder \in BOOLEAN

(* The vehicle has one active publication, in whatever order requests,     *)
(* rollbacks and acknowledgements, late or repeated, are handled.          *)
OneActive == \A p, q \in Active : p = q

(* Once every acknowledgement was handled, the platform shows the map the  *)
(* vehicle runs.                                                           *)
ActiveIsInstalled ==
    (inOrder /\ handled = Len(acks) /\ installed # NoPub) => Active = {installed}

=============================================================================
