--------------------------- MODULE FencedControl ---------------------------
(***************************************************************************)
(* What a vehicle promises about remote control, whatever the network and  *)
(* the cloud do: control is held under at most one term at a time, terms   *)
(* only grow, a term that was dropped is never held again, and the motions *)
(* executed under a term come from one session in increasing order.  A     *)
(* reboot forgets everything.                                              *)
(***************************************************************************)
EXTENDS Integers

VARIABLES
    term,       \* the highest term heard of since boot
    holder,     \* the term in control, 0 when nobody is
    motion      \* the last motion executed: its term, number and session

avars == <<term, holder, motion>>

AInit ==
    /\ term = 0
    /\ holder = 0
    /\ motion.fencing = 0 /\ motion.n = 0

Arm ==
    /\ term' > term
    /\ holder' = term'
    /\ UNCHANGED motion

(* Control is given up, possibly because a higher term was heard of.       *)
Drop ==
    /\ term' >= term
    /\ holder' = 0
    /\ UNCHANGED motion

(* One motion more; a motion the actuator refused also ends the term.      *)
Drive ==
    /\ holder # 0
    /\ motion'.fencing = holder
    /\ motion'.n = motion.n + 1
    /\ motion.fencing = holder =>
          motion'.seq > motion.seq /\ motion'.session = motion.session
    /\ holder' \in {holder, 0}
    /\ UNCHANGED term

Reboot ==
    /\ term' = 0
    /\ holder' = 0
    /\ motion'.fencing = 0 /\ motion'.n = 0

ANext == Arm \/ Drop \/ Drive \/ Reboot

ASpec == AInit /\ [][ANext]_avars

=============================================================================
