-------------------------- MODULE MCSafetyArbiter --------------------------
(* Instances of SafetyArbiter for TLC.  Lease and session identifiers are  *)
(* only compared for equality, so permuting them is a symmetry.            *)
EXTENDS SafetyArbiter, TLC

Symmetry == Permutations(LeaseIds) \cup Permutations(Sessions)

=============================================================================
