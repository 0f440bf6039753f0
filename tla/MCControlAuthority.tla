------------------------- MODULE MCControlAuthority -------------------------
(* Instances of ControlAuthority for TLC.  Vehicles, drivers, lease and    *)
(* request identifiers are only compared for equality.                     *)
EXTENDS ControlAuthority, TLC

Symmetry ==
    Permutations(Vehicles) \cup Permutations(Drivers)
        \cup Permutations(LeaseIds) \cup Permutations(RequestIds)

=============================================================================
