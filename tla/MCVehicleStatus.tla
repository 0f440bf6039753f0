-------------------------- MODULE MCVehicleStatus --------------------------
(* Model values for VehicleStatus. *)
EXTENDS VehicleStatus

CONSTANTS c1, c2, g1, g2

(* A declaration that allows everything, one without a TPM, one that is in *)
(* no matrix, and a malformed one.                                         *)
SomeDeclarations == {Facts, Facts \ {"tpm"}, Facts \ {"listed"}, Facts \ {"well formed"}}

=============================================================================
