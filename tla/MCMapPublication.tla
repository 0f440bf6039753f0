-------------------------- MODULE MCMapPublication --------------------------
(* Small instances of MapPublication.                                      *)
EXTENDS MapPublication, TLC

Symmetry == Permutations(Publications)

=============================================================================
