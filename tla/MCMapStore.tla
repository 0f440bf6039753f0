----------------------------- MODULE MCMapStore -----------------------------
(* A small instance of MapStore.                                           *)
EXTENDS MapStore, TLC

CONSTANTS w1, w2

Symmetry == Permutations(Workers)

=============================================================================
