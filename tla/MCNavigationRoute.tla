-------------------------- MODULE MCNavigationRoute --------------------------
(* Small instances of NavigationRoute.                                     *)
EXTENDS NavigationRoute, TLC

(* Goroutines are interchangeable.                                         *)
Symmetry == Permutations(Workers)

=============================================================================
