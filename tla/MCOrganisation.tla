--------------------------- MODULE MCOrganisation ---------------------------
(* A small instance of Organisation.                                       *)
EXTENDS Organisation, TLC

CONSTANTS w1, w2, n1, n2, n3, n4

One == [r \in Limited |-> 1]
Two == [r \in Limited |-> IF r = "user" THEN 2 ELSE 1]
Either == {One, Two}
Some == {[role |-> "group_admin", groups |-> GroupIds], [role |-> "user", groups |-> {}]}

(* Goroutines are interchangeable, and so are names without a meaning.     *)
Symmetry == Permutations(Workers) \cup Permutations(Names \ Bootstrap)

=============================================================================
