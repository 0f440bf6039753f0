--------------------------- MODULE MCAuthSessions ---------------------------
(* Model values for AuthSessions. *)
EXTENDS AuthSessions, TLC

CONSTANTS w1, w2, t1, p1, c1, g1, g2

Symmetry == Permutations(Workers) \cup Permutations(Grants)

=============================================================================
