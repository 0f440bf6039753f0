---------------------------- MODULE MCOpenApiGate ----------------------------
(* A small instance of OpenApiGate.                                        *)
EXTENDS OpenApiGate, TLC

CONSTANTS w1, w2, n1, n2, i1

(* A message is accepted from a window of 1 before its stamp to one after. *)
Stamps == [n \in Nonces |-> 1]

Standard == [enabled |-> TRUE, window |-> 1, limit |-> 1]

(* Twice the window and the limit, the API closed, and a refused setting.  *)
SomeSettings ==
    {Standard,
     [enabled |-> TRUE, window |-> 2, limit |-> 2],
     [enabled |-> FALSE, window |-> 1, limit |-> 1],
     [enabled |-> TRUE, window |-> 1, limit |-> 0]}

Wide == [calls |-> Calls, ips |-> Ips, expires |-> MaxTime + 1]
Narrow == [calls |-> {}, ips |-> {}, expires |-> MaxTime]
Either == {Wide, Narrow}

Symmetry == Permutations(Workers) \cup Permutations(Nonces)

=============================================================================
