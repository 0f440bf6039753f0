------------------------------ MODULE MCOutbox ------------------------------
(* Small instances of Outbox.                                              *)
EXTENDS Outbox

=============================================================================
