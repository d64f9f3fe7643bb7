------------------------------ MODULE MCOutbox ------------------------------
(* Small instances of Outbox: two messages, two replicas, two rows per poll. *)
EXTENDS Outbox

TwoMessages == 1..2
NoSubscribers == {}
=============================================================================
