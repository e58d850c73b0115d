---------------------------- MODULE MCDelivery ----------------------------
(* Delivery for TLC: a driver who may reconnect, one message to the driver *)
(* and one that cannot be decoded, in the queue of a single slot.          *)
EXTENDS Delivery

CONSTANTS d, s1, s2, m1, m2

MCUserOf == [s \in Sockets |-> d]
MCOwnerOf == [m \in Messages |-> d]
MCQueueOf == [m \in Messages |-> "notify"]
=============================================================================
