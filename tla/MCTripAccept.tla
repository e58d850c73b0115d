--------------------------- MODULE MCTripAccept ---------------------------
(* TripAccept for TLC: the accepts of two drivers, a decline, a payment.   *)
EXTENDS TripAccept, TLC

CONSTANTS d1, d2, a1, a2, r1, p1

MCKindOf ==
  [m \in Messages |->
     CASE m \in {a1, a2} -> "accept"
       [] m = r1 -> "decline"
       [] m = p1 -> "payed"]

MCDriverOf == [m \in Messages |-> IF m \in {a2, r1} THEN d2 ELSE d1]

NoMishaps == [k \in Mishaps |-> 0]
OneCall == [NoMishaps EXCEPT !.call = 1]
CallAndCrash == [OneCall EXCEPT !.crash = 1]
Redeliveries ==
  [NoMishaps EXCEPT !.crash = 1, !.channel = 1, !.lockTtl = 1, !.claimTtl = 1]

\* The instances of the trip service are alike.
Alike == Permutations(DriverWorkers)
=============================================================================
