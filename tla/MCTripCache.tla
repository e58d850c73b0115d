---------------------------- MODULE MCTripCache ----------------------------
(* TripCache for TLC: callers g1 and g2 on one replica, g3 on another.     *)
EXTENDS TripCache, TLC

CONSTANTS g1, g2, g3, r1, r2

MCHomeOf == [c \in Callers |-> IF c = g3 THEN r2 ELSE r1]
MCMaxCalls == [c \in Callers |-> IF c = g3 THEN 1 ELSE 2]

\* g1 and g2 are alike.
Alike == Permutations({g1, g2})
=============================================================================
