------------------------- MODULE MCDriverPresence -------------------------
(* DriverPresence for TLC: connections to one instance, or to two.         *)
EXTENDS DriverPresence

CONSTANTS c1, i1, i2

MCHomes == {h \in [Conns -> Instances] : h[c1] = i1}
=============================================================================
