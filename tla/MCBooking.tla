----------------------------- MODULE MCBooking -----------------------------
(* Booking for TLC: two clicks of one rider, served by two gateways.       *)
EXTENDS Booking, TLC

CONSTANTS r1, r2, g1, g2

MCGatewayOf == [r \in Requests |-> IF r = r1 THEN g1 ELSE g2]

\* The two sides are alike, and so are the numbers and the packages.
Mirror == {r1 :> r2 @@ r2 :> r1 @@ g1 :> g2 @@ g2 :> g1}
Alike == Mirror \cup Permutations(Seqs) \cup Permutations(Packages)
=============================================================================
