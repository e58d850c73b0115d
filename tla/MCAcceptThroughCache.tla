----------------------- MODULE MCAcceptThroughCache -----------------------
(* AcceptThroughCache for TLC: two acceptors on different replicas, and a  *)
(* reader that shares the replica of the second.                           *)
EXTENDS AcceptThroughCache

CONSTANTS a1, a2, g1, r1, r2

MCHomeOf == [c \in Callers |-> IF c = a1 THEN r1 ELSE r2]

\* An acceptor needs three calls per run at most; the reader makes one.
MCMaxCalls == [c \in Callers |-> IF c \in Acceptors THEN 3 * MaxAttempts ELSE 1]
=============================================================================
