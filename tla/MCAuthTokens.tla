--------------------------- MODULE MCAuthTokens ---------------------------
(* AuthTokens for TLC: the requests are alike.                             *)
EXTENDS AuthTokens, TLC

Alike == Permutations(Requests)
=============================================================================
