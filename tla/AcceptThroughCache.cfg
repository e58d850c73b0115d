SPECIFICATION AcceptFairSpec
CONSTANTS
  a1 = a1
  a2 = a2
  g1 = g1
  r1 = r1
  r2 = r2
  Replicas = {r1, r2}
  Acceptors = {a1, a2}
  Callers = {a1, a2, g1}
  NoCaller = NoCaller
  HomeOf <- MCHomeOf
  MaxCalls <- MCMaxCalls
  MaxFails = 1
  MaxAttempts = 3
INVARIANTS
  CostOfStaleReads
PROPERTIES
  RefinesLifecycle
  SomebodyWins
CHECK_DEADLOCK FALSE
