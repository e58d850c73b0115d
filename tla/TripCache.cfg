SPECIFICATION Spec
CONSTANTS
  g1 = g1
  g2 = g2
  g3 = g3
  r1 = r1
  r2 = r2
  Replicas = {r1, r2}
  Callers = {g1, g2, g3}
  NoCaller = NoCaller
  HomeOf <- MCHomeOf
  MaxCalls <- MCMaxCalls
  MaxFails = 2
SYMMETRY Alike
INVARIANTS
  TypeOK
  NothingFromTheFuture
  StaleOnlyAfterRace
PROPERTIES
  MissMeansAbsent
CHECK_DEADLOCK FALSE
