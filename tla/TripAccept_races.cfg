SPECIFICATION FairSpec
CONSTANTS
  d1 = d1
  d2 = d2
  a1 = a1
  a2 = a2
  r1 = r1
  p1 = p1
  Drivers = {d1, d2}
  NoDriver = NoDriver
  Messages = {a1, a2, p1}
  NoMessage = NoMessage
  KindOf <- MCKindOf
  DriverOf <- MCDriverOf
  DriverWorkers = {w1, w2}
  PaymentWorkers = {q1}
  MaxAttempts = 2
  MaxMishaps <- CallAndCrash
  StaleReads = TRUE
INVARIANTS
  TypeOK
  ChargedOnce
PROPERTIES
  RefinesLifecycle
  EverySettles
  AcceptLeadsToCharge
CHECK_DEADLOCK FALSE
