SPECIFICATION Spec
CONSTANTS
  d1 = d1
  d2 = d2
  a1 = a1
  a2 = a2
  r1 = r1
  p1 = p1
  Drivers = {d1, d2}
  NoDriver = NoDriver
  Messages = {a1, a2}
  NoMessage = NoMessage
  KindOf <- MCKindOf
  DriverOf <- MCDriverOf
  DriverWorkers = {w1, w2}
  PaymentWorkers = {}
  MaxAttempts = 4
  MaxMishaps <- OneCall
  StaleReads = FALSE
INVARIANTS
  AcceptedIsCharged
CHECK_DEADLOCK FALSE
