SPECIFICATION Spec
CONSTANTS
  Workers = {w1, w2}
  Handlers = {h1, h2}
  MaxAttempts = 4
  MaxSessions = 4
  Mishaps = {"call", "crash", "channel", "claimTtl", "eventTtl", "lost"}
  MaxMishaps = 3
INVARIANTS
  TypeOK
  OneOffer
  ReportedOnce
CHECK_DEADLOCK FALSE
