SPECIFICATION Spec
CONSTANTS
  Workers = {w1, w2}
  Handlers = {h1}
  MaxAttempts = 4
  MaxSessions = 3
  Mishaps = {"call"}
  MaxMishaps = 1
INVARIANTS
  AnsweredMeansReported
CHECK_DEADLOCK FALSE
