SPECIFICATION Spec
CONSTANTS
  r1 = r1
  r2 = r2
  g1 = g1
  g2 = g2
  Gateways = {g1, g2}
  Requests = {r1, r2}
  GatewayOf <- MCGatewayOf
  NoStamp = NoStamp
  Limit = 2
  Window = 3
  MaxDelay = 1
  Seqs = {s1, s2, s3}
  Packages = {sedan, van}
  MaxMishaps = 1
SYMMETRY Alike
INVARIANTS
  TypeOK
  WithinLimit
  OnlyAdmittedCount
  AnswerIsTrue
