SPECIFICATION FairSpec
CONSTANTS
  Drivers = {d1, d2}
  Consumers = {w1, w2}
  Fanout = 2
  MaxAttempts = 2
  MaxDeclines = 1
  MaxMishaps = 2
INVARIANTS TypeOK InSomebodysHands NoneMeansNobody
PROPERTIES OrderLeadsOn
