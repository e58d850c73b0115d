SPECIFICATION FairSpec
CONSTANTS
  c1 = c1
  i1 = i1
  i2 = i2
  Conns = {c1, c2}
  NoConn = NoConn
  Instances = {i1, i2}
  Homes <- MCHomes
  Mishaps = {"call", "instance", "gateway"}
  MaxMishaps = 3
INVARIANTS
  TypeOK
  NoStrayMover
  
PROPERTIES
  OnlineIsFound
  HandlersReturn
  
CHECK_DEADLOCK FALSE
