SPECIFICATION FairSpec
CONSTANTS
  d = d
  s1 = s1
  s2 = s2
  m1 = m1
  m2 = m2
  Users = {d}
  Drivers = {d}
  Sockets = {s1, s2}
  NoSocket = NoSocket
  Messages = {m1, m2}
  Nobody = Nobody
  Malformed = {m2}
  UserOf <- MCUserOf
  OwnerOf <- MCOwnerOf
  QueueOf <- MCQueueOf
  Slots = 1
  Tries = 2
  MaxMishaps = 1
INVARIANTS TypeOK RightEntry LateUserIsReached
PROPERTIES QueueDrains
CHECK_DEADLOCK FALSE
