SPECIFICATION Spec
CONSTANTS
  Requests = {r1, r2}
  MaxPairs = 3
  MaxMishaps = 1
INVARIANTS TypeOK AlwaysOneRefresh SpentOnce LogoutEnds
SYMMETRY Alike
