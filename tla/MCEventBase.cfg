SPECIFICATION Spec
CONSTANTS
  NULL = NULL
  b1 = b1
  Bases = {b1}
  Handles = {h1, h2}
  Events = {e1, e2, e3}
  BaseOf <- MCBaseOf
SYMMETRY EventSymmetry
INVARIANTS TypeOK InterestMatchesWaits WaitsAreTheirs 
