SPECIFICATION Spec
CONSTANTS
  Devices = {d1, d2}
  Requests = {r1, r2, r3, r4}
  None = None
  Lifetime = 2
  LastSecond = 3
  Births <- LeapBirths
  Todays <- LeapTodays
INVARIANTS OneRowPerSignIn AdultsOnlyButOnLeapDays
PROPERTIES RefusedForAReason RevokedStaysRevoked
CHECK_DEADLOCK FALSE
SYMMETRY Symmetry
