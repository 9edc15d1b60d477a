\* Two requests; only the first access token expires.
CONSTANTS
  Requests = {r1, r2}
  MaxGen = 3
  ShortLived <- LoginToken
SPECIFICATION Spec
CHECK_DEADLOCK FALSE
INVARIANT WaitersAreServed
