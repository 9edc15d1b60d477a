\* Three requests, any access token may expire, every await is answered.
CONSTANTS
  Requests = {r1, r2, r3}
  MaxGen = 4
  ShortLived <- AnyToken
SPECIFICATION FairSpec
CHECK_DEADLOCK FALSE
INVARIANTS OneRefresher NoReplay ClearsForAReason
PROPERTIES RefreshEnds AnsweredUnlessLost
