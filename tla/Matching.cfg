\* Two overlapping requests of two users, each served in the end.
CONSTANTS
  Users = {ann, bob}
  Procs = {p1, p2}
  NoReq = NoReq
SPECIFICATION FairSpec
INVARIANTS OneMatchPerPair MatchNeedsBothLikes
PROPERTIES BlockClearsMatchAlone RequestsEnd
