\* Two overlapping likes.
CONSTANTS
  Users = {ann, bob}
  Procs = {p1, p2}
  NoReq = NoReq
SPECIFICATION Spec
SYMMETRY Symmetry
INVARIANT MutualLikesMatch
