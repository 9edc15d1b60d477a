\* Two overlapping accepts or blocks, joins at any time.
CONSTANTS
  ann = ann
  bob = bob
  cem = cem
  Statuses = {s1}
  Users = {ann, bob, cem}
  Poster <- AnnPosts
  Procs = {p1, p2}
  NoReq = NoReq
SPECIFICATION FairSpec
INVARIANTS ActiveIsUndecided OnePartnerUnlessRejoined
PROPERTIES AcceptsPending DecidesAtOnce RequestsEnd
