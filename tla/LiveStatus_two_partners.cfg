\* Two accepts of one status around a re-join.
CONSTANTS
  ann = ann
  bob = bob
  cem = cem
  Statuses = {s1}
  Users = {ann, bob, cem}
  Poster <- AnnPosts
  Procs = {p1, p2}
  NoReq = NoReq
SPECIFICATION Spec
INVARIANT OnePartner
