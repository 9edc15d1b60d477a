---------------------------- MODULE LiveStatusMC ----------------------------
(* Small instances of LiveStatus: one status of ann, joined by bob and cem.  *)
EXTENDS LiveStatus

CONSTANTS ann, bob, cem

AnnPosts == [s \in Statuses |-> ann]
=============================================================================
