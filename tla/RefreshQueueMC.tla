--------------------------- MODULE RefreshQueueMC ---------------------------
(* Small instances of RefreshQueue: which access tokens may expire.           *)
EXTENDS RefreshQueue

AnyToken   == 1..MaxGen
LoginToken == {1}         \* a fresh token outlives the refresh that minted it
=============================================================================
