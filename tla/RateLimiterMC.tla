--------------------------- MODULE RateLimiterMC ---------------------------
(* Three requests of one address, whose burst is two, and one of another.    *)
EXTENDS RateLimiter, TLC

CONSTANTS r1, r2, r3, r4, a1, a2
MCAddressOf == r1 :> a1 @@ r2 :> a1 @@ r3 :> a1 @@ r4 :> a2
=============================================================================
