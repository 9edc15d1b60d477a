------------------------------- MODULE HubMC -------------------------------
(* Small instances of Hub: one user who reconnects once.                    *)
EXTENDS Hub, TLC

CONSTANTS ann, c1, c2

Reconnect == (c1 :> ann) @@ (c2 :> ann)
=============================================================================
