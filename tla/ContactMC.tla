----------------------------- MODULE ContactMC -----------------------------
(* ann calls and accepts a call, bob writes and blocks.                    *)
EXTENDS Contact

CONSTANTS ann, bob, call, accept, date, block

MCKind  == [r \in Requests |-> CASE r = call -> "initiate" [] r = accept -> "accept"
                                 [] r = date -> "date" [] r = block -> "block"]
MCAsker == [r \in Requests |-> IF r \in {date, block} THEN bob ELSE ann]
=============================================================================
