----------------------------- MODULE AccountsMC -----------------------------
(* Small instances of Accounts.  The days are those around the one that only   *)
(* leap years have, the 60th.                                                  *)
EXTENDS Accounts, TLC

\* 29 February and 1 March 2004, 1 March 2006.
LeapBirths == {[year |-> 2004, yearDay |-> 60], [year |-> 2004, yearDay |-> 61],
               [year |-> 2006, yearDay |-> 60]}

\* 1 March 2022, 28 and 29 February 2024.
LeapTodays == {[year |-> 2022, yearDay |-> 60],
               [year |-> 2024, yearDay |-> 59], [year |-> 2024, yearDay |-> 60]}

Symmetry == Permutations(Requests) \cup Permutations(Devices)
=============================================================================
