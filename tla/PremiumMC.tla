----------------------------- MODULE PremiumMC -----------------------------
(* A user who registered in late January, or long before: three calls on two  *)
(* free ones and two purchases around a month of 28 days.                     *)
EXTENDS Premium

\* 25 and 31 January, 1 February, 1 and 4 March of a common year, as days of the year:
\* a month after 31 January is 3 March, after 1 February 1 March.
MCDays == {25, 31, 32, 60, 63}
MCMonthAfter == [d \in MCDays |-> d + IF d = 32 THEN 28 ELSE 31]
MCRegisterDays == {25}
=============================================================================
