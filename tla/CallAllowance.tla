--------------------------- MODULE CallAllowance ---------------------------
(***************************************************************************)
(* What the call quota promises a user, with no transactions: a call that  *)
(* has no paid time to run on takes one of FreeCalls calls of the current  *)
(* window, a window stays open for a month at least, and every call is     *)
(* decided at once, by the state it finds.                                 *)
(***************************************************************************)
EXTENDS Integers

CONSTANTS
  Calls,       \* requests for a call
  FreeCalls,   \* free calls of a window
  MonthAfter,  \* the day one month after a day
  MaxDelay     \* days a request may last

VARIABLES
  day,      \* today
  paidTill, \* paid time runs until this day
  flag,     \* what the rest of the server takes for "has paid time"
  opened,   \* the day the window was opened, 0 for none
  used,     \* free calls taken in it
  call      \* how each call was decided

vars == <<day, paidTill, flag, opened, used, call>>

WindowOver(at) == opened = 0 \/ at > MonthAfter[opened]

Init ==
  /\ day \in Nat \ {0}
  /\ paidTill \in Nat
  /\ flag \in BOOLEAN
  /\ opened \in {0, day}
  /\ used = 0
  /\ call = [p \in Calls |-> "waiting"]

TimePasses ==
  /\ day' > day
  /\ UNCHANGED <<paidTill, flag, opened, used, call>>

Pay ==
  /\ paidTill' > paidTill
  /\ flag' = TRUE
  /\ UNCHANGED <<day, opened, used, call>>

\* A call is decided by the clock of some moment while its request is served.
Decide(p, at, as) ==
  /\ call[p] = "waiting"
  /\ at <= day /\ day <= at + MaxDelay
  /\ call' = [call EXCEPT ![p] = as]
  /\ UNCHANGED <<day, paidTill>>

OnPaidTime(p) == \E at \in 1..day :
  /\ paidTill > at
  /\ Decide(p, at, "paid")
  /\ UNCHANGED <<flag, opened, used>>

OnFreeCall(p) == \E at \in 1..day :
  /\ paidTill <= at
  /\ \/ WindowOver(at) /\ opened' = at /\ used' = 1
     \/ ~WindowOver(at) /\ used < FreeCalls /\ used' = used + 1 /\ UNCHANGED opened
  /\ flag' = FALSE
  /\ Decide(p, at, "free")

Refused(p) == \E at \in 1..day :
  /\ paidTill <= at
  /\ ~WindowOver(at)
  /\ used >= FreeCalls
  /\ Decide(p, at, "refused")
  /\ UNCHANGED <<flag, opened, used>>

Failed(p) ==
  /\ call[p] = "waiting"
  /\ call' = [call EXCEPT ![p] = "failed"]
  /\ UNCHANGED <<day, paidTill, flag, opened, used>>

Next ==
  \/ TimePasses \/ Pay
  \/ \E p \in Calls : OnPaidTime(p) \/ OnFreeCall(p) \/ Refused(p) \/ Failed(p)

Spec == Init /\ [][Next]_vars
=============================================================================
