------------------------------ MODULE Premium ------------------------------
(***************************************************************************)
(* The call quota (internal/middleware/quota.go) and the purchases         *)
(* (internal/service/billing/service.go) on the row of one user; the rows  *)
(* of two users are never touched together.                                *)
(*                                                                         *)
(* Both are transactions.  A quota check reads the row FOR UPDATE and      *)
(* writes back what it computed; a purchase is verified by the store       *)
(* first, then its INSERT takes the foreign key's FOR KEY SHARE of the row *)
(* and its UPDATE computes on the row as it is by then.  A commit shows    *)
(* everything at once, so the last statement and the commit are one step.  *)
(* Time is counted in days.                                                *)
(***************************************************************************)
EXTENDS Integers, FiniteSets

CONSTANTS
  Calls,         \* requests that pass the quota middleware
  Purchases,     \* requests to /billing/verify-receipt
  NoCall,        \* "nobody holds the row FOR UPDATE"
  FreeCalls,     \* callCount >= 5
  Days,          \* the days at which the clock is looked at
  MonthAfter,    \* AddDate(0, 1, 0): the length of the CURRENT month is added
  TrialDays,     \* AddDate(0, 0, 7)
  RegisterDays,  \* the first days
  MaxDelay       \* bound: days a request may last

ASSUME PremiumConstants ==
  /\ NoCall \notin Calls
  /\ Calls \cap Purchases = {}
  /\ FreeCalls \in Nat \ {0}
  /\ Days \subseteq Nat \ {0} /\ RegisterDays \subseteq Days
  /\ TrialDays \in Nat
  /\ MaxDelay \in Nat
  /\ MonthAfter \in [Days -> Nat]
  /\ \A d \in Days : MonthAfter[d] > d + MaxDelay

VARIABLES
  day,       \* the clock: time.Now() of the server, NOW() of the database
  isPremium, premiumExpiresAt, callCount, lastReset, \* the user's row; 0 is NULL
  locker,    \* the call that holds the row FOR UPDATE
  pc,        \* where each request stands
  row,       \* what a call has read of the row
  since      \* a call's `now`; when a purchase was verified (subscriptions);
             \* 0 where it plays no part

user == <<isPremium, premiumExpiresAt, callCount, lastReset>>
vars == <<day, user, locker, pc, row, since>>

Requests == Calls \cup Purchases
Counted == {"free", "lost"}
CallStates == {"waiting", "locked", "paid", "refused", "failed"} \cup Counted
PurchaseStates == {"waiting", "verified", "inserted", "active", "failed"}
Rows == [isPremium : BOOLEAN, premiumExpiresAt : Nat, callCount : Nat,
         lastReset : Days \cup {0}]

TypeOK ==
  /\ day \in Days
  /\ isPremium \in BOOLEAN
  /\ premiumExpiresAt \in Nat
  /\ callCount \in 0..FreeCalls
  /\ lastReset \in Days \cup {0}
  /\ locker \in Calls \cup {NoCall}
  /\ pc \in [Requests -> CallStates \cup PurchaseStates]
  /\ row \in [Calls -> Rows]
  /\ since \in [Requests -> Days \cup {0}]

Unread == [isPremium |-> FALSE, premiumExpiresAt |-> 0, callCount |-> 0,
           lastReset |-> 0]
Row == [isPremium |-> isPremium, premiumExpiresAt |-> premiumExpiresAt,
        callCount |-> callCount, lastReset |-> lastReset]

\* A user on the day Register made the row, or one from before the migration that
\* added the columns.
Init ==
  /\ day \in RegisterDays
  /\ \/ isPremium = TRUE /\ premiumExpiresAt = day + TrialDays /\ lastReset = day
     \/ isPremium = FALSE /\ premiumExpiresAt = 0 /\ lastReset = 0
  /\ callCount = 0
  /\ locker = NoCall
  /\ pc = [r \in Requests |-> "waiting"]
  /\ row = [p \in Calls |-> Unread]
  /\ since = [r \in Requests |-> 0]

----------------------------------------------------------------------------
(* The quota middleware.                                                   *)

\* Mutation: the SELECT takes no lock.
LockRow_NotForUpdate(p) ==
  /\ pc[p] = "waiting"
  /\ pc'  = [pc EXCEPT ![p] = "locked"]
  /\ row' = [row EXCEPT ![p] = Row]
  /\ since' = [since EXCEPT ![p] = day]
  /\ UNCHANGED <<day, user, locker>>

\* SELECT ... FOR UPDATE, now := time.Now().  It waits for another call, and for
\* the foreign key's share of a purchase under way.
LockRow(p) ==
  /\ pc[p] = "waiting"
  /\ locker = NoCall
  /\ \A b \in Purchases : pc[b] # "inserted"
  /\ locker' = p
  /\ pc'  = [pc EXCEPT ![p] = "locked"]
  /\ row' = [row EXCEPT ![p] = Row]
  /\ since' = [since EXCEPT ![p] = day]
  /\ UNCHANGED <<day, user>>

Finish(p, as) ==
  /\ pc[p] = "locked"
  /\ pc' = [pc EXCEPT ![p] = as]
  /\ locker' = NoCall
  /\ row' = [row EXCEPT ![p] = Unread]
  /\ since' = IF as \in Counted THEN since ELSE [since EXCEPT ![p] = 0]
  /\ UNCHANGED day

\* Mutation: the flag is believed.
StillPremium_ByFlag(p) == row[p].isPremium

StillPremium(p) == row[p].premiumExpiresAt > since[p]

\* lastReset == nil, or now.After(lastReset.AddDate(0, 1, 0))
ShouldReset(p) ==
  row[p].lastReset = 0 \/ since[p] > MonthAfter[row[p].lastReset]

Spent(p) == IF ShouldReset(p) THEN 0 ELSE row[p].callCount

\* Still premium: nothing is written, whatever the flag says.
PassPremium(p) ==
  /\ StillPremium(p)
  /\ Finish(p, "paid")
  /\ UNCHANGED user

\* 403: the reset and the cleared flag are rolled back with the rest.
Refuse(p) ==
  /\ ~StillPremium(p)
  /\ Spent(p) >= FreeCalls
  /\ Finish(p, "refused")
  /\ UNCHANGED user

\* UPDATE users with what was computed from the row as read, and the commit.  Its
\* acknowledgement may be lost: then the call is counted and gets a 500 all the same.
CountCall(p) ==
  /\ ~StillPremium(p)
  /\ Spent(p) < FreeCalls
  /\ \E as \in Counted : Finish(p, as)
  /\ isPremium' = FALSE
  /\ callCount' = Spent(p) + 1
  /\ lastReset' = IF ShouldReset(p) THEN since[p] ELSE row[p].lastReset
  /\ UNCHANGED premiumExpiresAt

\* A statement or the commit fails, or the client goes away: rollback.
QuotaError(p) == Finish(p, "failed") /\ UNCHANGED user

----------------------------------------------------------------------------
(* The purchase.                                                           *)

MoveOn(b, from, to) ==
  /\ pc[b] = from
  /\ pc' = [pc EXCEPT ![b] = to]
  /\ UNCHANGED <<day, locker, row>>

\* verifyApple, verifyGoogle: the store confirms; PurchasedAt is the answer's
\* time, ExpiresAt a month later.
Verify(b) ==
  /\ MoveOn(b, "waiting", "verified")
  /\ since' = [since EXCEPT ![b] = day]
  /\ UNCHANGED user

\* INSERT INTO subscriptions: its foreign key waits for FOR UPDATE.
InsertSubscription(b) ==
  /\ locker = NoCall
  /\ MoveOn(b, "verified", "inserted")
  /\ UNCHANGED <<user, since>>

\* Mutation: the paid month always starts at the purchase.
Extended_Overwrites(b, now) == MonthAfter[since[b]]

\* CASE WHEN premium_expires_at > NOW() THEN premium_expires_at + $1 ELSE $2 END
Extended(b, now) ==
  IF premiumExpiresAt > now
    THEN premiumExpiresAt + (MonthAfter[since[b]] - since[b])
    ELSE MonthAfter[since[b]]

\* UPDATE users and the commit.  NOW() is the start of the transaction, some day
\* between the verification and this.
Activate(b) ==
  /\ locker = NoCall
  /\ MoveOn(b, "inserted", "active")
  /\ \E now \in since[b]..day : premiumExpiresAt' = Extended(b, now)
  /\ isPremium' = TRUE
  /\ UNCHANGED <<since, callCount, lastReset>>

\* The store refuses, a statement fails, the client goes away: rollback.
PurchaseFails(b) ==
  /\ \E from \in {"waiting", "verified", "inserted"} : MoveOn(b, from, "failed")
  /\ since' = [since EXCEPT ![b] = 0]
  /\ UNCHANGED user

----------------------------------------------------------------------------

UnderWay(r) == pc[r] \in {"locked", "verified", "inserted"}

\* The clock moves; a request under way does not see more than MaxDelay days pass.
Tick ==
  /\ \E d \in Days :
       /\ d > day
       /\ \A r \in Requests : UnderWay(r) => d <= since[r] + MaxDelay
       /\ day' = d
  /\ UNCHANGED <<user, locker, pc, row, since>>

CallNext(p) ==
  LockRow(p) \/ PassPremium(p) \/ Refuse(p) \/ CountCall(p) \/ QuotaError(p)
PurchaseNext(b) ==
  Verify(b) \/ InsertSubscription(b) \/ Activate(b) \/ PurchaseFails(b)

Next ==
  \/ Tick
  \/ \E p \in Calls : CallNext(p)
  \/ \E b \in Purchases : PurchaseNext(b)

Spec == Init /\ [][Next]_vars

----------------------------------------------------------------------------
(* Properties.                                                             *)

\* Paid time is never without the flag that chat and the RTC tokens go by: a quota
\* check that saw the premium expired cannot clear the flag a purchase set since.
PaidTimeHasFlag == premiumExpiresAt > day => isPremium

\* quota.go:12, five calls a month: the calls counted in the window that is open
\* are the calls let through in it, and those whose commit was applied but not
\* acknowledged, however many checks overlap.
CountIsCallsMade ==
  LET inWindow == {p \in Calls : pc[p] \in Counted /\ since[p] >= lastReset}
  IN  lastReset # 0 => callCount = Cardinality(inWindow) /\ callCount <= FreeCalls

Active == {b \in Purchases : pc[b] = "active"}

\* The days of every activated month: as many as the months have together.
BoughtDays == UNION {{b} \X ((since[b] + 1)..MonthAfter[since[b]]) : b \in Active}

\* Every activated month is delivered: overlapping purchases of one user add up from
\* the first of the store's answers on, but for the days (MaxDelay at most) by which
\* premium had run out between an answer and the transaction of a later purchase.
MonthsAddUp ==
  Active # {} =>
    \E first \in Active :
      premiumExpiresAt >= since[first] + Cardinality(BoughtDays)
                            - MaxDelay * (Cardinality(Active) - 1)

\* No step of any request takes paid time away.
PaidTimeKept == [][premiumExpiresAt' >= premiumExpiresAt]_vars

\* What was decided of a call, whether or not its request has heard of it.
Decision(p) ==
  IF pc[p] = "locked" THEN "waiting" ELSE IF pc[p] = "lost" THEN "free" ELSE pc[p]

\* The transactions and their locks amount to decisions made one at a time.
Allowance == INSTANCE CallAllowance WITH
  paidTill <- premiumExpiresAt, flag <- isPremium, opened <- lastReset, used <- callCount,
  call <- [p \in Calls |-> Decision(p)]
DecidesOneAtATime == Allowance!Spec
=============================================================================
