--------------------------- MODULE Premium_proofs ---------------------------
(***************************************************************************)
(* The quota and the purchases of a user, for any number of requests, any  *)
(* calendar whose months are longer than a request, and any free allowance.*)
(***************************************************************************)
EXTENDS Premium, FiniteSetTheorems, TLAPS

\* The call that holds the row FOR UPDATE, and only it, goes by what it read, and
\* what it read is what the row holds.
LockIsExclusive ==
  /\ \A p \in Calls : pc[p] = "locked" => locker = p /\ row[p] = Row
  /\ \A p \in Calls : locker = p => pc[p] = "locked"

\* A request under way has read the clock, lately.
ReadLately ==
  \A r \in Requests : UnderWay(r) =>
    since[r] \in Days /\ since[r] <= day /\ day <= since[r] + MaxDelay

\* Calls and purchases go through states of their own.
OwnStates ==
  /\ \A p \in Calls : pc[p] \in CallStates
  /\ \A b \in Purchases : pc[b] \in PurchaseStates

PremiumInv == TypeOK /\ LockIsExclusive /\ ReadLately /\ OwnStates /\ PaidTimeHasFlag

LEMMA Calendar ==
  /\ \A d \in Days : d \in Nat /\ d > 0 /\ MonthAfter[d] \in Nat /\ MonthAfter[d] > d + MaxDelay
  /\ \A d \in RegisterDays : d \in Days
  /\ MaxDelay \in Nat /\ TrialDays \in Nat /\ FreeCalls \in Nat /\ FreeCalls > 0
  /\ \A b \in Purchases : b \notin Calls
  BY PremiumConstants DEF PremiumConstants

LEMMA InitPremium == Init => PremiumInv
<1> SUFFICES ASSUME Init PROVE PremiumInv
  OBVIOUS
<1> USE Calendar DEF Init
<1>1. /\ day \in Days /\ premiumExpiresAt \in Nat /\ isPremium \in BOOLEAN
      /\ callCount \in 0..FreeCalls /\ lastReset \in Days \cup {0}
  <2>1. day \in Days /\ day \in Nat /\ callCount \in 0..FreeCalls
    OBVIOUS
  <2>2. isPremium \in BOOLEAN
    OBVIOUS
  <2>3. premiumExpiresAt \in Nat /\ lastReset \in Days \cup {0}
    BY <2>1
  <2> QED BY <2>1, <2>2, <2>3
<1>2. /\ pc \in [Requests -> CallStates \cup PurchaseStates]
      /\ since \in [Requests -> Days \cup {0}]
  BY DEF CallStates, PurchaseStates
<1>3. row \in [Calls -> Rows]
  BY DEF Unread, Rows
<1>4. TypeOK
  BY <1>1, <1>2, <1>3 DEF TypeOK
<1>5. LockIsExclusive
  BY PremiumConstants DEF PremiumConstants, LockIsExclusive, Requests
<1>6. ReadLately /\ OwnStates /\ PaidTimeHasFlag
  BY DEF ReadLately, UnderWay, OwnStates, CallStates, PurchaseStates, Requests, PaidTimeHasFlag
<1> QED BY <1>4, <1>5, <1>6 DEF PremiumInv

\* What a call that holds the row knows.
LEMMA LockedCall ==
  ASSUME PremiumInv, NEW p \in Calls, pc[p] = "locked"
  PROVE  /\ locker = p
         /\ row[p].premiumExpiresAt = premiumExpiresAt /\ row[p].callCount = callCount
         /\ row[p].lastReset = lastReset
         /\ since[p] \in Days /\ since[p] <= day /\ day <= since[p] + MaxDelay
         /\ day \in Days /\ since[p] \in Nat /\ day \in Nat /\ premiumExpiresAt \in Nat
  BY Calendar
     DEF PremiumInv, LockIsExclusive, ReadLately, UnderWay, Requests, Row, TypeOK

LEMMA LockRowKeeps ==
  ASSUME PremiumInv, NEW p \in Calls, LockRow(p)
  PROVE  PremiumInv'
<1> USE DEF PremiumInv, LockRow, user
<1>1. p \in Requests /\ Row \in Rows /\ day \in Days /\ day \in Nat
  BY Calendar DEF Requests, Row, Rows, TypeOK
<1>2. TypeOK'
  <2>1. row' \in [Calls -> Rows]
    BY <1>1 DEF TypeOK
  <2>2. pc' \in [Requests -> CallStates \cup PurchaseStates]
    BY DEF TypeOK, CallStates
  <2>3. since' \in [Requests -> Days \cup {0}]
    BY <1>1 DEF TypeOK
  <2> QED BY <2>1, <2>2, <2>3 DEF TypeOK
<1>3. LockIsExclusive'
  <2>1. \A q \in Calls : pc[q] # "locked"
    BY PremiumConstants DEF PremiumConstants, LockIsExclusive
  <2> QED BY <1>1, <2>1 DEF TypeOK, LockIsExclusive, Row, Requests
<1>4. ReadLately'
  BY <1>1, Calendar DEF TypeOK, ReadLately, UnderWay
<1>5. OwnStates' /\ PaidTimeHasFlag'
  BY Calendar DEF TypeOK, OwnStates, CallStates, PaidTimeHasFlag, Requests
<1> QED BY <1>2, <1>3, <1>4, <1>5

\* The end of a quota check, but for what it writes to the row.
LEMMA FinishKeeps ==
  ASSUME PremiumInv, NEW p \in Calls,
         NEW as \in {"paid", "refused", "failed"} \cup Counted, Finish(p, as)
  PROVE  /\ LockIsExclusive' /\ ReadLately' /\ OwnStates'
         /\ day' = day /\ locker' = NoCall
         /\ pc' \in [Requests -> CallStates \cup PurchaseStates]
         /\ row' \in [Calls -> Rows]
         /\ since' \in [Requests -> Days \cup {0}]
<1> USE DEF PremiumInv, Finish
<1>1. p \in Requests /\ Unread \in Rows
  BY DEF Requests, Unread, Rows
<1>2. /\ pc' \in [Requests -> CallStates \cup PurchaseStates]
      /\ row' \in [Calls -> Rows]
      /\ since' \in [Requests -> Days \cup {0}]
  BY <1>1 DEF TypeOK, CallStates, Counted
<1>3. \A q \in Calls : pc'[q] # "locked"
  BY <1>1, LockedCall DEF TypeOK, LockIsExclusive, Requests, Counted
<1>4. LockIsExclusive'
  BY <1>3, PremiumConstants DEF PremiumConstants, LockIsExclusive
<1>5. ReadLately'
  BY <1>1 DEF TypeOK, ReadLately, UnderWay, Counted
<1>6. OwnStates'
  BY <1>1, Calendar DEF TypeOK, OwnStates, CallStates, Counted, Requests
<1> QED BY <1>2, <1>4, <1>5, <1>6

LEMMA CallKeeps ==
  ASSUME PremiumInv, NEW p \in Calls, CallNext(p)
  PROVE  PremiumInv'
<1>1. CASE LockRow(p)
  BY <1>1, LockRowKeeps
<1>2. CASE PassPremium(p) \/ Refuse(p) \/ QuotaError(p)
  <2>1. PICK as \in {"paid", "refused", "failed"} : Finish(p, as) /\ UNCHANGED user
    BY <1>2 DEF PassPremium, Refuse, QuotaError
  <2>2. /\ LockIsExclusive' /\ ReadLately' /\ OwnStates' /\ day' = day /\ locker' = NoCall
        /\ pc' \in [Requests -> CallStates \cup PurchaseStates]
        /\ row' \in [Calls -> Rows]
        /\ since' \in [Requests -> Days \cup {0}]
    BY <2>1, FinishKeeps
  <2>3. TypeOK' /\ PaidTimeHasFlag'
    BY <2>1, <2>2 DEF PremiumInv, TypeOK, PaidTimeHasFlag, user
  <2> QED BY <2>2, <2>3 DEF PremiumInv
<1>3. CASE CountCall(p)
  <2>1. PICK as \in Counted : Finish(p, as)
    BY <1>3 DEF CountCall
  <2>2. /\ LockIsExclusive' /\ ReadLately' /\ OwnStates' /\ day' = day /\ locker' = NoCall
        /\ pc' \in [Requests -> CallStates \cup PurchaseStates]
        /\ row' \in [Calls -> Rows]
        /\ since' \in [Requests -> Days \cup {0}]
    BY <2>1, FinishKeeps
  <2>3. pc[p] = "locked"
    BY <2>1 DEF Finish
  <2>4. callCount' \in 0..FreeCalls
    BY <1>3, <2>3, LockedCall, Calendar DEF CountCall, Spent, PremiumInv, TypeOK
  <2>5. lastReset' \in Days \cup {0}
    BY <1>3, <2>3, LockedCall DEF CountCall, PremiumInv, TypeOK
  <2>6. TypeOK'
    BY <1>3, <2>2, <2>4, <2>5 DEF CountCall, PremiumInv, TypeOK
  <2>7. PaidTimeHasFlag'
    BY <1>3, <2>2, <2>3, LockedCall DEF CountCall, StillPremium, PaidTimeHasFlag
  <2> QED BY <2>2, <2>6, <2>7 DEF PremiumInv
<1> QED BY <1>1, <1>2, <1>3 DEF CallNext

\* A purchase of a month adds to the paid time: the month is longer than the
\* request took, so even one computed on a premium that has just ended does.
LEMMA ExtendedIsLater ==
  ASSUME PremiumInv, NEW b \in Purchases, pc[b] = "inserted", NEW now \in since[b]..day
  PROVE  Extended(b, now) \in Nat /\ Extended(b, now) > premiumExpiresAt
<1>1. /\ since[b] \in Days /\ since[b] <= day /\ day <= since[b] + MaxDelay
      /\ day \in Days /\ premiumExpiresAt \in Nat
  BY DEF PremiumInv, ReadLately, UnderWay, Requests, TypeOK
<1>2. /\ since[b] \in Nat /\ day \in Nat /\ MaxDelay \in Nat /\ MonthAfter[since[b]] \in Nat
      /\ MonthAfter[since[b]] > since[b] + MaxDelay
  BY <1>1, Calendar
<1>3. now \in Int /\ now <= day
  BY <1>2
<1>4. CASE premiumExpiresAt > now
  BY <1>1, <1>2, <1>4 DEF Extended
<1>5. CASE ~(premiumExpiresAt > now)
  BY <1>1, <1>2, <1>3, <1>5 DEF Extended
<1> QED BY <1>4, <1>5

LEMMA PurchaseKeeps ==
  ASSUME PremiumInv, NEW b \in Purchases, PurchaseNext(b)
  PROVE  PremiumInv'
<1> USE DEF PremiumInv, PurchaseNext, Verify, InsertSubscription, Activate, PurchaseFails, MoveOn
<1>1. b \in Requests /\ b \notin Calls /\ day \in Days /\ day \in Nat
  BY Calendar DEF Requests, TypeOK
<1>2. /\ UNCHANGED <<day, locker, row>>
      /\ pc' \in [Requests -> CallStates \cup PurchaseStates]
      /\ since' \in [Requests -> Days \cup {0}]
      /\ callCount' = callCount /\ lastReset' = lastReset
  BY <1>1 DEF TypeOK, PurchaseStates, user
<1>3. \A r \in Requests \ {b} : pc'[r] = pc[r] /\ since'[r] = since[r]
  BY <1>1 DEF TypeOK
<1>4. CASE UNCHANGED user
  <2>1. TypeOK' /\ PaidTimeHasFlag'
    BY <1>2, <1>4 DEF TypeOK, PaidTimeHasFlag, user
  <2>2. LockIsExclusive'
    BY <1>1, <1>2, <1>3, <1>4 DEF LockIsExclusive, Row, user, Requests
  <2>3. ReadLately'
    <3>1. UnderWay(b)' => since'[b] \in Days /\ since'[b] <= day /\ day <= since'[b] + MaxDelay
      BY <1>1, Calendar DEF TypeOK, ReadLately, UnderWay
    <3> QED BY <1>2, <1>3, <3>1 DEF ReadLately, UnderWay
  <2>4. OwnStates'
    BY <1>1, <1>3 DEF TypeOK, OwnStates, PurchaseStates, Requests
  <2> QED BY <2>1, <2>2, <2>3, <2>4
<1>5. CASE Activate(b)
  <2>1. /\ premiumExpiresAt' \in Nat /\ isPremium' = TRUE
    BY <1>5, ExtendedIsLater
  <2>2. TypeOK' /\ PaidTimeHasFlag'
    BY <1>2, <2>1 DEF TypeOK, PaidTimeHasFlag
  <2>3. \A p \in Calls : pc[p] # "locked"
    BY <1>5, PremiumConstants DEF PremiumConstants, LockIsExclusive
  <2>4. LockIsExclusive'
    BY <1>1, <1>2, <1>3, <2>3 DEF LockIsExclusive, Requests
  <2>5. ReadLately'
    <3>1. ~UnderWay(b)'
      BY <1>1, <1>5 DEF UnderWay, TypeOK
    <3> QED BY <1>2, <1>3, <3>1 DEF ReadLately, UnderWay
  <2>6. OwnStates'
    BY <1>1, <1>3, <1>5 DEF TypeOK, OwnStates, PurchaseStates, Requests
  <2> QED BY <2>2, <2>4, <2>5, <2>6
<1> QED BY <1>4, <1>5

LEMMA TickKeeps ==
  ASSUME PremiumInv, Tick
  PROVE  PremiumInv'
<1> USE DEF PremiumInv, Tick, user
<1>1. TypeOK' /\ LockIsExclusive' /\ OwnStates'
  BY DEF TypeOK, LockIsExclusive, OwnStates, Row
<1>2. ReadLately'
  BY Calendar DEF TypeOK, ReadLately, UnderWay
<1>3. PaidTimeHasFlag'
  BY Calendar DEF TypeOK, PaidTimeHasFlag
<1> QED BY <1>1, <1>2, <1>3

LEMMA StepKeeps == PremiumInv /\ [Next]_vars => PremiumInv'
<1> SUFFICES ASSUME PremiumInv, [Next]_vars PROVE PremiumInv'
  OBVIOUS
<1>1. CASE UNCHANGED vars
  BY <1>1 DEF vars, user, PremiumInv, TypeOK, LockIsExclusive, Row, ReadLately, UnderWay,
              OwnStates, PaidTimeHasFlag
<1> QED BY <1>1, CallKeeps, PurchaseKeeps, TickKeeps DEF Next

LEMMA PremiumStays == Spec => []PremiumInv
  BY InitPremium, StepKeeps, PTL DEF Spec

\* The row and the requests are what the schema and the code declare.
THEOREM PremiumTypes == Spec => []TypeOK
  BY PremiumStays, PTL DEF PremiumInv

\* No quota check clears the flag of a user who has paid time.
THEOREM PaidTimeIsFlagged == Spec => []PaidTimeHasFlag
  BY PremiumStays, PTL DEF PremiumInv

\* No step of any request takes paid time away.
THEOREM PaidTimeIsKept == Spec => PaidTimeKept
<1>1. PremiumInv /\ [Next]_vars => premiumExpiresAt' >= premiumExpiresAt
  <2> SUFFICES ASSUME PremiumInv, [Next]_vars PROVE premiumExpiresAt' >= premiumExpiresAt
    OBVIOUS
  <2>1. ASSUME NEW b \in Purchases, Activate(b) PROVE premiumExpiresAt' >= premiumExpiresAt
    BY <2>1, ExtendedIsLater DEF Activate, MoveOn, PremiumInv, TypeOK
  <2>2. CASE UNCHANGED premiumExpiresAt
    BY <2>2 DEF PremiumInv, TypeOK
  <2> QED BY <2>1, <2>2
          DEF Next, CallNext, PurchaseNext, Tick, LockRow, PassPremium, Refuse, CountCall,
              QuotaError, Verify, InsertSubscription, PurchaseFails, user, vars
<1> QED BY <1>1, PremiumStays, PTL DEF Spec, PaidTimeKept

----------------------------------------------------------------------------
(* The count is the number of calls.                                       *)

Free == {p \in Calls : pc[p] \in Counted}
InWindow == {p \in Free : since[p] >= lastReset}

\* A window opens on a day that has been, before whoever holds the row read the
\* clock; and it has not ended for any call counted so far, so that a reset, which
\* comes after its end, leaves all of them outside the new one.
WindowInv ==
  /\ lastReset <= day
  /\ \A p \in Calls : pc[p] = "locked" => lastReset <= since[p]
  /\ \A p \in Free : lastReset # 0 /\ since[p] \in Days /\ since[p] <= MonthAfter[lastReset]
  /\ IsFiniteSet(InWindow)
  /\ lastReset # 0 => callCount = Cardinality(InWindow)

LEMMA InitWindow == Init => WindowInv
<1> SUFFICES ASSUME Init PROVE WindowInv
  OBVIOUS
<1>1. day \in Nat
  BY Calendar DEF Init
<1>2. Free = {} /\ InWindow = {}
  BY DEF Init, Free, InWindow, Requests, Counted
<1>3. \A p \in Calls : pc[p] # "locked"
  BY DEF Init, Requests
<1> QED BY <1>1, <1>2, <1>3, FS_EmptySet DEF Init, WindowInv

\* A step that counts no call.
LEMMA SameWindow ==
  ASSUME WindowInv, PremiumInv, UNCHANGED <<callCount, lastReset>>, day' >= day, day' \in Days,
         Free' = Free, \A p \in Free : since'[p] = since[p],
         \A p \in Calls : pc'[p] = "locked" =>
           since'[p] = day \/ (pc[p] = "locked" /\ since'[p] = since[p])
  PROVE  WindowInv'
<1>1. InWindow' = InWindow
  BY DEF InWindow
<1>2. day \in Nat /\ day' \in Nat /\ lastReset \in Nat
  BY Calendar DEF PremiumInv, TypeOK
<1>3. \A p \in Calls : pc[p] = "locked" => since[p] \in Nat
  BY LockedCall
<1> QED BY <1>1, <1>2, <1>3 DEF WindowInv

LEMMA CountCallWindow ==
  ASSUME WindowInv, PremiumInv, NEW p \in Calls, CountCall(p)
  PROVE  WindowInv'
<1>0. PICK as \in Counted : Finish(p, as)
  BY DEF CountCall
<1>1. /\ pc[p] = "locked" /\ pc' = [pc EXCEPT ![p] = as]
      /\ since' = since /\ day' = day
      /\ callCount' = Spent(p) + 1
      /\ lastReset' = IF ShouldReset(p) THEN since[p] ELSE row[p].lastReset
  BY <1>0 DEF CountCall, Finish
<1>2. /\ row[p].callCount = callCount /\ row[p].lastReset = lastReset
      /\ since[p] \in Days /\ since[p] \in Nat /\ since[p] <= day /\ day \in Nat
      /\ lastReset <= since[p]
  BY <1>1, LockedCall DEF WindowInv
<1>3. /\ lastReset \in Days \cup {0} /\ lastReset \in Nat
      /\ MonthAfter[since[p]] \in Nat /\ MonthAfter[since[p]] > since[p] + MaxDelay
      /\ since[p] > 0 /\ MaxDelay \in Nat
  BY <1>2, Calendar DEF PremiumInv, TypeOK
<1>4. \A q \in Calls : pc'[q] = IF q = p THEN as ELSE pc[q]
  BY <1>1 DEF PremiumInv, TypeOK, Requests
<1>5. Free' = Free \cup {p} /\ p \notin Free
  BY <1>0, <1>1, <1>4 DEF Free, Counted
<1>6. \A q \in Calls : pc'[q] # "locked"
  BY <1>0, <1>1, <1>4, LockedCall DEF PremiumInv, LockIsExclusive, Counted
<1>7. \A q \in Free : /\ lastReset # 0 /\ since[q] \in Days /\ since[q] \in Nat
                      /\ since[q] <= MonthAfter[lastReset] /\ MonthAfter[lastReset] \in Nat
  BY <1>3, Calendar DEF WindowInv
<1>8. CASE ShouldReset(p)
  <2>1. lastReset' = since[p] /\ callCount' = 1
    BY <1>1, <1>8 DEF Spent
  <2>2. \A q \in Free : since[q] < since[p]
    BY <1>2, <1>7, <1>8 DEF ShouldReset
  <2>3. InWindow' = {p}
    BY <1>1, <1>2, <1>5, <1>7, <2>1, <2>2 DEF InWindow
  <2>4. IsFiniteSet({p}) /\ Cardinality({p}) = 1
    BY FS_Singleton
  <2>5. \A q \in Free' : since'[q] \in Days /\ since'[q] <= MonthAfter'[lastReset']
    BY <1>1, <1>2, <1>3, <1>5, <1>7, <2>1, <2>2
  <2>6. /\ lastReset' <= day'
        /\ \A q \in Calls : pc'[q] = "locked" => lastReset' <= since'[q]
    BY <1>1, <1>2, <1>6, <2>1
  <2>7. \A q \in Free' : lastReset' # 0
    BY <1>3, <2>1
  <2> QED BY <2>1, <2>3, <2>4, <2>5, <2>6, <2>7 DEF WindowInv
<1>9. CASE ~ShouldReset(p)
  <2>1. /\ lastReset' = lastReset /\ callCount' = callCount + 1 /\ lastReset # 0
        /\ since[p] <= MonthAfter[lastReset]
    BY <1>1, <1>2, <1>3, <1>9, Calendar DEF Spent, ShouldReset
  <2>2. InWindow' = InWindow \cup {p} /\ p \notin InWindow
    BY <1>1, <1>2, <1>3, <1>5, <2>1 DEF InWindow
  <2>3. IsFiniteSet(InWindow') /\ Cardinality(InWindow') = Cardinality(InWindow) + 1
    BY <2>2, FS_AddElement DEF WindowInv
  <2>4. \A q \in Free' : since'[q] \in Days /\ since'[q] <= MonthAfter'[lastReset']
    BY <1>1, <1>2, <1>5, <1>7, <2>1
  <2> QED BY <1>1, <1>2, <1>6, <2>1, <2>3, <2>4 DEF WindowInv
<1> QED BY <1>8, <1>9

LEMMA StepWindow == WindowInv /\ PremiumInv /\ [Next]_vars => WindowInv'
<1> SUFFICES ASSUME WindowInv, PremiumInv, [Next]_vars PROVE WindowInv'
  OBVIOUS
<1>0. day \in Days /\ day \in Nat /\ pc \in [Requests -> CallStates \cup PurchaseStates]
      /\ since \in [Requests -> Days \cup {0}] /\ \A r \in Calls \cup Purchases : r \in Requests
  BY Calendar DEF PremiumInv, TypeOK, Requests
<1>1. ASSUME NEW p \in Calls, CountCall(p) PROVE WindowInv'
  BY <1>1, CountCallWindow
<1>2. ASSUME NEW p \in Calls, LockRow(p) PROVE WindowInv'
  BY <1>0, <1>2, SameWindow DEF LockRow, user, Free, Counted
<1>3. ASSUME NEW p \in Calls, PassPremium(p) \/ Refuse(p) \/ QuotaError(p) PROVE WindowInv'
  <2>1. PICK as \in {"paid", "refused", "failed"} : Finish(p, as) /\ UNCHANGED user
    BY <1>3 DEF PassPremium, Refuse, QuotaError
  <2>2. /\ pc[p] = "locked" /\ \A q \in Calls : pc'[q] = IF q = p THEN as ELSE pc[q]
        /\ \A q \in Calls \ {p} : since'[q] = since[q]
    BY <1>0, <2>1 DEF Finish
  <2>3. Free' = Free /\ p \notin Free /\ \A q \in Free : since'[q] = since[q]
    BY <2>2 DEF Free, Counted
  <2>4. \A q \in Calls : pc'[q] = "locked" => pc[q] = "locked" /\ since'[q] = since[q]
    BY <2>2
  <2>5. day' = day /\ UNCHANGED <<callCount, lastReset>>
    BY <2>1 DEF Finish, user
  <2> QED BY <1>0, <2>3, <2>4, <2>5, SameWindow
<1>4. ASSUME NEW b \in Purchases, PurchaseNext(b) PROVE WindowInv'
  <2>1. b \notin Calls
    BY Calendar
  <2>2. \A p \in Calls : pc'[p] = pc[p] /\ since'[p] = since[p]
    BY <1>0, <1>4, <2>1 DEF PurchaseNext, Verify, InsertSubscription, Activate, PurchaseFails, MoveOn
  <2>3. UNCHANGED <<day, callCount, lastReset>>
    BY <1>4 DEF PurchaseNext, Verify, InsertSubscription, Activate, PurchaseFails, MoveOn, user
  <2> QED BY <1>0, <2>2, <2>3, SameWindow DEF Free
<1>5. CASE Tick
  <2>1. day' \in Days /\ day' \in Nat /\ day' > day /\ UNCHANGED <<user, locker, pc, row, since>>
    BY <1>5, Calendar DEF Tick
  <2> QED BY <1>0, <2>1, SameWindow DEF user, Free
<1>6. CASE UNCHANGED vars
  BY <1>0, <1>6, SameWindow DEF vars, user, Free
<1> QED BY <1>1, <1>2, <1>3, <1>4, <1>5, <1>6 DEF Next, CallNext

\* In the window that is open, as many calls are counted as were let through.
THEOREM CallsAreCounted == Spec => []CountIsCallsMade
<1>1. Spec => []WindowInv
  BY InitWindow, StepWindow, PremiumStays, PTL DEF Spec
<1>2. WindowInv /\ PremiumInv => CountIsCallsMade
  <2> SUFFICES ASSUME WindowInv, PremiumInv, lastReset # 0
               PROVE  callCount = Cardinality(InWindow) /\ callCount <= FreeCalls
    BY DEF CountIsCallsMade, InWindow, Free
  <2> QED BY Calendar DEF WindowInv, PremiumInv, TypeOK
<1> QED BY <1>1, <1>2, PremiumStays, PTL

----------------------------------------------------------------------------
(* The months add up.                                                      *)

MonthsInv ==
  /\ IsFiniteSet(Active) /\ IsFiniteSet(BoughtDays)
  /\ \A b \in Active : since[b] \in Days
  /\ MonthsAddUp

\* A premium that has run out when a purchase is computed had done so for less than
\* the purchase has lasted.
LEMMA ActivateMonths ==
  ASSUME MonthsInv, PremiumInv, NEW b \in Purchases, Activate(b)
  PROVE  MonthsInv'
<1> DEFINE month == MonthAfter[since[b]] - since[b]
           n     == Cardinality(Active)
           sum   == Cardinality(BoughtDays)
<1>1. /\ pc[b] = "inserted" /\ pc' = [pc EXCEPT ![b] = "active"] /\ UNCHANGED since
      /\ pc \in [Requests -> CallStates \cup PurchaseStates] /\ b \in Requests
      /\ Purchases \subseteq Requests
  BY DEF Activate, MoveOn, PremiumInv, TypeOK, Requests
<1>2. PICK now \in since[b]..day : premiumExpiresAt' = Extended(b, now)
  BY DEF Activate
<1>3. /\ since[b] \in Days /\ since[b] \in Nat /\ day \in Nat /\ MaxDelay \in Nat
      /\ day <= since[b] + MaxDelay
      /\ MonthAfter[since[b]] \in Nat /\ MonthAfter[since[b]] > since[b] + MaxDelay
      /\ premiumExpiresAt \in Nat
  BY <1>1, Calendar DEF PremiumInv, ReadLately, UnderWay, TypeOK
<1>4. month \in Nat /\ now \in Nat /\ since[b] <= now /\ now <= day
  BY <1>2, <1>3
<1>5. Active' = Active \cup {b} /\ b \notin Active
  BY <1>1 DEF Active
<1>6. IsFiniteSet(Active') /\ Cardinality(Active') = n + 1 /\ n \in Nat
  BY <1>5, FS_AddElement, FS_CardinalityType DEF MonthsInv
<1>7. IsFiniteSet(BoughtDays') /\ Cardinality(BoughtDays') = sum + month /\ sum \in Nat
  <2> DEFINE days == (since[b] + 1)..MonthAfter[since[b]]
  <2>1. IsFiniteSet(days) /\ Cardinality(days) = month
    <3>1. since[b] + 1 \in Int /\ MonthAfter[since[b]] \in Int
      BY <1>3
    <3>2. /\ IsFiniteSet(days)
          /\ Cardinality(days) = IF since[b] + 1 > MonthAfter[since[b]] THEN 0
                                 ELSE MonthAfter[since[b]] - (since[b] + 1) + 1
      BY <3>1, FS_Interval
    <3> QED BY <1>3, <3>2
  <2>2. IsFiniteSet({b}) /\ Cardinality({b}) = 1
    BY FS_Singleton
  <2>3. IsFiniteSet({b} \X days) /\ Cardinality({b} \X days) = Cardinality({b}) * Cardinality(days)
    BY <2>1, <2>2, FS_Product
  <2>4. Cardinality({b} \X days) = month
    BY <1>4, <2>1, <2>2, <2>3
  <2>5. BoughtDays' = BoughtDays \cup ({b} \X days)
    BY <1>1, <1>5 DEF BoughtDays
  <2>6. BoughtDays \cap ({b} \X days) = {}
    BY <1>5 DEF BoughtDays
  <2>7. IsFiniteSet(BoughtDays) /\ sum \in Nat /\ Cardinality({}) = 0
    BY FS_CardinalityType, FS_EmptySet DEF MonthsInv
  <2>8. /\ IsFiniteSet(BoughtDays \cup ({b} \X days))
        /\ Cardinality(BoughtDays \cup ({b} \X days))
             = sum + Cardinality({b} \X days) - Cardinality(BoughtDays \cap ({b} \X days))
    BY <2>3, <2>7, FS_Union
  <2>9. /\ IsFiniteSet(BoughtDays')
        /\ Cardinality(BoughtDays') = sum + Cardinality({b} \X days) - Cardinality({})
    BY <2>5, <2>6, <2>8
  <2> HIDE DEF days, sum, month
  <2> QED BY <1>4, <2>4, <2>7, <2>9
<1>8. \A c \in Active' : since'[c] \in Days
  BY <1>1, <1>3, <1>5 DEF MonthsInv
<1>9. premiumExpiresAt' = IF premiumExpiresAt > now THEN premiumExpiresAt + month
                                                    ELSE since[b] + month
  BY <1>2, <1>3 DEF Extended
<1> HIDE DEF month, n, sum
<1>10. MaxDelay * n \in Nat
  BY <1>3, <1>6
<1>11. \E c \in Active' : premiumExpiresAt' >= since[c] + (sum + month) - MaxDelay * n
  <2>1. CASE Active = {}
    <3>1. n = 0 /\ sum = 0
      BY <2>1, FS_EmptySet DEF n, sum, BoughtDays
    <3>2. MaxDelay * n = 0
      BY <1>3, <3>1
    <3>3. premiumExpiresAt' >= since[b] + (sum + month) - MaxDelay * n
      BY <1>3, <1>4, <1>9, <3>1, <3>2
    <3> QED BY <1>5, <3>3
  <2>2. CASE Active # {}
    <3>1. PICK c \in Active : premiumExpiresAt >= since[c] + sum - MaxDelay * (n - 1)
      BY <2>2 DEF MonthsInv, MonthsAddUp, n, sum
    <3>2. since[c] \in Nat /\ c \in Active'
      BY <1>5, Calendar DEF MonthsInv
    <3>3. MaxDelay * (n - 1) = MaxDelay * n - MaxDelay
      BY <1>3, <1>6
    <3>4. premiumExpiresAt >= since[c] + sum - (MaxDelay * n - MaxDelay)
      BY <3>1, <3>3
    <3>5. CASE premiumExpiresAt > now
      BY <1>3, <1>4, <1>7, <1>9, <1>10, <3>2, <3>4, <3>5
    <3>6. CASE ~(premiumExpiresAt > now)
      <4>1. premiumExpiresAt <= since[b] + MaxDelay
        BY <1>3, <1>4, <3>6
      <4> QED BY <1>3, <1>4, <1>7, <1>9, <1>10, <3>2, <3>4, <3>6, <4>1
    <3> QED BY <3>5, <3>6
  <2> QED BY <2>1, <2>2
<1>12. MonthsAddUp'
  <2>1. Cardinality(BoughtDays') = sum + month /\ Cardinality(Active') - 1 = n
    BY <1>6, <1>7
  <2>2. \E c \in Active' : premiumExpiresAt' >= since'[c] + Cardinality(BoughtDays')
                                                  - MaxDelay * (Cardinality(Active') - 1)
    BY <1>1, <1>11, <2>1
  <2> QED BY <2>2 DEF MonthsAddUp
<1> QED BY <1>6, <1>7, <1>8, <1>12 DEF MonthsInv

LEMMA InitMonths == Init => MonthsInv
<1> SUFFICES ASSUME Init PROVE MonthsInv
  OBVIOUS
<1>1. Active = {} /\ BoughtDays = {}
  BY DEF Init, Active, BoughtDays, Requests
<1> QED BY <1>1, FS_EmptySet DEF MonthsInv, MonthsAddUp

LEMMA StepMonths == MonthsInv /\ PremiumInv /\ [Next]_vars => MonthsInv'
<1> SUFFICES ASSUME MonthsInv, PremiumInv, [Next]_vars PROVE MonthsInv'
  OBVIOUS
<1>0. /\ pc \in [Requests -> CallStates \cup PurchaseStates]
      /\ since \in [Requests -> Days \cup {0}]
      /\ \A r \in Calls \cup Purchases : r \in Requests
      /\ \A b \in Purchases : b \notin Calls
  BY Calendar DEF PremiumInv, TypeOK, Requests
<1>1. ASSUME UNCHANGED premiumExpiresAt,
             \A b \in Purchases : /\ pc'[b] = "active" <=> pc[b] = "active"
                                  /\ pc[b] = "active" => since'[b] = since[b]
      PROVE  MonthsInv'
  <2>1. Active' = Active /\ \A b \in Active : since'[b] = since[b]
    BY <1>1 DEF Active
  <2>2. BoughtDays' = BoughtDays
    BY <2>1 DEF BoughtDays
  <2> QED BY <1>1, <2>1, <2>2 DEF MonthsInv, MonthsAddUp
<1>2. ASSUME NEW p \in Calls, CallNext(p) PROVE MonthsInv'
  BY <1>0, <1>1, <1>2 DEF CallNext, LockRow, PassPremium, Refuse, CountCall, QuotaError,
                          Finish, user
<1>3. ASSUME NEW b \in Purchases, Activate(b) PROVE MonthsInv'
  BY <1>3, ActivateMonths
<1>4. ASSUME NEW b \in Purchases, Verify(b) \/ InsertSubscription(b) \/ PurchaseFails(b)
      PROVE  MonthsInv'
  BY <1>0, <1>1, <1>4 DEF Verify, InsertSubscription, PurchaseFails, MoveOn, user
<1>5. CASE Tick \/ UNCHANGED vars
  BY <1>0, <1>1, <1>5 DEF Tick, vars, user
<1> QED BY <1>2, <1>3, <1>4, <1>5 DEF Next, PurchaseNext

\* However purchases overlap, no activated month is lost, but for the days a later
\* one was under way.
THEOREM MonthsAreDelivered == Spec => []MonthsAddUp
<1>1. Spec => []MonthsInv
  BY InitMonths, StepMonths, PremiumStays, PTL DEF Spec
<1> QED BY <1>1, PTL DEF MonthsInv

----------------------------------------------------------------------------
(* The transactions implement CallAllowance.                               *)

LEMMA DecisionsAreAllowed ==
  ASSUME PremiumInv, NEW p \in Calls, CallNext(p)
  PROVE  [Allowance!Next]_(Allowance!vars)
<1> DEFINE called == [q \in Calls |-> Decision(q)]
<1>0. p \in Requests /\ pc \in [Requests -> CallStates \cup PurchaseStates]
  BY DEF Requests, PremiumInv, TypeOK
<1>1. CASE LockRow(p)
  <2>1. called' = called
    BY <1>0, <1>1 DEF LockRow, Requests, Decision
  <2> QED BY <1>1, <2>1 DEF LockRow, user, Allowance!vars
<1>2. ASSUME NEW as \in {"paid", "refused", "failed"} \cup Counted, Finish(p, as)
      PROVE  /\ called[p] = "waiting" /\ day' = day /\ pc[p] = "locked"
             /\ called' = [called EXCEPT ![p] = IF as = "lost" THEN "free" ELSE as]
  BY <1>0, <1>2 DEF Finish, Requests, Counted, Decision
<1>3. ASSUME pc[p] = "locked"
      PROVE  /\ since[p] \in 1..day /\ day <= since[p] + MaxDelay
             /\ row[p].premiumExpiresAt = premiumExpiresAt /\ row[p].callCount = callCount
             /\ row[p].lastReset = lastReset
             /\ ShouldReset(p) <=> Allowance!WindowOver(since[p])
  BY <1>3, LockedCall, Calendar DEF ShouldReset, Allowance!WindowOver
<1>4. CASE PassPremium(p)
  <2>1. Finish(p, "paid")
    BY <1>4 DEF PassPremium
  <2>2. Allowance!OnPaidTime(p)
    <3>1. premiumExpiresAt > since[p]
      BY <1>2, <1>3, <1>4, <2>1 DEF PassPremium, StillPremium
    <3>2. Allowance!Decide(p, since[p], "paid")
      BY <1>2, <1>3, <1>4, <2>1 DEF PassPremium, user, Allowance!Decide
    <3> QED BY <1>2, <1>3, <1>4, <2>1, <3>1, <3>2 DEF PassPremium, user, Allowance!OnPaidTime
  <2> QED BY <2>2 DEF Allowance!Next
<1>5. CASE CountCall(p)
  <2>1. PICK as \in Counted : Finish(p, as)
    BY <1>5 DEF CountCall
  <2>2. pc[p] = "locked"
    BY <2>1 DEF Finish
  <2>3. Allowance!OnFreeCall(p)
    <3>1. /\ premiumExpiresAt <= since[p]
          /\ \/ /\ Allowance!WindowOver(since[p])
                /\ lastReset' = since[p] /\ callCount' = 1
             \/ /\ ~Allowance!WindowOver(since[p]) /\ callCount < FreeCalls
                /\ lastReset' = lastReset /\ callCount' = callCount + 1
      BY <1>3, <1>5, <2>2, LockedCall DEF CountCall, StillPremium, Spent
    <3>2. Allowance!Decide(p, since[p], "free")
      BY <1>2, <1>3, <1>5, <2>1 DEF CountCall, Counted, Allowance!Decide
    <3> QED BY <1>2, <1>3, <1>5, <2>1, <3>1, <3>2 DEF CountCall, Allowance!OnFreeCall
  <2> QED BY <2>3 DEF Allowance!Next
<1>6. CASE Refuse(p)
  <2>1. Finish(p, "refused")
    BY <1>6 DEF Refuse
  <2>2. pc[p] = "locked"
    BY <2>1 DEF Finish
  <2>3. Allowance!Refused(p)
    <3>1. /\ premiumExpiresAt <= since[p] /\ ~Allowance!WindowOver(since[p])
          /\ callCount >= FreeCalls
      BY <1>3, <1>6, <2>2, LockedCall, Calendar DEF Refuse, StillPremium, Spent
    <3>2. Allowance!Decide(p, since[p], "refused")
      BY <1>2, <1>3, <1>6, <2>1 DEF Refuse, user, Allowance!Decide
    <3> QED BY <1>2, <1>3, <1>6, <2>1, <3>1, <3>2 DEF Refuse, user, Allowance!Refused
  <2> QED BY <2>3 DEF Allowance!Next
<1>7. CASE QuotaError(p)
  <2>1. Allowance!Failed(p)
    BY <1>2, <1>7 DEF QuotaError, user, Allowance!Failed
  <2> QED BY <2>1 DEF Allowance!Next
<1> QED BY <1>1, <1>4, <1>5, <1>6, <1>7 DEF CallNext

LEMMA PurchasesPay ==
  ASSUME PremiumInv, NEW b \in Purchases, PurchaseNext(b)
  PROVE  [Allowance!Next]_(Allowance!vars)
<1> DEFINE called == [q \in Calls |-> Decision(q)]
<1>1. called' = called /\ day' = day
  BY Calendar DEF PurchaseNext, Verify, InsertSubscription, Activate, PurchaseFails, MoveOn,
                  PremiumInv, TypeOK, Requests, Decision
<1>2. CASE Activate(b)
  <2>1. premiumExpiresAt' > premiumExpiresAt
    BY <1>2, ExtendedIsLater DEF Activate, MoveOn
  <2> QED BY <1>1, <1>2, <2>1 DEF Activate, Allowance!Pay, Allowance!Next
<1>3. CASE UNCHANGED user
  BY <1>1, <1>3 DEF user, Allowance!vars
<1> QED BY <1>2, <1>3 DEF PurchaseNext, Verify, InsertSubscription, PurchaseFails

\* Overlapping checks and purchases, their locks and rollbacks, amount to a user
\* who pays and calls that are decided one at a time, each by the state it finds.
THEOREM QuotaImplementsAllowance == Spec => DecidesOneAtATime
<1>1. Init => Allowance!Init
  <2> SUFFICES ASSUME Init PROVE Allowance!Init
    OBVIOUS
  <2>1. PremiumInv
    BY InitPremium
  <2>2. day \in Nat \ {0} /\ premiumExpiresAt \in Nat /\ isPremium \in BOOLEAN
    BY <2>1, Calendar DEF PremiumInv, TypeOK
  <2>3. lastReset \in {0, day} /\ callCount = 0
    BY DEF Init
  <2>4. [q \in Calls |-> Decision(q)]
          = [q \in Calls |-> "waiting"]
    BY DEF Init, Requests, Decision
  <2> QED BY <2>2, <2>3, <2>4 DEF Allowance!Init
<1>2. PremiumInv /\ [Next]_vars => [Allowance!Next]_(Allowance!vars)
  <2> SUFFICES ASSUME PremiumInv, [Next]_vars PROVE [Allowance!Next]_(Allowance!vars)
    OBVIOUS
  <2>1. CASE Tick
    BY <2>1, Calendar
       DEF Tick, user, PremiumInv, TypeOK, Decision, Allowance!TimePasses, Allowance!Next
  <2>2. CASE UNCHANGED vars
    BY <2>2 DEF vars, user, Decision, Allowance!vars
  <2> QED BY <2>1, <2>2, DecisionsAreAllowed, PurchasesPay DEF Next
<1> QED BY <1>1, <1>2, PremiumStays, PTL DEF Spec, DecidesOneAtATime, Allowance!Spec
=============================================================================
