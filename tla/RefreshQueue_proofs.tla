------------------------ MODULE RefreshQueue_proofs -------------------------
(***************************************************************************)
(* Proofs about RefreshQueue, for any requests and tokens: one refresher at  *)
(* a time, no revoked refresh token presented, no tokens cleared that were   *)
(* just obtained.                                                          *)
(***************************************************************************)
EXTENDS RefreshQueue, TLAPS

Saving == {"saving", "saving2"}

\* The server mints upwards and revokes only what the client has replaced.
TokensInOrder ==
  /\ refresh \in 0..minted /\ revoked \subseteq 1..(minted - 1)
  /\ \A r \in Requests : used[r] \in 0..minted
  /\ \A r \in Requests : pc[r] \in Saving => saved[r] = minted

\* The stored refresh token is the one being presented; it is a revoked one only while
\* its successor is being saved or it is being cleared.
StoredIsCurrent ==
  /\ \A r \in Requests : pc[r] = "refreshing" => used[r] = refresh /\ refresh # 0
  /\ refresh \in revoked => \E r \in Requests : pc[r] \in Saving \cup Failing

\* The refresher's own request is in the queue, and the queue only grows under its loop.
QueueGrows ==
  \A r \in Requests :
    /\ pc[r] \in Leading => Len(queue) >= 1
    /\ pc[r] = "fetching" => len[r] <= Len(queue)

RefreshInv ==
  /\ TypeOK
  /\ OneRefresher
  /\ TokensInOrder
  /\ StoredIsCurrent
  /\ QueueGrows
  /\ ClearsForAReason

LEMMA InvNoReplay == RefreshInv => NoReplay
  BY DEF RefreshInv, NoReplay, OneRefresher, StoredIsCurrent, Saving, Failing, Leading

LEMMA InitInv == Init => RefreshInv
<1> SUFFICES ASSUME Init PROVE RefreshInv
  OBVIOUS
<1>1. queue \in Seq(Requests) /\ 1 \in Generations /\ 0 \in Generations /\ 1 \in 1..MaxGen
  BY RefreshConstants DEF RefreshConstants, Init, Generations
<1>2. TypeOK
  BY <1>1 DEF Init, TypeOK
<1>3. OneRefresher /\ QueueGrows /\ ClearsForAReason
  BY DEF Init, OneRefresher, QueueGrows, ClearsForAReason, Leading, Failing
<1>4. TokensInOrder /\ StoredIsCurrent
  BY DEF Init, TokensInOrder, StoredIsCurrent, Saving
<1> QED BY <1>2, <1>3, <1>4 DEF RefreshInv

\* A step of a request outside the refresh, that leaves it there.
LEMMA BystanderInv ==
  ASSUME RefreshInv, TypeOK', NEW r \in Requests, NEW place,
         pc[r] \notin Leading, place \notin Leading, Goto(r, place),
         UNCHANGED <<shared, used, saved, pos, len, refresh, server>>
  PROVE  RefreshInv'
<1> USE DEF Goto, shared, server
<1>1. OneRefresher'
  BY DEF RefreshInv, TypeOK, OneRefresher
<1>2. TokensInOrder' /\ StoredIsCurrent'
  BY DEF RefreshInv, TypeOK, TokensInOrder, StoredIsCurrent, Saving, Failing, Leading
<1>3. QueueGrows' /\ ClearsForAReason'
  BY DEF RefreshInv, TypeOK, QueueGrows, ClearsForAReason, Failing, Leading
<1> QED BY <1>1, <1>2, <1>3 DEF RefreshInv

\* The refresher goes on, and the flag stays up.
LEMMA StillOne ==
  ASSUME RefreshInv, NEW r \in Requests, NEW place \in Leading,
         pc[r] \in Leading, Goto(r, place), UNCHANGED isRefreshing
  PROVE  OneRefresher'
  BY DEF RefreshInv, TypeOK, OneRefresher, Goto

LEMMA RotateOrdered ==
  ASSUME RefreshInv, NEW r \in Requests, pc[r] = "refreshing", Rotate(used[r])
  PROVE  /\ minted' = minted + 1 /\ minted' \in 1..MaxGen /\ minted \in 1..MaxGen
         /\ revoked' \subseteq 1..(minted' - 1)
         /\ revoked' \subseteq Generations
         /\ revoked' = revoked \cup {refresh}
<1>1. minted \in 1..MaxGen /\ minted' = minted + 1 /\ minted < MaxGen
  BY DEF Rotate, RefreshInv, TypeOK
<1>2. used[r] = refresh /\ refresh \in 1..minted
  BY <1>1 DEF RefreshInv, StoredIsCurrent, TokensInOrder
<1>3. revoked \subseteq 1..(minted - 1) /\ revoked' = revoked \cup {used[r]}
  BY DEF Rotate, RefreshInv, TokensInOrder
<1> QED BY <1>1, <1>2, <1>3, RefreshConstants DEF RefreshConstants, Generations

LEMMA EnqueueInv == ASSUME RefreshInv, NEW r \in Requests, Enqueue(r) PROVE RefreshInv'
<1> USE DEF Enqueue, Goto, storage, server
<1>1. queue' \in Seq(Requests) /\ Len(queue') = Len(queue) + 1 /\ Len(queue) \in Nat
  BY DEF RefreshInv, TypeOK
<1>2. TypeOK'
  BY <1>1 DEF RefreshInv, TypeOK, Leading
<1>3. OneRefresher'
  BY DEF RefreshInv, TypeOK, OneRefresher, Leading, Failing
<1>4. TokensInOrder' /\ StoredIsCurrent'
  BY DEF RefreshInv, TypeOK, TokensInOrder, StoredIsCurrent, Saving, Failing
<1>5. QueueGrows' /\ ClearsForAReason'
  BY <1>1 DEF RefreshInv, TypeOK, QueueGrows, ClearsForAReason, Failing, Leading
<1> QED BY <1>2, <1>3, <1>4, <1>5 DEF RefreshInv

\* The refresh itself: done, or done and its answer lost.
LEMMA RotateInv ==
  ASSUME RefreshInv, NEW r \in Requests, RefreshDone(r) \/ RefreshLost(r) PROVE RefreshInv'
<1> USE DEF RefreshDone, RefreshLost, Goto, shared, locals, storage
<1>1. pc[r] = "refreshing" /\ Rotate(used[r])
  OBVIOUS
<1>2. /\ minted' = minted + 1 /\ minted' \in 1..MaxGen /\ minted \in 1..MaxGen
      /\ revoked' \subseteq 1..(minted' - 1)
      /\ revoked' \subseteq Generations
      /\ revoked' = revoked \cup {refresh}
  BY <1>1, RotateOrdered
<1>3. minted' \in Generations /\ expired' = expired
  BY <1>1, <1>2 DEF Generations, Rotate
<1>4. TypeOK'
  <2>1. saved' \in [Requests -> Generations]
    BY <1>3 DEF RefreshInv, TypeOK
  <2>2. PICK place \in {"saving", "clearing"} : pc' = [pc EXCEPT ![r] = place]
    OBVIOUS
  <2>3. UNCHANGED <<bearer, completer, isRefreshing, queue, used, pos, len, access, refresh>>
    OBVIOUS
  <2> HIDE DEF RefreshDone, RefreshLost
  <2> QED BY <1>2, <1>3, <2>1, <2>2, <2>3 DEF RefreshInv, TypeOK, Leading, Failing
<1>5. OneRefresher'
  BY StillOne DEF Leading, Failing
<1>6. TokensInOrder'
  <2>1. refresh \in 0..minted /\ \A q \in Requests : used[q] \in 0..minted
    BY DEF RefreshInv, TokensInOrder
  <2>2. refresh' \in 0..minted' /\ \A q \in Requests : used'[q] \in 0..minted'
    BY <1>2, <2>1
  <2>3. ASSUME NEW q \in Requests, pc'[q] \in Saving PROVE q = r /\ RefreshDone(r)
    BY <1>1, <2>3 DEF RefreshInv, TypeOK, OneRefresher, Saving, Leading
  <2>4. RefreshDone(r) => saved'[r] = minted'
    BY DEF RefreshInv, TypeOK
  <2> QED BY <1>2, <2>2, <2>3, <2>4 DEF TokensInOrder
<1>7. StoredIsCurrent'
  BY <1>2 DEF RefreshInv, TypeOK, OneRefresher, StoredIsCurrent, Saving, Failing, Leading
<1>8. QueueGrows' /\ ClearsForAReason'
  BY <1>1 DEF RefreshInv, TypeOK, OneRefresher, StoredIsCurrent, QueueGrows, ClearsForAReason,
         Leading, Failing
<1> QED BY <1>4, <1>5, <1>6, <1>7, <1>8 DEF RefreshInv

\* A refresh that fails; the two writes of the new tokens; the first of the two deletes.
LEMMA StorageInv ==
  ASSUME RefreshInv, NEW r \in Requests,
         RefreshFails(r) \/ SaveAccess(r) \/ SaveRefresh(r) \/ ClearAccess(r)
  PROVE  RefreshInv'
<1> USE DEF RefreshFails, SaveAccess, SaveRefresh, ClearAccess, Goto, shared, locals, storage, server
<1>0. /\ 0 \in Generations /\ saved[r] \in Generations
      /\ 0 \in 0..minted /\ minted \in 0..minted /\ minted \notin 1..(minted - 1)
  BY RefreshConstants DEF RefreshConstants, RefreshInv, TypeOK, Generations
<1>1. TypeOK'
  BY <1>0 DEF RefreshInv, TypeOK, Leading, Failing
<1>2. OneRefresher'
  BY StillOne DEF Leading, Failing
<1>3. TokensInOrder'
  <2>1. pc[r] = "saving2" => saved[r] = minted
    BY DEF RefreshInv, TokensInOrder, Saving
  <2>2. refresh' \in 0..minted
    BY <1>0, <2>1 DEF RefreshInv, TokensInOrder
  <2>3. \A q \in Requests : pc'[q] \in Saving => pc[q] \in Saving
    BY DEF RefreshInv, TypeOK, Saving
  <2> QED BY <2>2, <2>3 DEF RefreshInv, TokensInOrder
<1>4. StoredIsCurrent'
  <2>1. SaveRefresh(r) => refresh' \notin revoked'
    BY <1>0 DEF RefreshInv, TokensInOrder, Saving
  <2>2. CASE SaveRefresh(r)
    BY <2>1, <2>2 DEF RefreshInv, TypeOK, OneRefresher, StoredIsCurrent, Leading
  <2>3. CASE RefreshFails(r) \/ SaveAccess(r) \/ ClearAccess(r)
    BY <2>3 DEF RefreshInv, TypeOK, StoredIsCurrent, Saving, Failing
  <2> QED BY <2>2, <2>3
<1>5. QueueGrows' /\ ClearsForAReason'
  BY DEF RefreshInv, TypeOK, QueueGrows, ClearsForAReason, StoredIsCurrent, OneRefresher, Leading, Failing
<1> QED BY <1>1, <1>2, <1>3, <1>4, <1>5 DEF RefreshInv

LEMMA StartLoopInv == ASSUME RefreshInv, NEW r \in Requests, StartLoop(r) PROVE RefreshInv'
<1> USE DEF StartLoop, Goto, shared, storage, server
<1>1. Len(queue) \in Nat /\ 1 \in 1..Len(queue)
  BY DEF RefreshInv, TypeOK, QueueGrows, Leading
<1>2. TypeOK'
  BY <1>1 DEF RefreshInv, TypeOK, Leading
<1>3. OneRefresher'
  BY StillOne DEF Leading
<1>4. TokensInOrder' /\ StoredIsCurrent'
  BY DEF RefreshInv, TypeOK, TokensInOrder, StoredIsCurrent, Saving, Failing
<1>5. QueueGrows' /\ ClearsForAReason'
  BY <1>1 DEF RefreshInv, TypeOK, QueueGrows, ClearsForAReason, OneRefresher, Leading, Failing
<1> QED BY <1>2, <1>3, <1>4, <1>5 DEF RefreshInv

LEMMA RepeatInv == ASSUME RefreshInv, NEW r \in Requests, Repeat(r) PROVE RefreshInv'
<1> USE DEF Repeat, Goto, storage, server
<1>1. /\ Len(queue) \in Nat /\ len[r] \in Nat /\ pos[r] \in 1..len[r] /\ len[r] <= Len(queue)
      /\ queue[pos[r]] \in Requests
  BY DEF RefreshInv, TypeOK, QueueGrows
<1>2. completer' \in [Requests -> {"pending", "value", "error"}]
  BY <1>1 DEF RefreshInv, TypeOK
<1>3. CASE Len(queue) # len[r] /\ Goto(r, "clearing") /\ UNCHANGED <<isRefreshing, queue, pos>>
  <2>1. TypeOK'
    BY <1>2, <1>3 DEF RefreshInv, TypeOK, Leading, Failing
  <2>2. OneRefresher'
    BY <1>3, StillOne DEF Leading, Failing
  <2>3. TokensInOrder' /\ StoredIsCurrent'
    BY <1>3 DEF RefreshInv, TypeOK, TokensInOrder, StoredIsCurrent, Saving, Failing
  <2>4. QueueGrows' /\ ClearsForAReason'
    BY <1>1, <1>3 DEF RefreshInv, TypeOK, QueueGrows, ClearsForAReason, OneRefresher, Leading, Failing
  <2> QED BY <2>1, <2>2, <2>3, <2>4 DEF RefreshInv
<1>4. CASE /\ Len(queue) = len[r] /\ pos[r] < len[r]
           /\ pos' = [pos EXCEPT ![r] = @ + 1]
           /\ UNCHANGED <<pc, isRefreshing, queue>>
  <2>1. TypeOK'
    BY <1>1, <1>2, <1>4 DEF RefreshInv, TypeOK
  <2> QED
    BY <1>4, <2>1 DEF RefreshInv, OneRefresher, TokensInOrder, StoredIsCurrent, QueueGrows,
       ClearsForAReason
<1>5. CASE Goto(r, "waiting") /\ Release /\ UNCHANGED pos
  <2>1. queue' \in Seq(Requests) /\ queue' = <<>>
    BY <1>5 DEF Release
  <2>2. TypeOK'
    BY <1>2, <1>5, <2>1 DEF Release, RefreshInv, TypeOK, Leading
  <2>3. OneRefresher' /\ \A q \in Requests : pc'[q] \notin Leading
    BY <1>5 DEF Release, RefreshInv, TypeOK, OneRefresher, Leading, Failing
  <2>4. TokensInOrder' /\ StoredIsCurrent'
    BY <1>5 DEF RefreshInv, TypeOK, TokensInOrder, StoredIsCurrent, Saving, Failing
  <2>5. QueueGrows' /\ ClearsForAReason'
    BY <2>3 DEF QueueGrows, ClearsForAReason, Leading, Failing
  <2> QED BY <2>2, <2>3, <2>4, <2>5 DEF RefreshInv
<1> QED BY <1>3, <1>4, <1>5 DEF MoveNext

LEMMA RepeatRefusedInv ==
  ASSUME RefreshInv, NEW r \in Requests, RepeatRefused(r) PROVE RefreshInv'
<1> USE DEF RepeatRefused, Goto, locals, storage, server
<1>1. /\ queue \in Seq(Requests) /\ Len(queue) \in Nat /\ pos[r] \in 1..Len(queue)
      /\ queue[pos[r]] \in Requests
  BY DEF RefreshInv, TypeOK, QueueGrows
<1>2. queue' \in Seq(Requests) /\ Len(queue') = Len(queue) + 1
  BY <1>1
<1>3. TypeOK'
  BY <1>2 DEF RefreshInv, TypeOK, Leading
<1>4. OneRefresher'
  BY StillOne DEF Leading
<1>5. TokensInOrder' /\ StoredIsCurrent'
  BY DEF RefreshInv, TypeOK, TokensInOrder, StoredIsCurrent, Saving, Failing
<1>6. QueueGrows' /\ ClearsForAReason'
  BY <1>1, <1>2 DEF RefreshInv, TypeOK, QueueGrows, ClearsForAReason, OneRefresher, Leading, Failing
<1> QED BY <1>3, <1>4, <1>5, <1>6 DEF RefreshInv

LEMMA ClearRefreshInv ==
  ASSUME RefreshInv, NEW r \in Requests, ClearRefresh(r) PROVE RefreshInv'
<1>1. /\ pc[r] = "clearing2" /\ refresh' = 0 /\ queue' = <<>> /\ isRefreshing' = FALSE
      /\ UNCHANGED <<bearer, used, saved, pos, len, access, minted, revoked, expired>>
  BY DEF ClearRefresh, Release, locals, server
<1>2. PICK place \in {"waiting", "lost"} : pc' = [pc EXCEPT ![r] = place]
  BY DEF ClearRefresh, Goto
<1>3. completer' \in [Requests -> {"pending", "value", "error"}]
  BY DEF ClearRefresh, RefreshInv, TypeOK
<1>4. TypeOK'
  <2>1. 0 \in Generations /\ queue' \in Seq(Requests)
    BY <1>1, RefreshConstants DEF RefreshConstants, Generations
  <2> QED BY <1>1, <1>2, <1>3, <2>1 DEF RefreshInv, TypeOK, Leading
<1>5. OneRefresher' /\ \A q \in Requests : pc'[q] \notin Leading
  BY <1>1, <1>2 DEF RefreshInv, TypeOK, OneRefresher, Leading, Failing
<1>6. TokensInOrder'
  <2>1. 0 \in 0..minted
    BY DEF RefreshInv, TypeOK
  <2>2. \A q \in Requests : pc'[q] \notin Saving
    BY <1>5 DEF Leading, Saving
  <2> QED BY <1>1, <2>1, <2>2 DEF RefreshInv, TokensInOrder
<1>7. StoredIsCurrent'
  BY <1>1, <1>5, <1>6 DEF TokensInOrder, StoredIsCurrent, Leading
<1>8. QueueGrows' /\ ClearsForAReason'
  BY <1>5 DEF QueueGrows, ClearsForAReason, Leading, Failing
<1> QED BY <1>4, <1>5, <1>6, <1>7, <1>8 DEF RefreshInv

LEMMA ExpireInv == ASSUME RefreshInv, NEW token \in ShortLived, Expire(token) PROVE RefreshInv'
<1>1. TypeOK'
  BY RefreshConstants
     DEF RefreshConstants, Expire, RefreshInv, TypeOK, Generations, shared, locals, storage
<1> QED
  BY <1>1 DEF Expire, RefreshInv, OneRefresher, TokensInOrder, StoredIsCurrent, QueueGrows,
     ClearsForAReason, shared, locals, storage

LEMMA StepInv == RefreshInv /\ [Next]_vars => RefreshInv'
<1> SUFFICES ASSUME RefreshInv, [Next]_vars PROVE RefreshInv'
  OBVIOUS
<1>1. CASE UNCHANGED vars
  BY <1>1 DEF vars, shared, locals, storage, server, RefreshInv, TypeOK, OneRefresher,
     TokensInOrder, StoredIsCurrent, QueueGrows, ClearsForAReason
<1>2. ASSUME NEW r \in Requests, Issue(r) \/ Succeed(r) \/ Fail(r) \/ GiveUp(r) \/ Deliver(r)
      PROVE  RefreshInv'
  <2> USE DEF Issue, Succeed, Fail, GiveUp, Deliver, Goto, shared, locals, storage, server
  <2>1. TypeOK'
    BY <1>2 DEF RefreshInv, TypeOK, Generations, Leading
  <2>2. PICK place \in {"sent", "ok", "failed"} : Goto(r, place)
    BY <1>2
  <2> QED BY <1>2, <2>1, <2>2, BystanderInv DEF Leading, Failing
<1> QED
  BY <1>1, <1>2, EnqueueInv, RotateInv, StorageInv, StartLoopInv, RepeatInv,
     RepeatRefusedInv, ClearRefreshInv, ExpireInv DEF Next, Answer

LEMMA RefreshStaysSafe == Spec => []RefreshInv
  BY InitInv, StepInv, PTL DEF Spec

\* The interceptor's and the storage's state are what the code declares.
THEOREM RefreshTypes == Spec => []TypeOK
  BY RefreshStaysSafe, PTL DEF RefreshInv

\* At most one handler refreshes, however the 401s arrive.
THEOREM RefreshesOneAtATime == Spec => []OneRefresher
  BY RefreshStaysSafe, PTL DEF RefreshInv

\* No handler presents a refresh token the server has revoked.
THEOREM NeverReplays == Spec => []NoReplay
  BY RefreshStaysSafe, InvNoReplay, PTL

\* Tokens are cleared only if they could not be replaced, or if the queue grew
\* under the loop.
THEOREM ClearsOnlyForAReason == Spec => []ClearsForAReason
  BY RefreshStaysSafe, PTL DEF RefreshInv
=============================================================================
