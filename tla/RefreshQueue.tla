---------------------------- MODULE RefreshQueue ----------------------------
(***************************************************************************)
(* The mobile client's answer to 401: one request refreshes the tokens, the *)
(* others wait in a queue, and the refresher repeats them all               *)
(* (refresh_interceptor.dart, auth_interceptor.dart, token_storage.dart).   *)
(*                                                                         *)
(* Dart runs one callback at a time: what stands between two awaits is one   *)
(* action.  Calls of the secure storage are answered in the order they were  *)
(* made, so the read of the refresh token and what follows it up to the next *)
(* await are one action too.  Tokens are told apart by the refresh that      *)
(* minted them: 1 is the pair of the login, 0 is no token.  Nobody logs in   *)
(* while requests are under way: the login page is shown to a client that    *)
(* started without a token.                                                *)
(***************************************************************************)
EXTENDS Naturals, Sequences

CONSTANTS
  Requests,
  MaxGen,      \* bound: pairs of tokens ever minted
  ShortLived   \* the pairs whose access token may expire while requests run

ASSUME RefreshConstants == MaxGen \in Nat \ {0} /\ ShortLived \subseteq 1..MaxGen

Generations == 0..MaxGen

VARIABLES
  pc,            \* where each request, or the onError that handles it, stands
  bearer,        \* the access token it was sent with
  completer,     \* its completer: pending, value or error
  isRefreshing,
  queue,         \* _queue
  used,          \* the refresh token its handler read (argument of _refreshToken)
  saved,         \* the pair the server answered it with
  pos, len,      \* its iterator over the queue: elements taken, length expected
  access, refresh,            \* the secure storage
  minted, revoked, expired    \* the server: pairs minted, refresh tokens revoked,
                              \* access tokens expired

storage == <<access, refresh>>
server  == <<minted, revoked, expired>>
shared  == <<completer, isRefreshing, queue>>
locals  == <<bearer, used, saved, pos, len>>
vars    == <<pc, shared, locals, storage, server>>

Failing == {"clearing", "clearing2"}                 \* in the catch of line 54
Leading == {"refreshing", "saving", "saving2", "reading", "fetching", "nested"}
             \cup Failing

TypeOK ==
  /\ pc \in [Requests -> {"idle", "sent", "waiting", "ok", "failed", "lost"} \cup Leading]
  /\ bearer \in [Requests -> Generations]
  /\ completer \in [Requests -> {"pending", "value", "error"}]
  /\ isRefreshing \in BOOLEAN
  /\ queue \in Seq(Requests)
  /\ used \in [Requests -> Generations]
  /\ saved \in [Requests -> Generations]
  /\ pos \in [Requests -> Nat]
  /\ len \in [Requests -> Nat]
  /\ access \in Generations
  /\ refresh \in Generations
  /\ minted \in 1..MaxGen
  /\ revoked \subseteq Generations
  /\ expired \subseteq Generations
  /\ \A r \in Requests : pc[r] = "fetching" => pos[r] \in 1..len[r]

Init ==
  /\ pc = [r \in Requests |-> "idle"]
  /\ bearer = [r \in Requests |-> 0]
  /\ completer = [r \in Requests |-> "pending"]
  /\ isRefreshing = FALSE
  /\ queue = <<>>
  /\ used = [r \in Requests |-> 0]
  /\ saved = [r \in Requests |-> 0]
  /\ pos = [r \in Requests |-> 0]
  /\ len = [r \in Requests |-> 0]
  /\ access = 1 /\ refresh = 1
  /\ minted = 1 /\ revoked = {} /\ expired = {}

Goto(r, place) == pc' = [pc EXCEPT ![r] = place]

----------------------------------------------------------------------------
(* A request, and the server's answer to it.                               *)

\* The middleware accepts an access token that is there and has not expired.
Authorised(token) == token \notin expired \cup {0}

Issue(r) ==
  /\ pc[r] = "idle"
  /\ Goto(r, "sent")
  /\ bearer' = [bearer EXCEPT ![r] = access]
  /\ UNCHANGED <<shared, used, saved, pos, len, storage, server>>

Succeed(r) ==
  /\ pc[r] = "sent" /\ Authorised(bearer[r])
  /\ Goto(r, "ok")
  /\ UNCHANGED <<shared, locals, storage, server>>

\* No answer, or an error that is not a 401: handler.next(err).
Fail(r) ==
  /\ pc[r] = "sent"
  /\ Goto(r, "failed")
  /\ UNCHANGED <<shared, locals, storage, server>>

\* A 401 with nothing to refresh with.
GiveUp(r) ==
  /\ pc[r] = "sent" /\ ~Authorised(bearer[r]) /\ refresh = 0
  /\ access' = 0
  /\ Goto(r, "failed")
  /\ UNCHANGED <<shared, locals, refresh, server>>

\* Any other 401: queue the request, and refresh unless someone does.
Enqueue_Unguarded(r) ==
  /\ pc[r] = "sent" /\ ~Authorised(bearer[r]) /\ refresh # 0
  /\ queue' = Append(queue, r)
  /\ used' = [used EXCEPT ![r] = refresh]
  /\ isRefreshing' = TRUE
  /\ Goto(r, "refreshing")
  /\ UNCHANGED <<completer, bearer, saved, pos, len, storage, server>>

Enqueue(r) ==
  /\ pc[r] = "sent" /\ ~Authorised(bearer[r]) /\ refresh # 0
  /\ queue' = Append(queue, r)
  /\ used' = [used EXCEPT ![r] = refresh]
  /\ isRefreshing' = TRUE
  /\ Goto(r, IF isRefreshing THEN "waiting" ELSE "refreshing")
  /\ UNCHANGED <<completer, bearer, saved, pos, len, storage, server>>

\* The queued request is answered through its completer.
Deliver(r) ==
  /\ pc[r] = "waiting" /\ completer[r] # "pending"
  /\ Goto(r, IF completer[r] = "value" THEN "ok" ELSE "failed")
  /\ UNCHANGED <<shared, locals, storage, server>>

----------------------------------------------------------------------------
(* The refresh.                                                            *)

\* The server revokes the refresh token and mints another pair.
Rotate(token) ==
  /\ token \notin revoked
  /\ minted < MaxGen
  /\ minted' = minted + 1
  /\ revoked' = revoked \cup {token}
  /\ UNCHANGED expired

RefreshDone(r) ==
  /\ pc[r] = "refreshing"
  /\ Rotate(used[r])
  /\ saved' = [saved EXCEPT ![r] = minted']
  /\ Goto(r, "saving")
  /\ UNCHANGED <<shared, bearer, used, pos, len, storage>>

\* The server did its part, and its answer is lost.
RefreshLost(r) ==
  /\ pc[r] = "refreshing"
  /\ Rotate(used[r])
  /\ Goto(r, "clearing")
  /\ UNCHANGED <<shared, locals, storage>>

\* The refresh fails: unreachable server, a 401 (passed on at line 73), a 5xx.
RefreshFails(r) ==
  /\ pc[r] = "refreshing"
  /\ Goto(r, "clearing")
  /\ UNCHANGED <<shared, locals, storage, server>>

SaveAccess(r) ==
  /\ pc[r] = "saving"
  /\ access' = saved[r]
  /\ Goto(r, "saving2")
  /\ UNCHANGED <<shared, locals, refresh, server>>

SaveRefresh_Skipped(r) ==
  /\ pc[r] = "saving2"
  /\ Goto(r, "reading")
  /\ UNCHANGED <<shared, locals, storage, server>>

SaveRefresh(r) ==
  /\ pc[r] = "saving2"
  /\ refresh' = saved[r]
  /\ Goto(r, "reading")
  /\ UNCHANGED <<shared, locals, access, server>>

----------------------------------------------------------------------------
(* Repeating the queued requests.                                          *)

\* The new access token is read; the iterator takes the queue's first element.
StartLoop(r) ==
  /\ pc[r] = "reading"
  /\ len' = [len EXCEPT ![r] = Len(queue)]
  /\ pos' = [pos EXCEPT ![r] = 1]
  /\ Goto(r, "fetching")
  /\ UNCHANGED <<shared, bearer, used, saved, storage, server>>

\* The finally of line 59.
Release_Forgotten == queue' = <<>> /\ UNCHANGED isRefreshing

Release == queue' = <<>> /\ isRefreshing' = FALSE

\* The iterator refuses a queue whose length changed (ConcurrentModificationError),
\* which leads to the catch; after the last element the handler waits like the others.
MoveNext(r) ==
  \/ /\ Len(queue) # len[r]
     /\ Goto(r, "clearing")
     /\ UNCHANGED <<isRefreshing, queue, pos>>
  \/ /\ Len(queue) = len[r] /\ pos[r] < len[r]
     /\ pos' = [pos EXCEPT ![r] = @ + 1]
     /\ UNCHANGED <<pc, isRefreshing, queue>>
  \/ /\ Len(queue) = len[r] /\ pos[r] = len[r]
     /\ Goto(r, "waiting")
     /\ Release
     /\ UNCHANGED pos

Repeat_Uncaught(r) ==
  /\ pc[r] = "fetching"
  /\ \/ /\ Authorised(access)
        /\ completer' = [completer EXCEPT ![queue[pos[r]]] = "value"]
        /\ MoveNext(r)
     \/ /\ Goto(r, "clearing")
        /\ UNCHANGED <<completer, isRefreshing, queue, pos>>
  /\ UNCHANGED <<bearer, used, saved, len, storage, server>>

\* The repeated request has an answer; it goes to the completer of the queued one.
\* (The header holds the stored token: AuthInterceptor sets it once more.)
Repeat(r) ==
  /\ pc[r] = "fetching"
  /\ \E result \in {"value", "error"} :
       /\ result = "value" => Authorised(access)
       /\ completer' = [completer EXCEPT ![queue[pos[r]]] = result]
  /\ MoveNext(r)
  /\ UNCHANGED <<bearer, used, saved, len, storage, server>>

\* The repeated request is refused with 401.  It passes through the interceptor:
\* isRefreshing is set, so it is queued, and the loop that would serve it awaits it.
RepeatRefused(r) ==
  /\ pc[r] = "fetching" /\ ~Authorised(access) /\ refresh # 0
  /\ queue' = Append(queue, queue[pos[r]])
  /\ Goto(r, "nested")
  /\ UNCHANGED <<completer, isRefreshing, locals, storage, server>>

----------------------------------------------------------------------------
(* The catch of line 54.                                                   *)

ClearAccess(r) ==
  /\ pc[r] = "clearing"
  /\ access' = 0
  /\ Goto(r, "clearing2")
  /\ UNCHANGED <<shared, locals, refresh, server>>

\* Completers take the error in the queue's order.  One that is completed already
\* throws: the handler ends there, after the finally, and calls nothing of `handler'.
FirstDone(i) ==
  /\ completer[queue[i]] # "pending"
  /\ \A j \in 1..(i - 1) : completer[queue[j]] = "pending"

Fails(first) == {queue[i] : i \in first}

ClearRefresh_Silent(r) ==
  /\ pc[r] = "clearing2"
  /\ refresh' = 0
  /\ Goto(r, "waiting")
  /\ Release
  /\ UNCHANGED <<completer, locals, access, server>>

ClearRefresh(r) ==
  /\ pc[r] = "clearing2"
  /\ refresh' = 0
  /\ \/ /\ \A i \in 1..Len(queue) : completer[queue[i]] = "pending"
        /\ completer' = [q \in Requests |->
             IF q \in Fails(1..Len(queue)) THEN "error" ELSE completer[q]]
        /\ Goto(r, "waiting")
     \/ \E i \in 1..Len(queue) :
        /\ FirstDone(i)
        /\ completer' = [q \in Requests |->
             IF q \in Fails(1..(i - 1)) THEN "error" ELSE completer[q]]
        /\ Goto(r, "lost")
  /\ Release
  /\ UNCHANGED <<locals, access, server>>

----------------------------------------------------------------------------
\* The lifetime of an access token ends, while a request or the whole app sleeps.
Expire(token) ==
  /\ token \in ShortLived /\ token <= minted /\ token \notin expired
  /\ expired' = expired \cup {token}
  /\ UNCHANGED <<pc, shared, locals, storage, minted, revoked>>

\* Every await is answered: requests time out after 20 and 30 s, storage is local.
Answer(r) ==
  \/ Succeed(r) \/ Fail(r) \/ GiveUp(r) \/ Enqueue(r) \/ Deliver(r)
  \/ RefreshDone(r) \/ RefreshLost(r) \/ RefreshFails(r) \/ SaveAccess(r) \/ SaveRefresh(r)
  \/ StartLoop(r) \/ Repeat(r) \/ RepeatRefused(r) \/ ClearAccess(r) \/ ClearRefresh(r)

Next ==
  \/ \E r \in Requests : Issue(r) \/ Answer(r)
  \/ \E token \in ShortLived : Expire(token)

Spec == Init /\ [][Next]_vars

FairSpec == Spec /\ \A r \in Requests : WF_vars(Answer(r))

----------------------------------------------------------------------------
(* Properties.                                                             *)

\* The flag is up exactly while one handler refreshes, repeats or clears: two 401s,
\* however their awaits interleave, never refresh at the same time, and no way out
\* of the handler leaves the flag up behind it.
OneRefresher ==
  /\ isRefreshing <=> \E r \in Requests : pc[r] \in Leading
  /\ \A r1, r2 \in Requests : pc[r1] \in Leading /\ pc[r2] \in Leading => r1 = r2

\* A refresh token the server has revoked is never presented to it again, though it is
\* read before the queue is joined and the storage is written in between.
NoReplay == \A r \in Requests : pc[r] = "refreshing" => used[r] \notin revoked

\* Whoever clears the storage has failed to refresh the tokens in it, or has met a
\* queue that grew under its loop: no failed repetition logs the user out.
ClearsForAReason ==
  \A r \in Requests : pc[r] \in Failing => refresh = used[r] \/ Len(queue) > len[r]

\* Each refresh ends and lowers the flag, whatever fails in it, unless a repetition is
\* refused once more.
RefreshEnds == isRefreshing ~> ~isRefreshing \/ \E r \in Requests : pc[r] = "nested"

\* A request stays unanswered only if a repetition was refused, or a handler was lost to
\* a queue that grew under its loop.
AnsweredUnlessLost ==
  \A r \in Requests : pc[r] = "sent" ~>
    pc[r] \in {"ok", "failed"} \/ \E q \in Requests : pc[q] \in {"nested", "lost"}

\* refresh_interceptor.dart:7-8, "401 Unauthorized durumunda arka planda /auth/refresh
\* çağrısını yapar ve başarısız isteği otomatik olarak tekrarlar" (on 401 refreshes in
\* the background and repeats the failed request), as seen in one state: who waits has
\* an answer, or is in the queue of a refresh.
WaitersAreServed ==
  \A r \in Requests : pc[r] = "waiting" /\ completer[r] = "pending" =>
    isRefreshing /\ \E i \in 1..Len(queue) : queue[i] = r
=============================================================================
