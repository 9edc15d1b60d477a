----------------------------- MODULE LiveStatus -----------------------------
(***************************************************************************)
(* Live statuses: posting one, joining it, and the poster accepting one     *)
(* join request, which closes the status and starts a live call            *)
(* (status_repository.go, status_handler.go); and what a block does to the  *)
(* requests and statuses of two users (moderation_service.go:48-79).        *)
(*                                                                         *)
(* Accepting and blocking are transactions of several statements at READ    *)
(* COMMITTED.  A statement chooses its rows in the snapshot taken when it    *)
(* starts, then locks them one by one, waiting for a row another            *)
(* transaction holds; when the row changed meanwhile, PostgreSQL tests the  *)
(* condition again on the new version of THAT row, but not on other tables  *)
(* of the statement.  Creating and joining are single statements.           *)
(***************************************************************************)
EXTENDS Naturals, FiniteSets

CONSTANTS
  Statuses,
  Users,
  Poster,   \* statuses.user_id
  Procs,    \* concurrent accept and block requests
  NoReq

Rows    == Statuses \X Users                    \* status_requests, by unique key
Accepts == [what : {"accept"}, row : Rows]      \* by the poster: others match no row
\* A block of two users neither of whom posts touches no row of these tables.
Blocks  == {b \in [what : {"block"}, pair : SUBSET Users] :
              Cardinality(b.pair) = 2 /\ \E s \in Statuses : Poster[s] \in b.pair}
PairOf(row) == {Poster[row[1]], row[2]}

ASSUME StatusConstants ==
  /\ Poster \in [Statuses -> Users]
  /\ NoReq \notin Accepts \cup Blocks

VARIABLES
  status,    \* statuses: absent, active or closed (is_active)
  expired,   \* expires_at <= NOW()
  request,   \* status_requests.state of each row, or "none"
  req,       \* the request each goroutine serves
  pc,        \* the statement its transaction stands at
  rows,      \* request rows its transaction holds
  held,      \* status rows its transaction holds
  todo,      \* rows the statement chose in its snapshot and has not locked yet
  live,      \* "live_call_ready" sent: the status and the requester
  rejoined   \* history: some existing request was reset to pending

tables == <<status, expired, request, live, rejoined>>
txs    == <<req, pc, rows, held, todo>>
vars   == <<tables, txs>>

TypeOK ==
  /\ status \in [Statuses -> {"none", "active", "closed"}]
  /\ expired \in [Statuses -> BOOLEAN]
  /\ request \in [Rows -> {"none", "pending", "accepted", "rejected"}]
  /\ req \in [Procs -> Accepts \cup Blocks \cup {NoReq}]
  /\ pc \in [Procs -> {"idle", "begun", "looked", "locked", "ready", "rejecting",
                       "closing", "accepted"}]
  /\ rows \in [Procs -> SUBSET Rows]
  /\ held \in [Procs -> SUBSET Statuses]
  /\ todo \in [Procs -> SUBSET (Rows \cup Statuses)]
  /\ live \subseteq Rows
  /\ \A p \in Procs : pc[p] = "idle" =>
       req[p] = NoReq /\ rows[p] = {} /\ held[p] = {} /\ todo[p] = {}
  /\ rejoined \in BOOLEAN

Init ==
  /\ status = [s \in Statuses |-> "none"]
  /\ expired = [s \in Statuses |-> FALSE]
  /\ request = [r \in Rows |-> "none"]
  /\ req = [p \in Procs |-> NoReq]
  /\ pc = [p \in Procs |-> "idle"]
  /\ rows = [p \in Procs |-> {}]
  /\ held = [p \in Procs |-> {}]
  /\ todo = [p \in Procs |-> {}]
  /\ live = {}
  /\ rejoined = FALSE

----------------------------------------------------------------------------
(* Locks.                                                                  *)

RowFree(p, r)    == \A q \in Procs \ {p} : r \notin rows[q]
StatusFree(p, s) == \A q \in Procs \ {p} : s \notin held[q]
\* An accept holds the status FOR UPDATE, which a foreign-key check waits for; a
\* block's UPDATE takes the weaker lock, which it does not.
LockedForUpdate(s) == \E q \in Procs : s \in held[q] /\ req[q].what = "accept"

\* COMMIT and ROLLBACK release whatever the transaction holds.
Release(p) ==
  /\ rows' = [rows EXCEPT ![p] = {}]
  /\ held' = [held EXCEPT ![p] = {}]
  /\ todo' = [todo EXCEPT ![p] = {}]

Finish(p) ==
  /\ req' = [req EXCEPT ![p] = NoReq]
  /\ pc' = [pc EXCEPT ![p] = "idle"]

Goto(p, label) == pc' = [pc EXCEPT ![p] = label]

----------------------------------------------------------------------------
(* CreateStatus and CreateStatusRequest.                                   *)

CreateStatus(s) ==
  /\ status[s] = "none"
  /\ status' = [status EXCEPT ![s] = "active"]
  /\ UNCHANGED <<expired, request, live, rejoined, txs>>

Expire(s) ==
  /\ status[s] # "none"
  /\ ~expired[s]
  /\ expired' = [expired EXCEPT ![s] = TRUE]
  /\ UNCHANGED <<status, request, live, rejoined, txs>>

\* INSERT ... ON CONFLICT DO UPDATE SET state = 'pending', whatever the state of
\* the status and of the request.  It waits for a held row; only a NEW row makes
\* the foreign-key check.
Join(r) ==
  /\ status[r[1]] # "none"
  /\ \A q \in Procs : r \notin rows[q]
  /\ request[r] = "none" => ~LockedForUpdate(r[1])
  /\ request' = [request EXCEPT ![r] = "pending"]
  /\ rejoined' = (rejoined \/ request[r] # "none")
  /\ UNCHANGED <<status, expired, live, txs>>

----------------------------------------------------------------------------
(* AcceptRequestAndCloseStatus.                                            *)

Arrive(p) ==
  /\ pc[p] = "idle"
  /\ \E q \in Accepts \cup Blocks : req' = [req EXCEPT ![p] = q]
  /\ Goto(p, "begun")
  /\ UNCHANGED <<tables, rows, held, todo>>

\* SELECT ... JOIN statuses ... FOR UPDATE OF sr: its snapshot.
Acceptable(r) ==
  /\ request[r] = "pending"
  /\ status[r[1]] = "active"
  /\ ~expired[r[1]]

Look(p) ==
  /\ pc[p] = "begun"
  /\ req[p].what = "accept"
  /\ Acceptable(req[p].row)
  /\ Goto(p, "looked")
  /\ UNCHANGED <<tables, req, rows, held, todo>>

\* Mutation: no FOR UPDATE, the row is read and not held.
LockRequest_NoLock(p) ==
  /\ pc[p] = "looked"
  /\ request[req[p].row] = "pending"
  /\ Goto(p, "locked")
  /\ UNCHANGED <<tables, req, rows, held, todo>>

\* The same statement locks the request and tests it again if it has changed: its
\* own state, not the status it was joined with.
LockRequest(p) ==
  /\ pc[p] = "looked"
  /\ RowFree(p, req[p].row)
  /\ request[req[p].row] = "pending"
  /\ rows' = [rows EXCEPT ![p] = {req[p].row}]
  /\ Goto(p, "locked")
  /\ UNCHANGED <<tables, req, held, todo>>

\* No such row: pgx.ErrNoRows, "load request/status".
Refuse(p) ==
  /\ \/ pc[p] = "begun" /\ req[p].what = "accept" /\ ~Acceptable(req[p].row)
     \/ /\ pc[p] = "looked"
        /\ RowFree(p, req[p].row)
        /\ request[req[p].row] # "pending"
  /\ Finish(p)
  /\ Release(p)
  /\ UNCHANGED tables

\* Mutation: no FOR UPDATE, a new join need not wait.
LockStatus_NoLock(p) ==
  /\ pc[p] = "locked"
  /\ StatusFree(p, req[p].row[1])
  /\ Goto(p, "ready")
  /\ UNCHANGED <<tables, req, rows, held, todo>>

\* SELECT id FROM statuses ... FOR UPDATE, by id only.
LockStatus(p) ==
  /\ pc[p] = "locked"
  /\ StatusFree(p, req[p].row[1])
  /\ held' = [held EXCEPT ![p] = {req[p].row[1]}]
  /\ Goto(p, "ready")
  /\ UNCHANGED <<tables, req, rows, todo>>

\* Mutation: the other requests of the status are left alone.
Others_None(p) == {}

\* UPDATE ... 'accepted' on the row it holds, then the UPDATE that rejects the
\* status's other pending requests starts.
Others(p) == {r \in Rows : r[1] = req[p].row[1] /\ r # req[p].row /\ request[r] = "pending"}

AcceptRow(p) ==
  /\ pc[p] = "ready"
  /\ todo' = [todo EXCEPT ![p] = Others(p)]
  /\ Goto(p, "rejecting")
  /\ UNCHANGED <<tables, req, rows, held>>

\* That UPDATE, and the one of a block, locks the next of its rows, and rejects it
\* if it is still pending.
RejectOne(p) ==
  /\ pc[p] = "rejecting"
  /\ \E r \in todo[p] :
       /\ RowFree(p, r)
       /\ rows' = [rows EXCEPT ![p] = IF request[r] = "pending" THEN @ \cup {r} ELSE @]
       /\ todo' = [todo EXCEPT ![p] = @ \ {r}]
  /\ UNCHANGED <<tables, req, pc, held>>

\* Mutation: the status stays active.
CommitAccept_StaysActive(p) ==
  /\ pc[p] = "rejecting"
  /\ req[p].what = "accept"
  /\ todo[p] = {}
  /\ request' = [r \in Rows |-> IF r = req[p].row THEN "accepted"
                                ELSE IF r \in rows[p] THEN "rejected" ELSE request[r]]
  /\ Release(p)
  /\ Goto(p, "accepted")
  /\ UNCHANGED <<status, expired, live, rejoined, req>>

\* UPDATE statuses SET is_active = FALSE on the row it holds, and COMMIT.
CommitAccept(p) ==
  /\ pc[p] = "rejecting"
  /\ req[p].what = "accept"
  /\ todo[p] = {}
  /\ request' = [r \in Rows |-> IF r = req[p].row THEN "accepted"
                                ELSE IF r \in rows[p] THEN "rejected" ELSE request[r]]
  /\ status' = [status EXCEPT ![req[p].row[1]] = "closed"]
  /\ Release(p)
  /\ Goto(p, "accepted")
  /\ UNCHANGED <<expired, live, rejoined, req>>

\* The handler makes the two tokens and signals both users.
Announce(p) ==
  /\ pc[p] = "accepted"
  /\ live' = live \cup {req[p].row}
  /\ Finish(p)
  /\ UNCHANGED <<status, expired, request, rejoined, rows, held, todo>>

----------------------------------------------------------------------------
(* BlockUser, its two statements on the status tables.                     *)

BlockRejects(p) ==
  /\ pc[p] = "begun"
  /\ req[p].what = "block"
  /\ todo' = [todo EXCEPT ![p] =
                {r \in Rows : PairOf(r) = req[p].pair /\ request[r] = "pending"}]
  /\ Goto(p, "rejecting")
  /\ UNCHANGED <<tables, req, rows, held>>

\* UPDATE statuses ... EXISTS a rejected request of the pair: committed, or one
\* this transaction has just rejected.
BlockCloses(p) ==
  /\ pc[p] = "rejecting"
  /\ req[p].what = "block"
  /\ todo[p] = {}
  /\ todo' = [todo EXCEPT ![p] =
                {s \in Statuses : /\ status[s] = "active"
                                  /\ \E u \in Users :
                                       /\ PairOf(<<s, u>>) = req[p].pair
                                       /\ request[<<s, u>>] = "rejected" \/ <<s, u>> \in rows[p]}]
  /\ Goto(p, "closing")
  /\ UNCHANGED <<tables, req, rows, held>>

CloseOne(p) ==
  /\ pc[p] = "closing"
  /\ \E s \in todo[p] :
       /\ StatusFree(p, s)
       /\ held' = [held EXCEPT ![p] = IF status[s] = "active" THEN @ \cup {s} ELSE @]
       /\ todo' = [todo EXCEPT ![p] = @ \ {s}]
  /\ UNCHANGED <<tables, req, pc, rows>>

CommitBlock(p) ==
  /\ pc[p] = "closing"
  /\ todo[p] = {}
  /\ request' = [r \in Rows |-> IF r \in rows[p] THEN "rejected" ELSE request[r]]
  /\ status' = [s \in Statuses |-> IF s \in held[p] THEN "closed" ELSE status[s]]
  /\ Finish(p)
  /\ Release(p)
  /\ UNCHANGED <<expired, live, rejoined>>

----------------------------------------------------------------------------
(* Failures.                                                               *)

\* Mutation: no deferred rollback, the locks stay with the abandoned transaction.
Abort_NoRollback(p) ==
  /\ pc[p] # "idle"
  /\ Goto(p, "idle")
  /\ UNCHANGED <<tables, req, rows, held, todo>>

\* A statement fails, the client goes away (the request's context is cancelled), or
\* the server dies: rolled back.  After the commit a death only loses the signals.
Abort(p) ==
  /\ pc[p] # "idle"
  /\ Finish(p)
  /\ Release(p)
  /\ UNCHANGED tables

\* p cannot end before q does.
WaitsFor(p, q) ==
  /\ q # p
  /\ \/ pc[p] = "looked" /\ req[p].row \in rows[q]
     \/ pc[p] = "locked" /\ req[p].row[1] \in held[q]
     \/ pc[p] = "rejecting" /\ todo[p] \cap rows[q] # {}
     \/ pc[p] = "closing" /\ todo[p] \cap held[q] # {}

\* The database aborts one of a set of transactions that all wait for each other.
DeadlockVictim(p) ==
  /\ \E S \in SUBSET Procs : p \in S /\ \A x \in S : \E y \in S : WaitsFor(x, y)
  /\ Abort(p)

Statement(p) ==
  \/ Look(p) \/ LockRequest(p) \/ Refuse(p) \/ LockStatus(p) \/ AcceptRow(p)
  \/ RejectOne(p) \/ CommitAccept(p) \/ Announce(p)
  \/ BlockRejects(p) \/ BlockCloses(p) \/ CloseOne(p) \/ CommitBlock(p)

Next ==
  \/ \E s \in Statuses : CreateStatus(s) \/ Expire(s)
  \/ \E r \in Rows : Join(r)
  \/ \E p \in Procs : Arrive(p) \/ Statement(p) \/ Abort(p)

Spec == Init /\ [][Next]_vars

\* Whoever waits for a row is queued for it, so a statement granted again and again
\* is executed, or ended by the deadlock check, which runs.
FairSpec ==
  /\ Spec
  /\ \A p \in Procs : SF_vars(Statement(p) \/ DeadlockVictim(p))

----------------------------------------------------------------------------
(* Properties.                                                             *)

\* While a status is active, all its requests are open: a decision on one, by an
\* accept or by a block, always closes the status in the same commit.
ActiveIsUndecided ==
  \A r \in Rows : status[r[1]] = "active" => request[r] \in {"none", "pending"}

\* Only a request that is pending at the very commit becomes accepted: no re-join,
\* rejection or second accept slips in between the check and the commit.
AcceptsPending ==
  [][\A r \in Rows : request[r] # "accepted" /\ request'[r] = "accepted" =>
       request[r] = "pending"]_vars

\* status_repository.go:139, "Kilitle ve doğrula: istek + ait olduğu status" (lock
\* and verify: the request and its status): an active status is accepted once, so
\* its room live_status_<id> has one requester.
OnePartner ==
  \A r1, r2 \in live : r1[1] = r2[1] => r1 = r2

\* As long as no one joins the same status twice, that is so, however accepts,
\* blocks, rollbacks and deadlock victims interleave.
OnePartnerUnlessRejoined == rejoined \/ OnePartner

\* Accepts and blocks implement Decisions: the statements of a transaction, its
\* snapshots older than its locks, its waits and its rollbacks amount to one
\* decision, taken with the commit by what is pending then.
AtOnce == INSTANCE Decisions
DecidesAtOnce == AtOnce!Spec

\* Every accept and every block ends: transactions that wait for each other (two
\* accepts of one status; an accept and a block) are broken up.
RequestsEnd == \A p \in Procs : pc[p] # "idle" ~> pc[p] = "idle"
=============================================================================
