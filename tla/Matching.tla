------------------------------ MODULE Matching ------------------------------
(***************************************************************************)
(* Swiping, matching and blocking, as concurrent database transactions     *)
(* (RecordSwipeAndCheckMatch in discovery_repository.go, BlockUser in       *)
(* moderation_service.go).                                                 *)
(*                                                                         *)
(* Every request is one transaction at READ COMMITTED, the level            *)
(* pgx.TxOptions{} asks for: each SQL statement is one action, reads what   *)
(* is committed when it runs plus the transaction's own rows, and waits for *)
(* a row that another open transaction has written.  A waiting statement is *)
(* modelled as one whose action is not enabled yet.                        *)
(*                                                                         *)
(* A match is a row of an UNORDERED pair: the code writes the pair as       *)
(* (LEAST, GREATEST) and the unique index compares it so.  BlockUser's      *)
(* statements on the status tables are in LiveStatus.  A request of a user  *)
(* about themselves returns before the transaction and is left out.        *)
(***************************************************************************)
EXTENDS Naturals, FiniteSets

CONSTANTS
  Users,
  Procs,    \* concurrent requests (handler goroutines), each used repeatedly
  NoReq     \* a goroutine that serves no request

Actions == {"like", "pass", "block"}
Pairs   == {pair \in SUBSET Users : \E u, v \in Users : u # v /\ pair = {u, v}}
Asks    == {r \in [by : Users, to : Users, what : Actions] : r.by # r.to}

ASSUME MatchingConstants == NoReq \notin Asks

VARIABLES
  swipes,     \* table swipes: the action of each (swiper, target), or "none"
  matches,    \* table matches: how many rows each pair has
  blocks,     \* table user_blocks: <<blocker, blocked>>
  req,        \* the request each goroutine serves
  pc,         \* the statement its transaction has executed last
  likedOnce,  \* history: who has ever had a like committed on whom
  overlapped  \* history: some request arrived while another was open

tables == <<swipes, matches, blocks, likedOnce, overlapped>>
vars   == <<tables, req, pc>>

SwipeStates == {"swiped", "single", "mutual", "inserted", "exists", "found"}
BlockStates == {"blocked", "deleted", "nothing"}
States      == {"idle", "begun"} \cup SwipeStates \cup BlockStates

TypeOK ==
  /\ swipes \in [Users \X Users -> {"none", "like", "pass"}]
  /\ matches \in [Pairs -> Nat]
  /\ blocks \subseteq Users \X Users
  /\ req \in [Procs -> Asks \cup {NoReq}]
  /\ pc \in [Procs -> States]
  /\ likedOnce \subseteq Users \X Users
  /\ overlapped \in BOOLEAN
  /\ \A p \in Procs :
       /\ pc[p] = "idle" <=> req[p] = NoReq
       /\ pc[p] \in SwipeStates => req[p].what \in {"like", "pass"}
       /\ pc[p] \in BlockStates => req[p].what = "block"
       /\ pc[p] \in SwipeStates \ {"swiped"} => req[p].what = "like"

Init ==
  /\ swipes = [e \in Users \X Users |-> "none"]
  /\ matches = [pair \in Pairs |-> 0]
  /\ blocks = {}
  /\ req = [p \in Procs |-> NoReq]
  /\ pc = [p \in Procs |-> "idle"]
  /\ likedOnce = {}
  /\ overlapped = FALSE

----------------------------------------------------------------------------
(* Who holds which row.                                                    *)

Edge(p) == <<req[p].by, req[p].to>>
Pair(p) == {req[p].by, req[p].to}

HoldsSwipe(p, e) == pc[p] \in SwipeStates /\ Edge(p) = e
HoldsBlock(p, e) == pc[p] \in BlockStates /\ Edge(p) = e
\* An inserted row, or a deleted one, of a transaction that is still open.
HoldsMatch(p, pair) == pc[p] \in {"inserted", "deleted"} /\ Pair(p) = pair

MatchRowFree(p) == \A q \in Procs \ {p} : ~HoldsMatch(q, Pair(p))

----------------------------------------------------------------------------
(* RecordSwipeAndCheckMatch.                                               *)

Arrive(p) ==
  /\ pc[p] = "idle"
  /\ \E r \in Asks : req' = [req EXCEPT ![p] = r]
  /\ pc' = [pc EXCEPT ![p] = "begun"]
  /\ overlapped' = (overlapped \/ \E q \in Procs : pc[q] # "idle")
  /\ UNCHANGED <<swipes, matches, blocks, likedOnce>>

\* INSERT INTO swipes ... ON CONFLICT DO UPDATE: in the table at commit.
UpsertSwipe(p) ==
  /\ pc[p] = "begun"
  /\ req[p].what \in {"like", "pass"}
  /\ \A q \in Procs \ {p} : ~HoldsSwipe(q, Edge(p))
  /\ pc' = [pc EXCEPT ![p] = "swiped"]
  /\ UNCHANGED <<tables, req>>

\* Mutation: any swipe counts.
LikedBack_AnySwipe(p) == swipes[<<req[p].to, req[p].by>>] # "none"

\* SELECT EXISTS(... action = 'like'): the other side's COMMITTED swipe.
LikedBack(p) == swipes[<<req[p].to, req[p].by>>] = "like"

CheckReciprocal(p) ==
  /\ pc[p] = "swiped"
  /\ req[p].what = "like"
  /\ pc' = [pc EXCEPT ![p] = IF LikedBack(p) THEN "mutual" ELSE "single"]
  /\ UNCHANGED <<tables, req>>

\* Mutation: no unique index, so no one to wait for.
InsertMatch_NoIndex(p) ==
  /\ pc[p] = "mutual"
  /\ pc' = [pc EXCEPT ![p] = IF matches[Pair(p)] = 0 THEN "inserted" ELSE "exists"]
  /\ UNCHANGED <<tables, req>>

\* INSERT INTO matches ... ON CONFLICT DO NOTHING RETURNING id: the index check
\* waits for an open transaction that inserted or deleted the pair's row.
InsertMatch(p) ==
  /\ pc[p] = "mutual"
  /\ MatchRowFree(p)
  /\ pc' = [pc EXCEPT ![p] = IF matches[Pair(p)] = 0 THEN "inserted" ELSE "exists"]
  /\ UNCHANGED <<tables, req>>

\* SELECT id FROM matches: the conflicting row, unless it is gone by now.
SelectExisting(p) ==
  /\ pc[p] = "exists"
  /\ matches[Pair(p)] > 0
  /\ pc' = [pc EXCEPT ![p] = "found"]
  /\ UNCHANGED <<tables, req>>

Finish(p) ==
  /\ req' = [req EXCEPT ![p] = NoReq]
  /\ pc'  = [pc EXCEPT ![p] = "idle"]

\* Mutation: the SELECT is tried again until it finds the row.
ExistingIsGone_Retries(p) ==
  /\ pc[p] = "exists"
  /\ matches[Pair(p)] = 0
  /\ UNCHANGED vars

\* pgx.ErrNoRows on that SELECT: an error, and the swipe is rolled back too.
ExistingIsGone(p) ==
  /\ pc[p] = "exists"
  /\ matches[Pair(p)] = 0
  /\ Finish(p)
  /\ UNCHANGED tables

SwipeReady(p) ==
  \/ pc[p] = "swiped" /\ req[p].what = "pass"
  \/ pc[p] \in {"single", "inserted", "found"}

CommitSwipe(p) ==
  /\ SwipeReady(p)
  /\ swipes' = [swipes EXCEPT ![Edge(p)] = req[p].what]
  /\ likedOnce' = likedOnce \cup (IF req[p].what = "like" THEN {Edge(p)} ELSE {})
  /\ matches' = IF pc[p] = "inserted"
                THEN [matches EXCEPT ![Pair(p)] = @ + 1]
                ELSE matches
  /\ Finish(p)
  /\ UNCHANGED <<blocks, overlapped>>

----------------------------------------------------------------------------
(* BlockUser.                                                              *)

\* INSERT INTO user_blocks ... ON CONFLICT DO NOTHING.
InsertBlock(p) ==
  /\ pc[p] = "begun"
  /\ req[p].what = "block"
  /\ \/ Edge(p) \in blocks
     \/ \A q \in Procs \ {p} : ~HoldsBlock(q, Edge(p))
  /\ pc' = [pc EXCEPT ![p] = "blocked"]
  /\ UNCHANGED <<tables, req>>

\* Mutation: the block forgets the match.
DeleteMatches_Forgets(p) ==
  /\ pc[p] = "blocked"
  /\ pc' = [pc EXCEPT ![p] = "nothing"]
  /\ UNCHANGED <<tables, req>>

\* DELETE FROM matches: only rows that are committed when it runs; one that
\* another transaction is deleting is waited for.
DeleteMatches(p) ==
  /\ pc[p] = "blocked"
  /\ \/ matches[Pair(p)] = 0 /\ pc' = [pc EXCEPT ![p] = "nothing"]
     \/ /\ matches[Pair(p)] > 0
        /\ MatchRowFree(p)
        /\ pc' = [pc EXCEPT ![p] = "deleted"]
  /\ UNCHANGED <<tables, req>>

CommitBlock(p) ==
  /\ pc[p] \in {"deleted", "nothing"}
  /\ blocks' = blocks \cup {Edge(p)}
  /\ matches' = IF pc[p] = "deleted" THEN [matches EXCEPT ![Pair(p)] = 0] ELSE matches
  /\ Finish(p)
  /\ UNCHANGED <<swipes, likedOnce, overlapped>>

----------------------------------------------------------------------------
\* A statement or the commit fails: client gone (the request's context is
\* cancelled), connection lost, deadlock victim, server killed.  The deferred
\* tx.Rollback, or the database by itself, undoes the transaction.
Abort(p) ==
  /\ pc[p] # "idle"
  /\ Finish(p)
  /\ UNCHANGED tables

Statement(p) ==
  \/ UpsertSwipe(p) \/ CheckReciprocal(p) \/ InsertMatch(p) \/ SelectExisting(p)
  \/ ExistingIsGone(p) \/ CommitSwipe(p)
  \/ InsertBlock(p) \/ DeleteMatches(p) \/ CommitBlock(p)

Next == \E p \in Procs : Arrive(p) \/ Statement(p) \/ Abort(p)

Spec == Init /\ [][Next]_vars

\* A transaction whose next statement is granted again and again executes it: the
\* database queues those who wait for a row.  No request has to arrive or to fail.
FairSpec == Spec /\ \A p \in Procs : SF_vars(Statement(p))

----------------------------------------------------------------------------
(* Properties.                                                             *)

\* Two users never have two matches, whatever races to insert and to delete it.
OneMatchPerPair == \A pair \in Pairs : matches[pair] <= 1

\* A match rests on a committed like in both directions: no order of swipes,
\* changed minds and rolled-back requests makes one out of a single like.
MatchNeedsBothLikes ==
  \A u, v \in Users : u # v /\ matches[{u, v}] > 0 =>
    <<u, v>> \in likedOnce /\ <<v, u>> \in likedOnce

\* A match is undone only by one of its users blocking the other: not by a later
\* dislike, by a rolled-back request, or by a block of anyone else.
UnmatchedOnlyByBlock ==
  [][\A u, v \in Users : u # v /\ matches'[{u, v}] < matches[{u, v}] =>
       <<u, v>> \in blocks' \/ <<v, u>> \in blocks']_vars

\* Every request gets an answer: no cycle of transactions that wait for each
\* other's rows, among swipes in both directions and blocks in both directions.
RequestsEnd == \A p \in Procs : pc[p] # "idle" ~> pc[p] = "idle"

Quiet(pair) == \A p \in Procs : pc[p] # "idle" => Pair(p) # pair

\* discovery_repository.dart says of a like "Eşleşme varsa isMatch true döner" (if
\* there is a match, isMatch is returned true): once two users like each other and
\* no request of theirs is open, they are matched, unless one blocked the other.
MutualLikesMatch ==
  \A u, v \in Users :
    (/\ u # v /\ Quiet({u, v})
     /\ swipes[<<u, v>>] = "like" /\ swipes[<<v, u>>] = "like"
     /\ <<u, v>> \notin blocks /\ <<v, u>> \notin blocks)
    => matches[{u, v}] = 1

\* moderation_service.go:39, "Aralarındaki mevcut eşleşmeleri temizle" (clear the
\* matches between them): requests one at a time, when a block commits, the pair has
\* no match.  (A like that commits between the DELETE and the block's commit leaves one.)
BlockClearsMatchAlone ==
  [][~overlapped => \A p \in Procs : CommitBlock(p) => matches'[Pair(p)] = 0]_vars
=============================================================================
