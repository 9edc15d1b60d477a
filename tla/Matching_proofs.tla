--------------------------- MODULE Matching_proofs ---------------------------
(***************************************************************************)
(* Safety of the matching transactions, for every set of users and any     *)
(* number of overlapping requests.                                         *)
(***************************************************************************)
EXTENDS Matching, TLAPS

\* A pair's row is written by at most one open transaction: an insert and a
\* delete both wait for it to be free.
OneWriter ==
  \A p, q \in Procs : \A pair \in Pairs :
    HoldsMatch(p, pair) /\ HoldsMatch(q, pair) => p = q

\* Whoever has inserted a row and not committed found none, and none has come.
InsertedIntoNone == \A p \in Procs : pc[p] = "inserted" => matches[Pair(p)] = 0

\* A swipe that goes for a match has read a like that was once committed.
ReadALike ==
  /\ \A e \in Users \X Users : swipes[e] = "like" => e \in likedOnce
  /\ \A p \in Procs : pc[p] \in {"mutual", "inserted", "exists", "found"} =>
       <<req[p].to, req[p].by>> \in likedOnce

\* The inductive invariant: OneMatchPerPair alone is not inductive, a commit adds
\* a row without looking.
MatchInv ==
  /\ TypeOK /\ OneMatchPerPair /\ MatchNeedsBothLikes
  /\ OneWriter /\ InsertedIntoNone /\ ReadALike

LEMMA InitInv == Init => MatchInv
<1> SUFFICES ASSUME Init PROVE MatchInv
  OBVIOUS
<1> USE DEF Init
<1>1. TypeOK
  BY MatchingConstants DEF TypeOK, States, SwipeStates, BlockStates
<1>2. OneMatchPerPair /\ MatchNeedsBothLikes
  BY DEF OneMatchPerPair, MatchNeedsBothLikes, Pairs
<1>3. OneWriter /\ InsertedIntoNone /\ ReadALike
  BY DEF OneWriter, HoldsMatch, InsertedIntoNone, ReadALike
<1> QED BY <1>1, <1>2, <1>3 DEF MatchInv

\* The users of a request are two different users.
LEMMA ReqUsers ==
  ASSUME TypeOK, NEW p \in Procs, pc[p] # "idle"
  PROVE  /\ req[p] \in Asks /\ req[p].by \in Users /\ req[p].to \in Users
         /\ req[p].by # req[p].to /\ req[p].what \in Actions
         /\ Pair(p) \in Pairs
         /\ Edge(p) \in Users \X Users
<1>1. req[p] \in Asks
  BY DEF TypeOK
<1>2. /\ req[p].by \in Users /\ req[p].to \in Users
      /\ req[p].by # req[p].to /\ req[p].what \in Actions
  BY <1>1 DEF Asks
<1>3. Pair(p) \in Pairs
  BY <1>2 DEF Pair, Pairs
<1>4. Edge(p) \in Users \X Users
  BY <1>2 DEF Edge
<1> QED BY <1>1, <1>2, <1>3, <1>4

\* A statement that only moves its own transaction on, and neither inserts nor
\* deletes a match row.
LEMMA MoveOn ==
  ASSUME MatchInv, NEW p \in Procs, NEW s \in States \ {"idle", "inserted", "deleted"},
         pc[p] # "idle", pc' = [pc EXCEPT ![p] = s], UNCHANGED <<tables, req>>,
         s \in SwipeStates => req[p].what \in {"like", "pass"},
         s \in BlockStates => req[p].what = "block",
         s \in SwipeStates \ {"swiped"} => req[p].what = "like",
         s \in {"mutual", "exists", "found"} => <<req[p].to, req[p].by>> \in likedOnce
  PROVE  MatchInv'
<1> USE DEF MatchInv, tables
<1>1. TypeOK'
  BY DEF TypeOK
<1>2. OneMatchPerPair' /\ MatchNeedsBothLikes'
  BY DEF OneMatchPerPair, MatchNeedsBothLikes
<1>3. OneWriter' /\ InsertedIntoNone'
  BY DEF OneWriter, HoldsMatch, InsertedIntoNone, Pair, TypeOK
<1>4. ReadALike'
  BY DEF ReadALike, TypeOK
<1> QED BY <1>1, <1>2, <1>3, <1>4

\* The statements that take the pair's row.
LEMMA TakeRow ==
  ASSUME MatchInv, NEW p \in Procs, InsertMatch(p) \/ DeleteMatches(p)
  PROVE  MatchInv'
<1> USE DEF MatchInv, tables, InsertMatch, DeleteMatches
<1>1. Pair(p) \in Pairs /\ pc[p] # "idle" /\ matches[Pair(p)] \in Nat
  BY ReqUsers DEF TypeOK
<1>2. TypeOK'
  BY DEF TypeOK, States, SwipeStates, BlockStates
<1>3. OneMatchPerPair' /\ MatchNeedsBothLikes'
  BY DEF OneMatchPerPair, MatchNeedsBothLikes
<1>4. OneWriter'
  <2>1. \A q \in Procs : \A pair \in Pairs : q # p =>
          (HoldsMatch(q, pair)' <=> HoldsMatch(q, pair))
    BY DEF HoldsMatch, Pair, TypeOK
  <2>2. \A pair \in Pairs : HoldsMatch(p, pair)' =>
          pair = Pair(p) /\ MatchRowFree(p)
    BY DEF HoldsMatch, Pair, TypeOK
  <2>3. \A pair \in Pairs : HoldsMatch(p, pair)' =>
          \A q \in Procs : q # p => ~HoldsMatch(q, pair)'
    BY <2>1, <2>2 DEF MatchRowFree
  <2> QED BY <2>1, <2>3 DEF OneWriter
<1>5. InsertedIntoNone'
  BY <1>1 DEF InsertedIntoNone, Pair, TypeOK
<1>6. ReadALike'
  BY DEF ReadALike, TypeOK
<1> QED BY <1>2, <1>3, <1>4, <1>5, <1>6

\* Arriving and rolling back: the tables stay, the transaction holds nothing.
LEMMA HoldNothing ==
  ASSUME MatchInv, NEW p \in Procs, Arrive(p) \/ ExistingIsGone(p) \/ Abort(p)
  PROVE  MatchInv'
<1> USE DEF MatchInv
<1>1. UNCHANGED <<swipes, matches, blocks, likedOnce>> /\ overlapped' \in BOOLEAN
  BY DEF Arrive, ExistingIsGone, Abort, Finish, tables, TypeOK
<1>2. PICK r \in Asks \cup {NoReq} :
        /\ req' = [req EXCEPT ![p] = r]
        /\ pc' = [pc EXCEPT ![p] = IF r = NoReq THEN "idle" ELSE "begun"]
  <2>1. CASE Arrive(p)
    BY <2>1, MatchingConstants DEF Arrive, MatchingConstants
  <2> QED BY <2>1 DEF ExistingIsGone, Abort, Finish
<1>3. TypeOK'
  BY <1>1, <1>2 DEF TypeOK, States, SwipeStates, BlockStates
<1>4. OneMatchPerPair' /\ MatchNeedsBothLikes'
  BY <1>1 DEF OneMatchPerPair, MatchNeedsBothLikes
<1>5. OneWriter' /\ InsertedIntoNone'
  BY <1>1, <1>2 DEF OneWriter, HoldsMatch, InsertedIntoNone, Pair, TypeOK
<1>6. ReadALike'
  BY <1>1, <1>2 DEF ReadALike, TypeOK
<1> QED BY <1>3, <1>4, <1>5, <1>6

LEMMA CommitSwipeInv ==
  ASSUME MatchInv, NEW p \in Procs, CommitSwipe(p)
  PROVE  MatchInv'
<1> USE DEF MatchInv, CommitSwipe, SwipeReady, Finish
<1>1. pc[p] # "idle" /\ pc[p] \in SwipeStates
  BY DEF SwipeStates
<1>2. /\ Pair(p) \in Pairs /\ Edge(p) \in Users \X Users
      /\ req[p].what \in {"like", "pass"}
      /\ pc[p] = "inserted" => req[p].what = "like"
  BY <1>1, ReqUsers DEF TypeOK, SwipeStates
<1>3. TypeOK'
  BY <1>2, MatchingConstants DEF TypeOK, States, SwipeStates, BlockStates
<1>4. OneMatchPerPair'
  BY <1>2 DEF OneMatchPerPair, InsertedIntoNone, TypeOK
<1>5. MatchNeedsBothLikes'
  <2> SUFFICES ASSUME NEW u \in Users, NEW v \in Users, u # v, matches'[{u, v}] > 0
               PROVE  <<u, v>> \in likedOnce' /\ <<v, u>> \in likedOnce'
    BY DEF MatchNeedsBothLikes
  <2>1. {u, v} \in Pairs
    BY DEF Pairs
  <2>2. CASE matches[{u, v}] > 0
    BY <2>2 DEF MatchNeedsBothLikes
  <2>3. CASE ~(matches[{u, v}] > 0)
    <3>1. pc[p] = "inserted" /\ {u, v} = Pair(p)
      BY <2>1, <2>3, <1>2 DEF TypeOK
    <3>2. Edge(p) \in likedOnce' /\ <<req[p].to, req[p].by>> \in likedOnce'
      BY <3>1, <1>2 DEF ReadALike
    <3> QED BY <3>1, <3>2 DEF Pair, Edge
  <2> QED BY <2>2, <2>3
<1>6. OneWriter'
  BY DEF OneWriter, HoldsMatch, Pair, TypeOK
<1>7. InsertedIntoNone'
  <2> SUFFICES ASSUME NEW q \in Procs, pc'[q] = "inserted" PROVE matches'[Pair(q)'] = 0
    BY DEF InsertedIntoNone
  <2>1. q # p /\ pc[q] = "inserted" /\ req'[q] = req[q] /\ Pair(q)' = Pair(q)
    BY DEF TypeOK, Pair
  <2>2. matches[Pair(q)] = 0 /\ Pair(q) \in Pairs
    BY <2>1, ReqUsers DEF InsertedIntoNone
  <2>3. pc[p] = "inserted" => Pair(p) # Pair(q)
    BY <2>1, <2>2 DEF OneWriter, HoldsMatch
  <2> QED BY <2>1, <2>2, <2>3, <1>2 DEF TypeOK
<1>8. ReadALike'
  BY <1>2 DEF ReadALike, TypeOK
<1> QED BY <1>3, <1>4, <1>5, <1>6, <1>7, <1>8

LEMMA CommitBlockInv ==
  ASSUME MatchInv, NEW p \in Procs, CommitBlock(p)
  PROVE  MatchInv'
<1> USE DEF MatchInv, CommitBlock, Finish
<1>1. Pair(p) \in Pairs /\ Edge(p) \in Users \X Users
  BY ReqUsers
<1>2. matches' \in [Pairs -> Nat] /\ \A pair \in Pairs : matches'[pair] \in {matches[pair], 0}
  BY <1>1 DEF TypeOK
<1>3. TypeOK'
  BY <1>1, <1>2, MatchingConstants DEF TypeOK, States, SwipeStates, BlockStates
<1>4. OneMatchPerPair'
  BY <1>2 DEF OneMatchPerPair, TypeOK
<1>5. MatchNeedsBothLikes'
  BY <1>2 DEF MatchNeedsBothLikes, Pairs
<1>6. OneWriter'
  BY DEF OneWriter, HoldsMatch, Pair, TypeOK
<1>7. InsertedIntoNone'
  BY <1>2, ReqUsers DEF InsertedIntoNone, Pair, TypeOK
<1>8. ReadALike'
  BY DEF ReadALike, TypeOK
<1> QED BY <1>3, <1>4, <1>5, <1>6, <1>7, <1>8

LEMMA StepInv == MatchInv /\ [Next]_vars => MatchInv'
<1> SUFFICES ASSUME MatchInv, [Next]_vars PROVE MatchInv'
  OBVIOUS
<1>1. CASE UNCHANGED vars
  BY <1>1 DEF vars, tables, MatchInv, TypeOK, OneMatchPerPair, MatchNeedsBothLikes, OneWriter,
     HoldsMatch, InsertedIntoNone, ReadALike, Pair
<1>2. ASSUME NEW p \in Procs, UpsertSwipe(p) PROVE MatchInv'
  BY <1>2, MoveOn DEF UpsertSwipe, States, SwipeStates, BlockStates
<1>3. ASSUME NEW p \in Procs, CheckReciprocal(p) PROVE MatchInv'
  <2>1. LikedBack(p) => <<req[p].to, req[p].by>> \in likedOnce
    BY <1>3, ReqUsers DEF CheckReciprocal, LikedBack, MatchInv, ReadALike
  <2> QED BY <1>3, <2>1, MoveOn DEF CheckReciprocal, States, SwipeStates, BlockStates
<1>4. ASSUME NEW p \in Procs, SelectExisting(p) PROVE MatchInv'
  <2>1. <<req[p].to, req[p].by>> \in likedOnce /\ req[p].what = "like"
    BY <1>4 DEF SelectExisting, MatchInv, ReadALike, TypeOK, SwipeStates
  <2> QED BY <1>4, <2>1, MoveOn DEF SelectExisting, States, SwipeStates, BlockStates
<1>5. ASSUME NEW p \in Procs, InsertBlock(p) PROVE MatchInv'
  BY <1>5, MoveOn DEF InsertBlock, States, SwipeStates, BlockStates
<1> QED BY <1>1, <1>2, <1>3, <1>4, <1>5, TakeRow, HoldNothing, CommitSwipeInv, CommitBlockInv
        DEF Next, Statement

LEMMA MatchingStaysSafe == Spec => []MatchInv
  BY InitInv, StepInv, PTL DEF Spec

\* The tables and the transactions are what the schema and the code declare.
THEOREM MatchingTypes == Spec => []TypeOK
  BY MatchingStaysSafe, PTL DEF MatchInv

\* However swipes and blocks overlap, a pair has one match at most ...
THEOREM MatchesAreUnique == Spec => []OneMatchPerPair
  BY MatchingStaysSafe, PTL DEF MatchInv

\* ... and it rests on two likes that were committed.
THEOREM MatchesRestOnLikes == Spec => []MatchNeedsBothLikes
  BY MatchingStaysSafe, PTL DEF MatchInv

\* Only a block between its two users undoes a match.
THEOREM OnlyBlocksUnmatch == Spec => UnmatchedOnlyByBlock
<1> DEFINE OnlyByBlock == \A u, v \in Users : u # v /\ matches'[{u, v}] < matches[{u, v}] =>
                            <<u, v>> \in blocks' \/ <<v, u>> \in blocks'
<1>1. MatchInv /\ [Next]_vars => OnlyByBlock
  <2> SUFFICES ASSUME MatchInv, [Next]_vars, NEW u \in Users, NEW v \in Users, u # v,
                      matches'[{u, v}] < matches[{u, v}]
               PROVE  <<u, v>> \in blocks' \/ <<v, u>> \in blocks'
    OBVIOUS
  <2>1. {u, v} \in Pairs /\ matches[{u, v}] \in Nat
    BY DEF Pairs, MatchInv, TypeOK
  <2>2. matches' # matches
    BY <2>1
  <2>3. PICK p \in Procs : CommitSwipe(p) \/ CommitBlock(p)
    <3>1. PICK p \in Procs : Arrive(p) \/ Statement(p) \/ Abort(p)
      BY <2>2 DEF Next, vars, tables
    <3>2. UNCHANGED matches \/ CommitSwipe(p) \/ CommitBlock(p)
      BY <3>1 DEF Statement, Arrive, UpsertSwipe, CheckReciprocal, InsertMatch,
         SelectExisting, ExistingIsGone, InsertBlock, DeleteMatches, Abort, tables
    <3> QED BY <2>2, <3>2
  <2>4. CASE CommitSwipe(p)
    <3>1. \/ matches' = matches
          \/ matches' = [matches EXCEPT ![Pair(p)] = @ + 1]
      BY <2>4 DEF CommitSwipe
    <3>2. matches'[{u, v}] \in {matches[{u, v}], matches[{u, v}] + 1}
      BY <2>1, <3>1 DEF MatchInv, TypeOK
    <3> QED BY <2>1, <3>2
  <2>5. CASE CommitBlock(p)
    <3>1. Edge(p) \in blocks'
      BY <2>5 DEF CommitBlock
    <3>2. Pair(p) = {u, v}
      BY <2>1, <2>5 DEF CommitBlock, MatchInv, TypeOK
    <3>3. Edge(p) = <<u, v>> \/ Edge(p) = <<v, u>>
      BY <3>2 DEF Pair, Edge
    <3> QED BY <3>1, <3>3
  <2> QED BY <2>3, <2>4, <2>5
<1> QED BY <1>1, InitInv, StepInv, PTL DEF Spec, UnmatchedOnlyByBlock

\* While no two requests have overlapped, one transaction is open at most, and a
\* block whose DELETE found no match is right about it.
AloneInv ==
  ~overlapped =>
    /\ \A p, q \in Procs : pc[p] # "idle" /\ pc[q] # "idle" => p = q
    /\ \A p \in Procs : pc[p] = "nothing" => matches[Pair(p)] = 0

LEMMA AloneStays == TypeOK /\ AloneInv /\ [Next]_vars => AloneInv'
<1> SUFFICES ASSUME TypeOK, AloneInv, [Next]_vars, ~overlapped' PROVE AloneInv'
  BY DEF AloneInv
<1>1. CASE UNCHANGED vars
  BY <1>1 DEF vars, tables, AloneInv, Pair
<1>2. ASSUME NEW p \in Procs, Arrive(p) PROVE AloneInv'
  BY <1>2 DEF Arrive, AloneInv, TypeOK
<1>3. ASSUME NEW p \in Procs, Statement(p) \/ Abort(p) PROVE AloneInv'
  <2>1. pc[p] # "idle" /\ overlapped' = overlapped
    BY <1>3 DEF Statement, UpsertSwipe, CheckReciprocal, InsertMatch, SelectExisting, ExistingIsGone,
       CommitSwipe, SwipeReady, InsertBlock, DeleteMatches, CommitBlock, Abort, tables
  <2>2. \A q \in Procs \ {p} : pc[q] = "idle" /\ pc'[q] = "idle"
    <3>1. \A q \in Procs \ {p} : pc[q] = "idle"
      BY <2>1 DEF AloneInv
    <3>2. \A q \in Procs \ {p} : pc'[q] = pc[q]
      BY <1>3 DEF Statement, UpsertSwipe, CheckReciprocal, InsertMatch, SelectExisting,
         ExistingIsGone, CommitSwipe, InsertBlock, DeleteMatches, CommitBlock, Abort, Finish, TypeOK
    <3> QED BY <3>1, <3>2
  <2>3. pc'[p] = "nothing" => matches'[Pair(p)'] = 0
    BY <1>3 DEF Statement, UpsertSwipe, CheckReciprocal, InsertMatch, SelectExisting, ExistingIsGone,
       CommitSwipe, InsertBlock, DeleteMatches, CommitBlock, Abort, Finish, tables, Pair, TypeOK
  <2> QED BY <2>2, <2>3 DEF AloneInv
<1> QED BY <1>1, <1>2, <1>3 DEF Next

LEMMA AloneAlways == Spec => []AloneInv
<1>1. Init => AloneInv
  BY DEF Init, AloneInv
<1>2. MatchInv => TypeOK
  BY DEF MatchInv
<1> QED BY <1>1, <1>2, AloneStays, MatchingStaysSafe, PTL DEF Spec

\* A block leaves no match of its pair, where no request overlapped another.
THEOREM BlocksClearMatches == Spec => BlockClearsMatchAlone
<1> DEFINE Clears == ~overlapped => \A p \in Procs : CommitBlock(p) => matches'[Pair(p)] = 0
<1>1. MatchInv /\ AloneInv => Clears
  <2> SUFFICES ASSUME MatchInv, AloneInv, ~overlapped, NEW p \in Procs, CommitBlock(p)
               PROVE  matches'[Pair(p)] = 0
    OBVIOUS
  <2>1. Pair(p) \in Pairs /\ matches \in [Pairs -> Nat]
    BY ReqUsers DEF CommitBlock, MatchInv, TypeOK
  <2> QED BY <2>1 DEF CommitBlock, AloneInv
<1> QED BY <1>1, AloneAlways, MatchingStaysSafe, PTL DEF BlockClearsMatchAlone

\* What a transaction that is alone has read is still so, and committed likes of
\* two users who have not blocked each other have made a match.
Matched(u, v) ==
  swipes[<<u, v>>] = "like" /\ swipes[<<v, u>>] = "like"
    /\ <<u, v>> \notin blocks /\ <<v, u>> \notin blocks => matches[{u, v}] > 0

MutualInv ==
  ~overlapped =>
    /\ \A u, v \in Users : u # v => Matched(u, v)
    /\ \A p \in Procs :
         /\ pc[p] = "single" => swipes[<<req[p].to, req[p].by>>] # "like"
         /\ pc[p] = "found" => matches[Pair(p)] > 0

LEMMA MutualStays == TypeOK /\ AloneInv /\ MutualInv /\ [Next]_vars => MutualInv'
<1> SUFFICES ASSUME TypeOK, AloneInv, MutualInv, [Next]_vars, ~overlapped' PROVE MutualInv'
  BY DEF MutualInv
<1>1. CASE UNCHANGED vars
  BY <1>1 DEF vars, tables, MutualInv, Matched, Pair
<1>2. ASSUME NEW p \in Procs, Arrive(p) PROVE MutualInv'
  BY <1>2 DEF Arrive, MutualInv, Matched, Pair, TypeOK
<1>3. ASSUME NEW p \in Procs, Statement(p) \/ Abort(p) PROVE MutualInv'
  <2>1. pc[p] # "idle" /\ overlapped' = overlapped
    BY <1>3 DEF Statement, UpsertSwipe, CheckReciprocal, InsertMatch, SelectExisting, ExistingIsGone,
       CommitSwipe, SwipeReady, InsertBlock, DeleteMatches, CommitBlock, Abort, tables
  <2>2. \A q \in Procs \ {p} : pc'[q] = "idle"
    <3>1. \A q \in Procs \ {p} : pc[q] = "idle"
      BY <2>1 DEF AloneInv
    <3>2. \A q \in Procs \ {p} : pc'[q] = pc[q]
      BY <1>3 DEF Statement, UpsertSwipe, CheckReciprocal, InsertMatch, SelectExisting,
         ExistingIsGone, CommitSwipe, InsertBlock, DeleteMatches, CommitBlock, Abort, Finish, TypeOK
    <3> QED BY <3>1, <3>2
  <2>3. /\ pc'[p] = "single" => swipes'[<<req'[p].to, req'[p].by>>] # "like"
        /\ pc'[p] = "found" => matches'[Pair(p)'] > 0
    BY <1>3 DEF Statement, UpsertSwipe, CheckReciprocal, LikedBack, InsertMatch, SelectExisting,
       ExistingIsGone, CommitSwipe, InsertBlock, DeleteMatches, CommitBlock, Abort, Finish, tables,
       Pair, TypeOK
  <2>4. ASSUME NEW u \in Users, NEW v \in Users, u # v PROVE Matched(u, v)'
    <3>1. Matched(u, v) /\ {u, v} \in Pairs /\ matches \in [Pairs -> Nat]
      BY <2>1, <2>4 DEF MutualInv, Pairs, TypeOK
    <3>2. CASE CommitSwipe(p)
      <4>1. /\ req[p].by \in Users /\ req[p].to \in Users /\ Pair(p) \in Pairs
            /\ Edge(p) \in Users \X Users
        BY <2>1, ReqUsers
      <4>2. CASE {u, v} # Pair(p)
        <5>1. <<u, v>> # Edge(p) /\ <<v, u>> # Edge(p)
          BY <4>2 DEF Edge, Pair
        <5>2. matches'[{u, v}] = matches[{u, v}]
          BY <3>1, <3>2, <4>2 DEF CommitSwipe
        <5>3. swipes'[<<u, v>>] = swipes[<<u, v>>] /\ swipes'[<<v, u>>] = swipes[<<v, u>>]
          BY <3>2, <5>1 DEF CommitSwipe, TypeOK
        <5> QED BY <3>1, <3>2, <5>2, <5>3 DEF CommitSwipe, Matched
      <4>3. CASE {u, v} = Pair(p) /\ pc[p] \in {"inserted", "found"}
        <5>1. matches'[{u, v}] > 0
          <6>1. CASE pc[p] = "inserted"
            BY <3>1, <3>2, <4>3, <6>1 DEF CommitSwipe
          <6>2. CASE pc[p] = "found"
            <7>1. matches[Pair(p)] > 0
              BY <2>1, <6>2 DEF MutualInv
            <7>2. matches' = matches
              BY <3>2, <6>2 DEF CommitSwipe
            <7> QED BY <4>3, <7>1, <7>2
          <6> QED BY <4>3, <6>1, <6>2
        <5> QED BY <5>1 DEF Matched
      <4>4. CASE {u, v} = Pair(p) /\ pc[p] \notin {"inserted", "found"}
        <5>1. \/ pc[p] = "single" /\ swipes[<<req[p].to, req[p].by>>] # "like"
              \/ req[p].what = "pass"
          BY <2>1, <3>2, <4>4 DEF CommitSwipe, SwipeReady, MutualInv
        <5>2. Edge(p) = <<u, v>> \/ Edge(p) = <<v, u>>
          BY <2>4, <4>4 DEF Edge, Pair
        <5>3. swipes' = [swipes EXCEPT ![Edge(p)] = req[p].what]
          BY <3>2 DEF CommitSwipe
        <5>4. swipes'[<<u, v>>] # "like" \/ swipes'[<<v, u>>] # "like"
          BY <2>4, <4>1, <5>1, <5>2, <5>3 DEF Edge, TypeOK
        <5> QED BY <5>4 DEF Matched
      <4> QED BY <4>2, <4>3, <4>4
    <3>3. CASE CommitBlock(p)
      <4>1. CASE {u, v} # Pair(p)
        <5>1. matches'[{u, v}] = matches[{u, v}] /\ blocks \subseteq blocks' /\ swipes' = swipes
          BY <3>1, <3>3, <4>1 DEF CommitBlock
        <5> QED BY <3>1, <5>1 DEF Matched
      <4>2. CASE {u, v} = Pair(p)
        <5>1. Edge(p) = <<u, v>> \/ Edge(p) = <<v, u>>
          BY <2>4, <4>2 DEF Edge, Pair
        <5> QED BY <3>3, <5>1 DEF CommitBlock, Matched
      <4> QED BY <4>1, <4>2
    <3>4. CASE UNCHANGED <<swipes, matches, blocks>>
      BY <3>1, <3>4 DEF Matched
    <3> QED BY <1>3, <3>2, <3>3, <3>4
            DEF Statement, UpsertSwipe, CheckReciprocal, InsertMatch, SelectExisting,
                ExistingIsGone, InsertBlock, DeleteMatches, Abort, tables
  <2> QED BY <2>2, <2>3, <2>4 DEF MutualInv
<1> QED BY <1>1, <1>2, <1>3 DEF Next

\* Requests that do not overlap never lose a match: it takes two open transactions
\* for two likes to miss each other.
THEOREM MatchesAreLostByOverlap == Spec => [](~overlapped => MutualLikesMatch)
<1>1. Init => MutualInv
  BY DEF Init, MutualInv, Matched
<1>2. MatchInv /\ AloneInv /\ MutualInv /\ [Next]_vars => MutualInv'
  BY MutualStays DEF MatchInv
<1>3. MatchInv /\ MutualInv => (~overlapped => MutualLikesMatch)
  <2> SUFFICES ASSUME MatchInv, MutualInv, ~overlapped, NEW u \in Users, NEW v \in Users, u # v,
                      swipes[<<u, v>>] = "like", swipes[<<v, u>>] = "like",
                      <<u, v>> \notin blocks, <<v, u>> \notin blocks
               PROVE  matches[{u, v}] = 1
    BY DEF MutualLikesMatch
  <2>1. {u, v} \in Pairs
    BY DEF Pairs
  <2>2. matches[{u, v}] \in Nat /\ matches[{u, v}] <= 1
    BY <2>1 DEF MatchInv, TypeOK, OneMatchPerPair
  <2>3. matches[{u, v}] > 0
    BY DEF MutualInv, Matched
  <2> QED BY <2>2, <2>3
<1> QED BY <1>1, <1>2, <1>3, MatchingStaysSafe, AloneAlways, PTL DEF Spec
=============================================================================
