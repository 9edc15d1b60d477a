----------------------------- MODULE Decisions -----------------------------
(***************************************************************************)
(* What accepting a join request and blocking a user promise, with no      *)
(* transactions: each decides the requests it decides, and closes the      *)
(* status they are for, at one moment, by what is pending at that moment.  *)
(***************************************************************************)
CONSTANTS Statuses, Users, Poster

Rows == Statuses \X Users
PairOf(row) == {Poster[row[1]], row[2]}

VARIABLES status, expired, request, live, rejoined

vars == <<status, expired, request, live, rejoined>>

Init ==
  /\ status = [s \in Statuses |-> "none"]
  /\ expired = [s \in Statuses |-> FALSE]
  /\ request = [r \in Rows |-> "none"]
  /\ live = {}
  /\ rejoined = FALSE

Post(s) ==
  /\ status[s] = "none"
  /\ status' = [status EXCEPT ![s] = "active"]
  /\ UNCHANGED <<expired, request, live, rejoined>>

Expire(s) ==
  /\ status[s] # "none"
  /\ expired' = [expired EXCEPT ![s] = TRUE]
  /\ UNCHANGED <<status, request, live, rejoined>>

Join(r) ==
  /\ status[r[1]] # "none"
  /\ request' = [request EXCEPT ![r] = "pending"]
  /\ rejoined' = (rejoined \/ request[r] # "none")
  /\ UNCHANGED <<status, expired, live>>

Pending(r)  == request[r] = "pending"
Siblings(r) == {q \in Rows : q[1] = r[1]} \ {r}

\* r is accepted and other requests of its status are rejected: all that are pending,
\* and none was accepted before, unless somebody has joined a status twice.
Accept(r) == \E lost \in SUBSET Siblings(r) :
  /\ \A q \in lost \cup {r} : Pending(q)
  /\ ~rejoined => \A q \in Siblings(r) :
                    request[q] # "accepted" /\ (Pending(q) => q \in lost)
  /\ request' = [q \in Rows |-> IF q = r THEN "accepted"
                                ELSE IF q \in lost THEN "rejected" ELSE request[q]]
  /\ status' = [status EXCEPT ![r[1]] = "closed"]
  /\ UNCHANGED <<expired, live, rejoined>>

\* Requests of the pair are rejected, and the statuses they are for are closed: those,
\* and no others.
Block(pair) == \E lost \in SUBSET {r \in Rows : PairOf(r) = pair} :
  /\ \A r \in lost : Pending(r)
  /\ request' = [r \in Rows |-> IF r \in lost THEN "rejected" ELSE request[r]]
  /\ status' = [s \in Statuses |->
                  IF status[s] = "active" /\ \E r \in lost : r[1] = s
                    THEN "closed" ELSE status[s]]
  /\ UNCHANGED <<expired, live, rejoined>>

\* A live call is announced for a request that was accepted, and still is unless its
\* user has joined again.
Announce(r) ==
  /\ rejoined \/ request[r] = "accepted"
  /\ live' = live \cup {r}
  /\ UNCHANGED <<status, expired, request, rejoined>>

Next ==
  \/ \E s \in Statuses : Post(s) \/ Expire(s)
  \/ \E r \in Rows : Join(r) \/ Accept(r) \/ Announce(r)
  \/ \E pair \in SUBSET Users : Block(pair)

Spec == Init /\ [][Next]_vars
=============================================================================
