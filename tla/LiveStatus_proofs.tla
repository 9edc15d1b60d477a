-------------------------- MODULE LiveStatus_proofs --------------------------
(***************************************************************************)
(* What accepts and blocks keep of the statuses and their requests, for    *)
(* any statuses, users and number of concurrent transactions, aborted at   *)
(* any statement.                                                          *)
(***************************************************************************)
EXTENDS LiveStatus, TLAPS

\* No row is held by two transactions.
LocksExclude ==
  \A p, q \in Procs : p # q => rows[p] \cap rows[q] = {} /\ held[p] \cap held[q] = {}

RequestsHaveStatus == \A r \in Rows : request[r] # "none" => status[r[1]] # "none"

\* The statements of an accept and of a block, and what a transaction has at each.
AtItsStatement(p) ==
  /\ pc[p] # "idle" => req[p] \in Accepts \cup Blocks
  /\ pc[p] \in {"looked", "locked", "ready", "accepted"} => req[p] \in Accepts
  /\ pc[p] = "closing" => req[p] \in Blocks
  /\ pc[p] \in {"begun", "looked", "accepted"} =>
       rows[p] = {} /\ held[p] = {} /\ todo[p] = {}

\* An accept holds its request, then its status, then requests of that status.
AcceptHolds(p) ==
  req[p] \in Accepts =>
    /\ pc[p] \in {"locked", "ready"} => rows[p] = {req[p].row}
    /\ pc[p] \in {"ready", "rejecting"} => held[p] = {req[p].row[1]}
    /\ pc[p] = "rejecting" =>
         /\ req[p].row \in rows[p]
         /\ todo[p] \subseteq Rows
         /\ \A r \in rows[p] \cup todo[p] : r[1] = req[p].row[1]

\* A block holds requests of its pair, and will close the active statuses of these.
BlockHolds(p) ==
  req[p] \in Blocks =>
    /\ pc[p] \in {"rejecting", "closing"} => \A r \in rows[p] : PairOf(r) = req[p].pair
    /\ pc[p] = "rejecting" =>
         todo[p] \subseteq Rows /\ \A r \in todo[p] : PairOf(r) = req[p].pair
    /\ pc[p] = "closing" =>
         /\ todo[p] \subseteq Statuses
         /\ \A r \in rows[p] : status[r[1]] = "active" => r[1] \in todo[p] \cup held[p]

\* A held request stays as it was when it was locked.
HeldArePending(p) == \A r \in rows[p] : request[r] = "pending"

\* Between the snapshot and the commit of an accept, while nobody joins twice: its
\* request can have been decided, but not another one of the status without it; and
\* from the second statement on no pending request of the status escapes.
Undecided(p) ==
  req[p] \in Accepts /\ pc[p] \in {"looked", "locked", "ready", "rejecting"} =>
    /\ request[req[p].row] # "none"
    /\ request[req[p].row] = "pending" =>
         \A r \in Rows : r[1] = req[p].row[1] => request[r] # "accepted"
    /\ pc[p] = "rejecting" =>
         \A r \in Rows : r[1] = req[p].row[1] /\ request[r] = "pending" =>
           r \in todo[p] \cup rows[p]

Decided(p) == pc[p] = "accepted" => request[req[p].row] = "accepted"

OneAccepted ==
  \A r1, r2 \in Rows :
    request[r1] = "accepted" /\ request[r2] = "accepted" /\ r1[1] = r2[1] => r1 = r2

\* What holds of a transaction, and of the tables.
TransactionInv(p) ==
  /\ AtItsStatement(p) /\ AcceptHolds(p) /\ BlockHolds(p) /\ HeldArePending(p)
  /\ rejoined \/ (Undecided(p) /\ Decided(p))

TablesInv ==
  /\ RequestsHaveStatus /\ ActiveIsUndecided
  /\ rejoined \/ (OneAccepted /\ \A r \in live : request[r] = "accepted")

StatusInv == TypeOK /\ LocksExclude /\ TablesInv /\ \A p \in Procs : TransactionInv(p)

----------------------------------------------------------------------------
(* Data.                                                                   *)

LEMMA RowParts ==
  ASSUME NEW r \in Rows
  PROVE  r[1] \in Statuses /\ r[2] \in Users /\ r = <<r[1], r[2]>>
  BY DEF Rows

LEMMA RequestKinds ==
  /\ \A q \in Accepts : q.what = "accept" /\ q.row \in Rows
  /\ \A q \in Blocks : q.what = "block"
  /\ NoReq \notin Accepts \cup Blocks
  /\ Accepts \cap Blocks = {}
  BY StatusConstants DEF StatusConstants, Accepts, Blocks

LEMMA InitStatus == Init => StatusInv
<1> SUFFICES ASSUME Init PROVE StatusInv
  OBVIOUS
<1>1. TypeOK
  BY DEF Init, TypeOK
<1>2. LocksExclude /\ TablesInv
  BY DEF Init, LocksExclude, TablesInv, RequestsHaveStatus, ActiveIsUndecided, OneAccepted
<1>3. \A p \in Procs : TransactionInv(p)
  BY RequestKinds DEF Init, TransactionInv, AtItsStatement, AcceptHolds, BlockHolds,
                      HeldArePending, Undecided, Decided
<1> QED BY <1>1, <1>2, <1>3 DEF StatusInv

----------------------------------------------------------------------------
(* Statements that leave the tables alone.                                 *)

SameElsewhere(p) ==
  \A q \in Procs \ {p} :
    /\ req'[q] = req[q] /\ pc'[q] = pc[q]
    /\ rows'[q] = rows[q] /\ held'[q] = held[q] /\ todo'[q] = todo[q]

\* What is left to show of such a statement of p.
LEMMA LocalStep ==
  ASSUME StatusInv, NEW p \in Procs, UNCHANGED tables, TypeOK', SameElsewhere(p),
         TransactionInv(p)',
         \A q \in Procs \ {p} : rows'[p] \cap rows[q] = {} /\ held'[p] \cap held[q] = {}
  PROVE  StatusInv'
<1>1. LocksExclude'
  BY DEF LocksExclude, SameElsewhere, StatusInv
<1>2. TablesInv'
  BY DEF TablesInv, RequestsHaveStatus, ActiveIsUndecided, OneAccepted, tables, StatusInv
<1>3. ASSUME NEW q \in Procs PROVE TransactionInv(q)'
  <2>1. CASE q = p
    BY <2>1
  <2>2. CASE q # p
    <3>1. TransactionInv(q)
      BY DEF StatusInv
    <3>2. /\ UNCHANGED <<req[q], pc[q], rows[q], held[q], todo[q]>>
          /\ UNCHANGED <<status, request, rejoined>>
      BY <2>2 DEF SameElsewhere, tables
    <3>3. AtItsStatement(q)' /\ AcceptHolds(q)' /\ BlockHolds(q)' /\ HeldArePending(q)'
      BY <3>1, <3>2 DEF TransactionInv, AtItsStatement, AcceptHolds, BlockHolds, HeldArePending
    <3>4. (rejoined \/ (Undecided(q) /\ Decided(q)))'
      BY <3>1, <3>2 DEF TransactionInv, Undecided, Decided
    <3> QED BY <3>3, <3>4 DEF TransactionInv
  <2> QED BY <2>1, <2>2
<1> QED BY <1>1, <1>2, <1>3 DEF StatusInv

\* p keeps its locks, or gives them up.
LEMMA NoNewLock ==
  ASSUME StatusInv, NEW p \in Procs, rows'[p] \subseteq rows[p], held'[p] \subseteq held[p]
  PROVE  \A q \in Procs \ {p} : rows'[p] \cap rows[q] = {} /\ held'[p] \cap held[q] = {}
  BY DEF StatusInv, LocksExclude

LEMMA ArriveKeeps ==
  ASSUME StatusInv, NEW p \in Procs, Arrive(p)
  PROVE  StatusInv'
<1>0. TypeOK /\ TransactionInv(p)
  BY DEF StatusInv
<1>1. PICK a \in Accepts \cup Blocks : req' = [req EXCEPT ![p] = a]
  BY DEF Arrive
<1>2. /\ pc[p] = "idle" /\ pc' = [pc EXCEPT ![p] = "begun"]
      /\ UNCHANGED <<tables, rows, held, todo>>
  BY DEF Arrive, Goto
<1>3. TypeOK'
  BY <1>0, <1>1, <1>2, RequestKinds DEF TypeOK, tables
<1>4. SameElsewhere(p)
  BY <1>0, <1>1, <1>2 DEF SameElsewhere, TypeOK
<1>5. TransactionInv(p)'
  <2>1. pc'[p] = "begun" /\ req'[p] = a /\ rows'[p] = {} /\ held'[p] = {} /\ todo'[p] = {}
    BY <1>0, <1>1, <1>2 DEF TypeOK
  <2> QED BY <2>1, <1>1 DEF TransactionInv, AtItsStatement, AcceptHolds, BlockHolds,
                            HeldArePending, Undecided, Decided
<1> QED BY <1>2, <1>3, <1>4, <1>5, LocalStep, NoNewLock

LEMMA LookKeeps ==
  ASSUME StatusInv, NEW p \in Procs, Look(p)
  PROVE  StatusInv'
<1>0. TypeOK /\ TransactionInv(p) /\ TablesInv
  BY DEF StatusInv
<1>1. /\ pc[p] = "begun" /\ req[p].what = "accept" /\ Acceptable(req[p].row)
      /\ pc' = [pc EXCEPT ![p] = "looked"]
      /\ UNCHANGED <<tables, req, rows, held, todo>>
  BY DEF Look, Goto
<1>2. TypeOK' /\ SameElsewhere(p)
  BY <1>0, <1>1 DEF TypeOK, tables, SameElsewhere
<1>3. req[p] \in Accepts /\ req[p].row \in Rows
  BY <1>0, <1>1, RequestKinds DEF TransactionInv, AtItsStatement
<1>4. TransactionInv(p)'
  <2>1. /\ pc'[p] = "looked" /\ req'[p] = req[p] /\ rows'[p] = {} /\ held'[p] = {} /\ todo'[p] = {}
        /\ request' = request
    BY <1>0, <1>1 DEF TypeOK, TransactionInv, AtItsStatement, tables
  <2>2. \A r \in Rows : r[1] = req[p].row[1] => request[r] # "accepted"
    BY <1>0, <1>1, <1>3 DEF Acceptable, TablesInv, ActiveIsUndecided
  <2>3. Undecided(p)'
    BY <1>1, <2>1, <2>2 DEF Acceptable, Undecided
  <2> QED BY <2>1, <2>3, <1>3, RequestKinds DEF TransactionInv, AtItsStatement, AcceptHolds, BlockHolds,
                            HeldArePending, Decided
<1> QED BY <1>1, <1>2, <1>4, LocalStep, NoNewLock

LEMMA LockRequestKeeps ==
  ASSUME StatusInv, NEW p \in Procs, LockRequest(p)
  PROVE  StatusInv'
<1>0. TypeOK /\ TransactionInv(p)
  BY DEF StatusInv
<1>1. /\ pc[p] = "looked" /\ RowFree(p, req[p].row) /\ request[req[p].row] = "pending"
      /\ rows' = [rows EXCEPT ![p] = {req[p].row}]
      /\ pc' = [pc EXCEPT ![p] = "locked"]
      /\ UNCHANGED <<tables, req, held, todo>>
  BY DEF LockRequest, Goto
<1>2. req[p] \in Accepts /\ req[p].row \in Rows
  BY <1>0, <1>1, RequestKinds DEF TransactionInv, AtItsStatement
<1>3. TypeOK' /\ SameElsewhere(p)
  BY <1>0, <1>1, <1>2 DEF TypeOK, tables, SameElsewhere
<1>4. /\ pc'[p] = "locked" /\ req'[p] = req[p] /\ rows'[p] = {req[p].row} /\ held'[p] = {}
      /\ todo'[p] = {} /\ request' = request /\ rejoined' = rejoined
  BY <1>0, <1>1 DEF TypeOK, TransactionInv, AtItsStatement, tables
<1>5. TransactionInv(p)'
  BY <1>0, <1>1, <1>2, <1>4, RequestKinds
     DEF TransactionInv, AtItsStatement, AcceptHolds, BlockHolds, HeldArePending, Undecided, Decided
<1>6. \A q \in Procs \ {p} : rows'[p] \cap rows[q] = {} /\ held'[p] \cap held[q] = {}
  BY <1>1, <1>4 DEF RowFree
<1> QED BY <1>1, <1>3, <1>5, <1>6, LocalStep

LEMMA LockStatusKeeps ==
  ASSUME StatusInv, NEW p \in Procs, LockStatus(p)
  PROVE  StatusInv'
<1>0. TypeOK /\ TransactionInv(p)
  BY DEF StatusInv
<1>1. /\ pc[p] = "locked" /\ StatusFree(p, req[p].row[1])
      /\ held' = [held EXCEPT ![p] = {req[p].row[1]}]
      /\ pc' = [pc EXCEPT ![p] = "ready"]
      /\ UNCHANGED <<tables, req, rows, todo>>
  BY DEF LockStatus, Goto
<1>2. req[p] \in Accepts /\ req[p].row \in Rows /\ req[p].row[1] \in Statuses
  BY <1>0, <1>1, RequestKinds, RowParts DEF TransactionInv, AtItsStatement
<1>3. TypeOK' /\ SameElsewhere(p)
  BY <1>0, <1>1, <1>2 DEF TypeOK, tables, SameElsewhere
<1>4. /\ pc'[p] = "ready" /\ req'[p] = req[p] /\ rows'[p] = rows[p]
      /\ held'[p] = {req[p].row[1]} /\ request' = request /\ rejoined' = rejoined
  BY <1>0, <1>1 DEF TypeOK, tables
<1>5. TransactionInv(p)'
  BY <1>0, <1>1, <1>2, <1>4, RequestKinds
     DEF TransactionInv, AtItsStatement, AcceptHolds, BlockHolds, HeldArePending, Undecided, Decided
<1>6. \A q \in Procs \ {p} : rows'[p] \cap rows[q] = {} /\ held'[p] \cap held[q] = {}
  BY <1>1, <1>4 DEF StatusFree, StatusInv, LocksExclude
<1> QED BY <1>1, <1>3, <1>5, <1>6, LocalStep

LEMMA AcceptRowKeeps ==
  ASSUME StatusInv, NEW p \in Procs, AcceptRow(p)
  PROVE  StatusInv'
<1>0. TypeOK /\ TransactionInv(p)
  BY DEF StatusInv
<1>1. /\ pc[p] = "ready"
      /\ todo' = [todo EXCEPT ![p] = Others(p)]
      /\ pc' = [pc EXCEPT ![p] = "rejecting"]
      /\ UNCHANGED <<tables, req, rows, held>>
  BY DEF AcceptRow, Goto
<1>2. req[p] \in Accepts /\ req[p].row \in Rows /\ Others(p) \subseteq Rows
  BY <1>0, <1>1, RequestKinds DEF TransactionInv, AtItsStatement, Others
<1>3. TypeOK' /\ SameElsewhere(p)
  BY <1>0, <1>1, <1>2 DEF TypeOK, tables, SameElsewhere
<1>4. /\ pc'[p] = "rejecting" /\ req'[p] = req[p] /\ rows'[p] = {req[p].row}
      /\ held'[p] = held[p] /\ todo'[p] = Others(p)
      /\ request' = request /\ rejoined' = rejoined
  BY <1>0, <1>1, <1>2 DEF TypeOK, tables, TransactionInv, AcceptHolds
<1>5. AtItsStatement(p)' /\ AcceptHolds(p)' /\ BlockHolds(p)' /\ HeldArePending(p)'
  BY <1>0, <1>1, <1>2, <1>4, RequestKinds
     DEF TransactionInv, AtItsStatement, AcceptHolds, BlockHolds, HeldArePending, Others
<1>6. (rejoined \/ (Undecided(p) /\ Decided(p)))'
  BY <1>0, <1>1, <1>2, <1>4 DEF TransactionInv, Undecided, Decided, Others
<1>7. TransactionInv(p)'
  BY <1>5, <1>6 DEF TransactionInv
<1> QED BY <1>1, <1>3, <1>7, LocalStep, NoNewLock

LEMMA RejectOneKeeps ==
  ASSUME StatusInv, NEW p \in Procs, RejectOne(p)
  PROVE  StatusInv'
<1>0. TypeOK /\ TransactionInv(p)
  BY DEF StatusInv
<1>1. PICK r \in todo[p] :
        /\ RowFree(p, r)
        /\ rows' = [rows EXCEPT ![p] = IF request[r] = "pending" THEN rows[p] \cup {r}
                                                                ELSE rows[p]]
        /\ todo' = [todo EXCEPT ![p] = todo[p] \ {r}]
  BY DEF RejectOne
<1>2. pc[p] = "rejecting" /\ UNCHANGED <<tables, req, pc, held>>
  BY DEF RejectOne
<1>3. req[p] \in Accepts \cup Blocks /\ r \in Rows
  BY <1>0, <1>2, <1>1 DEF TransactionInv, AtItsStatement, AcceptHolds, BlockHolds
<1>4. TypeOK'
  <2>1. rows' \in [Procs -> SUBSET Rows] /\ todo' \in [Procs -> SUBSET (Rows \cup Statuses)]
    BY <1>0, <1>1, <1>3 DEF TypeOK
  <2> QED BY <1>0, <1>1, <1>2, <2>1 DEF TypeOK, tables
<1>5. SameElsewhere(p)
  BY <1>0, <1>1, <1>2 DEF TypeOK, SameElsewhere
<1>6. /\ pc'[p] = "rejecting" /\ req'[p] = req[p] /\ held'[p] = held[p]
      /\ rows'[p] = IF request[r] = "pending" THEN rows[p] \cup {r} ELSE rows[p]
      /\ todo'[p] = todo[p] \ {r}
      /\ request' = request /\ rejoined' = rejoined
  BY <1>0, <1>1, <1>2 DEF TypeOK, tables
<1>7. AtItsStatement(p)' /\ AcceptHolds(p)' /\ BlockHolds(p)' /\ HeldArePending(p)'
  BY <1>0, <1>2, <1>3, <1>6, <1>1
     DEF TransactionInv, AtItsStatement, AcceptHolds, BlockHolds, HeldArePending
<1>8. (rejoined \/ (Undecided(p) /\ Decided(p)))'
  BY <1>0, <1>2, <1>3, <1>6 DEF TransactionInv, Undecided, Decided
<1>9. TransactionInv(p)'
  BY <1>7, <1>8 DEF TransactionInv
<1>10. \A q \in Procs \ {p} : rows'[p] \cap rows[q] = {} /\ held'[p] \cap held[q] = {}
  BY <1>1, <1>6 DEF RowFree, StatusInv, LocksExclude
<1> QED BY <1>2, <1>4, <1>5, <1>9, <1>10, LocalStep

LEMMA BlockRejectsKeeps ==
  ASSUME StatusInv, NEW p \in Procs, BlockRejects(p)
  PROVE  StatusInv'
<1> DEFINE chosen == {r \in Rows : PairOf(r) = req[p].pair /\ request[r] = "pending"}
<1>0. TypeOK /\ TransactionInv(p)
  BY DEF StatusInv
<1>1. /\ pc[p] = "begun" /\ req[p].what = "block"
      /\ todo' = [todo EXCEPT ![p] = chosen]
      /\ pc' = [pc EXCEPT ![p] = "rejecting"]
      /\ UNCHANGED <<tables, req, rows, held>>
  BY DEF BlockRejects, Goto
<1>2. req[p] \in Blocks /\ req[p] \notin Accepts
  BY <1>0, <1>1, RequestKinds DEF TransactionInv, AtItsStatement
<1>3. TypeOK' /\ SameElsewhere(p)
  BY <1>0, <1>1 DEF TypeOK, tables, SameElsewhere
<1>4. /\ pc'[p] = "rejecting" /\ req'[p] = req[p] /\ rows'[p] = {} /\ held'[p] = {}
      /\ todo'[p] = chosen
  BY <1>0, <1>1 DEF TypeOK, TransactionInv, AtItsStatement
<1>5. TransactionInv(p)'
  BY <1>2, <1>4 DEF TransactionInv, AtItsStatement, AcceptHolds, BlockHolds, HeldArePending,
                    Undecided, Decided
<1> QED BY <1>0, <1>1, <1>3, <1>4, <1>5, LocalStep, NoNewLock

\* The second UPDATE of a block sees the requests the first one has rejected, so it
\* chooses every active status it has rejected a request of.
LEMMA BlockClosesKeeps ==
  ASSUME StatusInv, NEW p \in Procs, BlockCloses(p)
  PROVE  StatusInv'
<1> DEFINE chosen == {s \in Statuses :
                        /\ status[s] = "active"
                        /\ \E u \in Users :
                             /\ PairOf(<<s, u>>) = req[p].pair
                             /\ request[<<s, u>>] = "rejected" \/ <<s, u>> \in rows[p]}
<1>0. TypeOK /\ TransactionInv(p)
  BY DEF StatusInv
<1>1. /\ pc[p] = "rejecting" /\ req[p].what = "block" /\ todo[p] = {}
      /\ todo' = [todo EXCEPT ![p] = chosen]
      /\ pc' = [pc EXCEPT ![p] = "closing"]
      /\ UNCHANGED <<tables, req, rows, held>>
  BY DEF BlockCloses, Goto
<1>2. req[p] \in Blocks /\ req[p] \notin Accepts
  BY <1>0, <1>1, RequestKinds DEF TransactionInv, AtItsStatement
<1>3. TypeOK' /\ SameElsewhere(p)
  BY <1>0, <1>1 DEF TypeOK, tables, SameElsewhere
<1>4. /\ pc'[p] = "closing" /\ req'[p] = req[p] /\ rows'[p] = rows[p] /\ todo'[p] = chosen
      /\ held'[p] = held[p] /\ UNCHANGED <<status, request>>
  BY <1>0, <1>1 DEF TypeOK, tables
<1>5. ASSUME NEW r \in rows[p], status[r[1]] = "active"
      PROVE  r[1] \in chosen
  <2>1. r \in Rows
    BY <1>0 DEF TypeOK
  <2>2. r[1] \in Statuses /\ r[2] \in Users /\ r = <<r[1], r[2]>> /\ PairOf(r) = req[p].pair
    BY <1>0, <1>1, <1>2, <2>1, RowParts DEF TransactionInv, BlockHolds
  <2> QED BY <1>5, <2>2
<1>6. TransactionInv(p)'
  <2>1. BlockHolds(p)'
    BY <1>0, <1>1, <1>2, <1>4, <1>5 DEF TransactionInv, BlockHolds
  <2> QED BY <1>0, <1>2, <1>4, <2>1
          DEF TransactionInv, AtItsStatement, AcceptHolds, HeldArePending, Undecided, Decided
<1> QED BY <1>1, <1>3, <1>4, <1>6, LocalStep, NoNewLock

LEMMA CloseOneKeeps ==
  ASSUME StatusInv, NEW p \in Procs, CloseOne(p)
  PROVE  StatusInv'
<1>0. TypeOK /\ TransactionInv(p)
  BY DEF StatusInv
<1>1. PICK s \in todo[p] :
        /\ StatusFree(p, s)
        /\ held' = [held EXCEPT ![p] = IF status[s] = "active" THEN held[p] \cup {s}
                                                               ELSE held[p]]
        /\ todo' = [todo EXCEPT ![p] = todo[p] \ {s}]
  BY DEF CloseOne
<1>2. pc[p] = "closing" /\ UNCHANGED <<tables, req, pc, rows>>
  BY DEF CloseOne
<1>3. req[p] \in Blocks /\ req[p] \notin Accepts /\ s \in Statuses
  BY <1>0, <1>1, <1>2, RequestKinds DEF TransactionInv, AtItsStatement, BlockHolds
<1>4. TypeOK'
  <2>1. held' \in [Procs -> SUBSET Statuses] /\ todo' \in [Procs -> SUBSET (Rows \cup Statuses)]
    BY <1>0, <1>1, <1>3 DEF TypeOK
  <2> QED BY <1>0, <1>1, <1>2, <2>1 DEF TypeOK, tables
<1>5. SameElsewhere(p)
  BY <1>0, <1>1, <1>2 DEF TypeOK, SameElsewhere
<1>6. /\ pc'[p] = "closing" /\ req'[p] = req[p] /\ rows'[p] = rows[p]
      /\ held'[p] = IF status[s] = "active" THEN held[p] \cup {s} ELSE held[p]
      /\ todo'[p] = todo[p] \ {s}
      /\ UNCHANGED <<status, request>>
  BY <1>0, <1>1, <1>2 DEF TypeOK, tables
<1>7. TransactionInv(p)'
  <2>1. BlockHolds(p)'
    BY <1>0, <1>2, <1>3, <1>6 DEF TransactionInv, BlockHolds
  <2> QED BY <1>0, <1>3, <1>6, <2>1
          DEF TransactionInv, AtItsStatement, AcceptHolds, HeldArePending, Undecided, Decided
<1>8. \A q \in Procs \ {p} : rows'[p] \cap rows[q] = {} /\ held'[p] \cap held[q] = {}
  BY <1>1, <1>6 DEF StatusFree, StatusInv, LocksExclude
<1> QED BY <1>2, <1>4, <1>5, <1>7, <1>8, LocalStep

\* A transaction that is refused, aborted, or chosen by the deadlock check.
LEMMA EndKeeps ==
  ASSUME StatusInv, NEW p \in Procs, Refuse(p) \/ Abort(p)
  PROVE  StatusInv'
<1>0. TypeOK
  BY DEF StatusInv
<1>1. /\ req' = [req EXCEPT ![p] = NoReq] /\ pc' = [pc EXCEPT ![p] = "idle"]
      /\ rows' = [rows EXCEPT ![p] = {}] /\ held' = [held EXCEPT ![p] = {}]
      /\ todo' = [todo EXCEPT ![p] = {}] /\ UNCHANGED tables
  BY DEF Refuse, Abort, Finish, Release
<1>2. TypeOK' /\ SameElsewhere(p)
  BY <1>0, <1>1 DEF TypeOK, tables, SameElsewhere
<1>3. pc'[p] = "idle" /\ req'[p] = NoReq /\ rows'[p] = {} /\ held'[p] = {}
  BY <1>0, <1>1 DEF TypeOK
<1>4. TransactionInv(p)'
  BY <1>3, RequestKinds DEF TransactionInv, AtItsStatement, AcceptHolds, BlockHolds,
                            HeldArePending, Undecided, Decided
<1> QED BY <1>1, <1>2, <1>3, <1>4, LocalStep, NoNewLock

----------------------------------------------------------------------------
(* Steps that change the tables.                                           *)

\* A commit never meets a request that another transaction holds.
LEMMA CommitAcceptKeeps ==
  ASSUME StatusInv, NEW p \in Procs, CommitAccept(p)
  PROVE  StatusInv'
<1> DEFINE row == req[p].row
           s   == row[1]
<1>0. TypeOK /\ TransactionInv(p) /\ TablesInv /\ LocksExclude
  BY DEF StatusInv
<1>1. /\ pc[p] = "rejecting" /\ req[p].what = "accept" /\ todo[p] = {}
      /\ request' = [r \in Rows |-> IF r = row THEN "accepted"
                                    ELSE IF r \in rows[p] THEN "rejected" ELSE request[r]]
      /\ status' = [status EXCEPT ![s] = "closed"]
      /\ rows' = [rows EXCEPT ![p] = {}] /\ held' = [held EXCEPT ![p] = {}]
      /\ todo' = [todo EXCEPT ![p] = {}] /\ pc' = [pc EXCEPT ![p] = "accepted"]
      /\ UNCHANGED <<expired, live, rejoined, req>>
  BY DEF CommitAccept, Release, Goto
<1>2. /\ req[p] \in Accepts /\ req[p] \notin Blocks
      /\ row \in Rows /\ s \in Statuses
      /\ row \in rows[p] /\ rows[p] \subseteq Rows /\ \A r \in rows[p] : r[1] = s
      /\ \A r \in rows[p] : request[r] = "pending"
  BY <1>0, <1>1, RequestKinds, RowParts
     DEF TransactionInv, AtItsStatement, AcceptHolds, HeldArePending, TypeOK
<1> HIDE DEF row, s
<1>3. /\ \A t \in Statuses : status'[t] = IF t = s THEN "closed" ELSE status[t]
      /\ request'[row] = "accepted"
      /\ \A r \in rows[p] \ {row} : request'[r] = "rejected"
      /\ \A r \in Rows \ rows[p] : request'[r] = request[r]
  BY <1>0, <1>1, <1>2 DEF TypeOK
<1>4. TypeOK' /\ SameElsewhere(p)
  BY <1>0, <1>1, <1>2 DEF TypeOK, SameElsewhere
<1>5. LocksExclude'
  BY <1>0, <1>1 DEF TypeOK, LocksExclude
<1>6. RequestsHaveStatus' /\ ActiveIsUndecided'
  BY <1>0, <1>2, <1>3, RowParts DEF TablesInv, RequestsHaveStatus, ActiveIsUndecided
<1>7. (rejoined \/ (OneAccepted /\ \A r \in live : request[r] = "accepted"))'
  <2> SUFFICES ASSUME ~rejoined
               PROVE  OneAccepted' /\ \A r \in live : request'[r] = "accepted"
    BY <1>1
  <2>1. \A r \in Rows : r[1] = s => request[r] # "accepted"
    BY <1>0, <1>1, <1>2 DEF TransactionInv, Undecided, row, s
  <2>2. \A r \in Rows : request'[r] = "accepted" <=> r = row \/ request[r] = "accepted"
    BY <1>2, <1>3
  <2>3. OneAccepted'
    BY <1>0, <1>2, <2>1, <2>2 DEF TablesInv, OneAccepted, s
  <2>4. \A r \in live : request'[r] = "accepted"
    BY <1>0, <2>2 DEF TablesInv, TypeOK
  <2> QED BY <2>3, <2>4
<1>8. TablesInv'
  BY <1>6, <1>7 DEF TablesInv
<1>9. TransactionInv(p)'
  <2>1. pc'[p] = "accepted" /\ req'[p] = req[p] /\ rows'[p] = {} /\ held'[p] = {} /\ todo'[p] = {}
    BY <1>0, <1>1 DEF TypeOK
  <2> QED BY <1>2, <1>3, <2>1
          DEF TransactionInv, AtItsStatement, AcceptHolds, BlockHolds, HeldArePending,
              Undecided, Decided, row
<1>10. ASSUME NEW q \in Procs \ {p} PROVE TransactionInv(q)'
  <2>1. TransactionInv(q) /\ rows[p] \cap rows[q] = {} /\ rows[q] \subseteq Rows
    BY <1>0 DEF StatusInv, LocksExclude, TypeOK
  <2>2. UNCHANGED <<req[q], pc[q], rows[q], held[q], todo[q]>>
    BY <1>4 DEF SameElsewhere
  <2>3. AtItsStatement(q)' /\ AcceptHolds(q)'
    BY <2>1, <2>2 DEF TransactionInv, AtItsStatement, AcceptHolds
  <2>4. BlockHolds(q)'
    <3>1. \A t \in Statuses : status'[t] = "active" => status[t] = "active"
      BY <1>3
    <3> QED BY <2>1, <2>2, <3>1, RowParts DEF TransactionInv, BlockHolds
  <2>5. HeldArePending(q)'
    BY <1>3, <2>1, <2>2 DEF TransactionInv, HeldArePending
  <2>6. ASSUME ~rejoined PROVE Undecided(q)' /\ Decided(q)'
    <3>1. Undecided(q) /\ Decided(q) /\ Undecided(p)
      BY <1>0, <2>1, <2>6 DEF TransactionInv
    <3>2. \A r \in Rows : r[1] = s => request'[r] # "pending"
      BY <1>1, <1>2, <1>3, <3>1 DEF Undecided, row, s
    <3>3. \A r \in Rows : r[1] # s => request'[r] = request[r]
      BY <1>2, <1>3
    <3>4. \A r \in Rows : /\ request'[r] = "pending" => request[r] = "pending"
                          /\ request[r] # "none" => request'[r] # "none"
                          /\ request[r] = "accepted" => request'[r] = "accepted"
      BY <1>2, <1>3
    <3>5. Undecided(q)'
      BY <2>2, <3>1, <3>2, <3>3, <3>4, RequestKinds DEF Undecided
    <3>6. Decided(q)'
      BY <2>1, <2>2, <3>1, <3>4, RequestKinds DEF Decided, TransactionInv, AtItsStatement
    <3> QED BY <3>5, <3>6
  <2> QED BY <1>1, <2>3, <2>4, <2>5, <2>6 DEF TransactionInv
<1> QED BY <1>4, <1>5, <1>8, <1>9, <1>10 DEF StatusInv

\* A block closes every status it has rejected a request of in the same commit.
LEMMA CommitBlockKeeps ==
  ASSUME StatusInv, NEW p \in Procs, CommitBlock(p)
  PROVE  StatusInv'
<1>0. TypeOK /\ TransactionInv(p) /\ TablesInv /\ LocksExclude
  BY DEF StatusInv
<1>1. /\ pc[p] = "closing" /\ todo[p] = {}
      /\ request' = [r \in Rows |-> IF r \in rows[p] THEN "rejected" ELSE request[r]]
      /\ status' = [s \in Statuses |-> IF s \in held[p] THEN "closed" ELSE status[s]]
      /\ req' = [req EXCEPT ![p] = NoReq] /\ pc' = [pc EXCEPT ![p] = "idle"]
      /\ rows' = [rows EXCEPT ![p] = {}] /\ held' = [held EXCEPT ![p] = {}]
      /\ todo' = [todo EXCEPT ![p] = {}]
      /\ UNCHANGED <<expired, live, rejoined>>
  BY DEF CommitBlock, Finish, Release
<1>2. /\ rows[p] \subseteq Rows
      /\ \A r \in rows[p] : request[r] = "pending"
      /\ \A r \in rows[p] : status[r[1]] = "active" => r[1] \in held[p]
  BY <1>0, <1>1 DEF TransactionInv, AtItsStatement, BlockHolds, HeldArePending, TypeOK
<1>3. /\ \A s \in Statuses : status'[s] = IF s \in held[p] THEN "closed" ELSE status[s]
      /\ \A r \in Rows : request'[r] = IF r \in rows[p] THEN "rejected" ELSE request[r]
  BY <1>1
<1>4. TypeOK' /\ SameElsewhere(p)
  BY <1>0, <1>1 DEF TypeOK, SameElsewhere
<1>5. LocksExclude'
  BY <1>0, <1>1 DEF TypeOK, LocksExclude
<1>6. RequestsHaveStatus' /\ ActiveIsUndecided'
  BY <1>0, <1>2, <1>3, RowParts DEF TablesInv, RequestsHaveStatus, ActiveIsUndecided
<1>7. (rejoined \/ (OneAccepted /\ \A r \in live : request[r] = "accepted"))'
  <2>1. \A r \in Rows : request'[r] = "accepted" <=> request[r] = "accepted"
    BY <1>2, <1>3
  <2> QED BY <1>0, <1>1, <2>1 DEF TablesInv, OneAccepted, TypeOK
<1>8. TransactionInv(p)'
  <2>1. pc'[p] = "idle" /\ req'[p] = NoReq /\ rows'[p] = {}
    BY <1>0, <1>1 DEF TypeOK
  <2> QED BY <2>1, RequestKinds
          DEF TransactionInv, AtItsStatement, AcceptHolds, BlockHolds, HeldArePending,
              Undecided, Decided
<1>9. ASSUME NEW q \in Procs \ {p} PROVE TransactionInv(q)'
  <2>1. TransactionInv(q) /\ rows[p] \cap rows[q] = {} /\ rows[q] \subseteq Rows
    BY <1>0 DEF StatusInv, LocksExclude, TypeOK
  <2>2. UNCHANGED <<req[q], pc[q], rows[q], held[q], todo[q]>>
    BY <1>4 DEF SameElsewhere
  <2>3. AtItsStatement(q)' /\ AcceptHolds(q)'
    BY <2>1, <2>2 DEF TransactionInv, AtItsStatement, AcceptHolds
  <2>4. BlockHolds(q)'
    <3>1. \A t \in Statuses : status'[t] = "active" => status[t] = "active"
      BY <1>3
    <3> QED BY <2>1, <2>2, <3>1, RowParts DEF TransactionInv, BlockHolds
  <2>5. HeldArePending(q)'
    BY <1>3, <2>1, <2>2 DEF TransactionInv, HeldArePending
  <2>6. (rejoined \/ (Undecided(q) /\ Decided(q)))'
    <3>1. \A r \in Rows : /\ request'[r] = "pending" => request[r] = "pending"
                          /\ request[r] # "none" => request'[r] # "none"
                          /\ request[r] = "accepted" <=> request'[r] = "accepted"
      BY <1>2, <1>3
    <3> QED BY <1>1, <2>1, <2>2, <3>1, RequestKinds
            DEF TransactionInv, AtItsStatement, Undecided, Decided
  <2> QED BY <2>3, <2>4, <2>5, <2>6 DEF TransactionInv
<1> QED BY <1>4, <1>5, <1>6, <1>7, <1>8, <1>9 DEF StatusInv, TablesInv

LEMMA AnnounceKeeps ==
  ASSUME StatusInv, NEW p \in Procs, Announce(p)
  PROVE  StatusInv'
<1>0. TypeOK /\ TransactionInv(p) /\ TablesInv /\ LocksExclude
  BY DEF StatusInv
<1>1. /\ pc[p] = "accepted" /\ live' = live \cup {req[p].row}
      /\ req' = [req EXCEPT ![p] = NoReq] /\ pc' = [pc EXCEPT ![p] = "idle"]
      /\ UNCHANGED <<status, expired, request, rejoined, rows, held, todo>>
  BY DEF Announce, Finish
<1>2. /\ req[p] \in Accepts /\ req[p].row \in Rows
      /\ rows[p] = {} /\ held[p] = {} /\ todo[p] = {}
  BY <1>0, <1>1, RequestKinds DEF TransactionInv, AtItsStatement
<1>3. TypeOK' /\ SameElsewhere(p)
  BY <1>0, <1>1, <1>2 DEF TypeOK, SameElsewhere
<1>4. LocksExclude' /\ RequestsHaveStatus' /\ ActiveIsUndecided'
  BY <1>0, <1>1 DEF LocksExclude, TablesInv, RequestsHaveStatus, ActiveIsUndecided
<1>5. (rejoined \/ (OneAccepted /\ \A r \in live : request[r] = "accepted"))'
  BY <1>0, <1>1 DEF TablesInv, OneAccepted, TransactionInv, Decided
<1>6. TransactionInv(p)'
  <2>1. pc'[p] = "idle" /\ req'[p] = NoReq /\ rows'[p] = {}
    BY <1>0, <1>1, <1>2 DEF TypeOK
  <2> QED BY <2>1, RequestKinds
          DEF TransactionInv, AtItsStatement, AcceptHolds, BlockHolds, HeldArePending,
              Undecided, Decided
<1>7. ASSUME NEW q \in Procs \ {p} PROVE TransactionInv(q)'
  <2>1. TransactionInv(q)
    BY DEF StatusInv
  <2>2. UNCHANGED <<req[q], pc[q], rows[q], held[q], todo[q], status, request, rejoined>>
    BY <1>1, <1>3 DEF SameElsewhere
  <2>3. AtItsStatement(q)' /\ AcceptHolds(q)' /\ BlockHolds(q)' /\ HeldArePending(q)'
    BY <2>1, <2>2 DEF TransactionInv, AtItsStatement, AcceptHolds, BlockHolds, HeldArePending
  <2>4. (rejoined \/ (Undecided(q) /\ Decided(q)))'
    BY <2>1, <2>2 DEF TransactionInv, Undecided, Decided
  <2> QED BY <2>3, <2>4 DEF TransactionInv
<1> QED BY <1>3, <1>4, <1>5, <1>6, <1>7 DEF StatusInv, TablesInv

\* Creating a status, and time.
LEMMA PostKeeps ==
  ASSUME StatusInv, NEW s \in Statuses, CreateStatus(s) \/ Expire(s)
  PROVE  StatusInv'
<1>0. TypeOK /\ TablesInv /\ LocksExclude
  BY DEF StatusInv
<1>1. /\ status' = status \/ (status[s] = "none" /\ status' = [status EXCEPT ![s] = "active"])
      /\ expired' \in [Statuses -> BOOLEAN]
      /\ UNCHANGED <<request, live, rejoined, req, pc, rows, held, todo>>
  BY <1>0 DEF CreateStatus, Expire, txs, TypeOK
<1>2. TypeOK'
  BY <1>0, <1>1 DEF TypeOK
<1>3. \A t \in Statuses : status'[t] = status[t] \/ (status[t] = "none" /\ status'[t] = "active")
  BY <1>0, <1>1 DEF TypeOK
<1>4. RequestsHaveStatus' /\ ActiveIsUndecided'
  BY <1>0, <1>1, <1>3, RowParts DEF TablesInv, RequestsHaveStatus, ActiveIsUndecided
<1>5. LocksExclude' /\ (rejoined \/ (OneAccepted /\ \A r \in live : request[r] = "accepted"))'
  BY <1>0, <1>1 DEF LocksExclude, TablesInv, OneAccepted
<1>6. ASSUME NEW q \in Procs PROVE TransactionInv(q)'
  <2>1. TransactionInv(q) /\ rows[q] \subseteq Rows
    BY <1>0 DEF StatusInv, TypeOK
  <2>2. \A r \in rows[q] : status'[r[1]] = "active" => status[r[1]] = "active"
    BY <1>0, <1>3, <2>1, RowParts DEF TransactionInv, HeldArePending, TablesInv, RequestsHaveStatus
  <2>3. BlockHolds(q)'
    BY <1>1, <2>1, <2>2 DEF TransactionInv, BlockHolds
  <2>4. AtItsStatement(q)' /\ AcceptHolds(q)' /\ HeldArePending(q)'
    BY <1>1, <2>1 DEF TransactionInv, AtItsStatement, AcceptHolds, HeldArePending
  <2>5. (rejoined \/ (Undecided(q) /\ Decided(q)))'
    BY <1>1, <2>1 DEF TransactionInv, Undecided, Decided
  <2> QED BY <2>3, <2>4, <2>5 DEF TransactionInv
<1> QED BY <1>2, <1>4, <1>5, <1>6 DEF StatusInv, TablesInv

\* A first join waits for an accept that holds the status; any other one sets rejoined.
LEMMA JoinKeeps ==
  ASSUME StatusInv, NEW j \in Rows, Join(j)
  PROVE  StatusInv'
<1>0. TypeOK /\ TablesInv /\ LocksExclude
  BY DEF StatusInv
<1>1. /\ status[j[1]] # "none" /\ \A q \in Procs : j \notin rows[q]
      /\ request[j] = "none" => ~LockedForUpdate(j[1])
      /\ request' = [request EXCEPT ![j] = "pending"]
      /\ rejoined' = (rejoined \/ request[j] # "none")
      /\ UNCHANGED <<status, expired, live, req, pc, rows, held, todo>>
  BY DEF Join, txs
<1>2. \A r \in Rows : request'[r] = IF r = j THEN "pending" ELSE request[r]
  BY <1>0, <1>1 DEF TypeOK
<1>3. TypeOK' /\ LocksExclude'
  <2>1. rejoined' \in BOOLEAN
    BY <1>0, <1>1 DEF TypeOK
  <2> QED BY <1>0, <1>1, <2>1 DEF TypeOK, LocksExclude
<1>4. RequestsHaveStatus' /\ ActiveIsUndecided'
  BY <1>0, <1>1, <1>2 DEF TablesInv, RequestsHaveStatus, ActiveIsUndecided
<1>5. (rejoined \/ (OneAccepted /\ \A r \in live : request[r] = "accepted"))'
  BY <1>0, <1>1, <1>2 DEF TablesInv, OneAccepted, TypeOK
<1>6. ASSUME NEW q \in Procs PROVE TransactionInv(q)'
  <2>1. TransactionInv(q) /\ rows[q] \subseteq Rows
    BY <1>0 DEF StatusInv, TypeOK
  <2>2. AtItsStatement(q)' /\ AcceptHolds(q)' /\ BlockHolds(q)'
    BY <1>1, <2>1 DEF TransactionInv, AtItsStatement, AcceptHolds, BlockHolds
  <2>3. HeldArePending(q)'
    BY <1>1, <1>2, <2>1 DEF TransactionInv, HeldArePending
  <2>4. ASSUME ~rejoined' PROVE Undecided(q)' /\ Decided(q)'
    <3>1. ~rejoined /\ request[j] = "none" /\ Undecided(q) /\ Decided(q)
      BY <1>1, <2>1, <2>4 DEF TransactionInv
    <3>2. req[q] \in Accepts /\ pc[q] = "rejecting" => req[q].row[1] # j[1]
      BY <1>1, <2>1, <3>1, RequestKinds DEF TransactionInv, AcceptHolds, LockedForUpdate
    <3>3. Undecided(q)'
      BY <1>1, <1>2, <3>1, <3>2, RequestKinds DEF Undecided
    <3>4. Decided(q)'
      BY <1>1, <1>2, <2>1, <3>1, RequestKinds DEF Decided, TransactionInv, AtItsStatement
    <3> QED BY <3>3, <3>4
  <2> QED BY <2>2, <2>3, <2>4 DEF TransactionInv
<1> QED BY <1>3, <1>4, <1>5, <1>6 DEF StatusInv, TablesInv

LEMMA StepKeeps == StatusInv /\ [Next]_vars => StatusInv'
<1> SUFFICES ASSUME StatusInv, [Next]_vars PROVE StatusInv'
  OBVIOUS
<1>1. ASSUME NEW s \in Statuses, CreateStatus(s) \/ Expire(s) PROVE StatusInv'
  BY <1>1, PostKeeps
<1>2. ASSUME NEW r \in Rows, Join(r) PROVE StatusInv'
  BY <1>2, JoinKeeps
<1>3. ASSUME NEW p \in Procs, Arrive(p) \/ Statement(p) \/ Abort(p) PROVE StatusInv'
  BY <1>3, ArriveKeeps, LookKeeps, LockRequestKeeps, LockStatusKeeps, AcceptRowKeeps,
     RejectOneKeeps, BlockRejectsKeeps, BlockClosesKeeps, CloseOneKeeps, EndKeeps,
     CommitAcceptKeeps, CommitBlockKeeps, AnnounceKeeps DEF Statement
<1>4. CASE UNCHANGED vars
  <2>1. UNCHANGED <<status, expired, request, live, rejoined, req, pc, rows, held, todo>>
    BY <1>4 DEF vars, tables, txs
  <2>2. TypeOK' /\ LocksExclude' /\ TablesInv'
    BY <2>1 DEF StatusInv, TypeOK, LocksExclude, TablesInv, RequestsHaveStatus,
                ActiveIsUndecided, OneAccepted
  <2>3. ASSUME NEW q \in Procs PROVE TransactionInv(q)'
    BY <2>1 DEF StatusInv, TransactionInv, AtItsStatement, AcceptHolds, BlockHolds,
                HeldArePending, Undecided, Decided
  <2> QED BY <2>2, <2>3 DEF StatusInv
<1> QED BY <1>1, <1>2, <1>3, <1>4 DEF Next

LEMMA StatusesKeep == Spec => []StatusInv
  BY InitStatus, StepKeeps, PTL DEF Spec

----------------------------------------------------------------------------
(* Theorems.                                                               *)

\* Tables, requests under way and the locks they hold are what the code can make them.
THEOREM LiveStatusTypes == Spec => []TypeOK
  BY StatusesKeep, PTL DEF StatusInv

\* No transaction holds a row another one holds, and what is held has not changed
\* since: the row locks do exclude, wherever a transaction is aborted.
THEOREM RowLocksExclude == Spec => [](LocksExclude /\ \A p \in Procs : HeldArePending(p))
<1>1. StatusInv => LocksExclude /\ \A p \in Procs : HeldArePending(p)
  BY DEF StatusInv, TransactionInv
<1> QED BY <1>1, StatusesKeep, PTL

\* A decision on a request, by an accept or a block, closes its status in the same
\* commit.
THEOREM ActiveStatusesAreUndecided == Spec => []ActiveIsUndecided
  BY StatusesKeep, PTL DEF StatusInv, TablesInv

\* As long as nobody joins a status twice, each status has one partner, in spite of
\* the snapshots that are older than the locks.
THEOREM OnePartnerWithoutRejoins == Spec => []OnePartnerUnlessRejoined
<1>1. StatusInv => OnePartnerUnlessRejoined
  BY DEF StatusInv, TypeOK, TablesInv, OneAccepted, OnePartnerUnlessRejoined, OnePartner
<1> QED BY <1>1, StatusesKeep, PTL

\* Only a request that is pending at the very commit becomes accepted.
THEOREM AcceptedWasPending == Spec => AcceptsPending
<1>1. ASSUME StatusInv, [Next]_vars, NEW r \in Rows, request[r] # "accepted",
             request'[r] = "accepted"
      PROVE  request[r] = "pending"
  <2>0. TypeOK
    BY <1>1 DEF StatusInv
  <2>1. ASSUME NEW p \in Procs, CommitAccept(p) PROVE request[r] = "pending"
    <3>1. r = req[p].row /\ pc[p] = "rejecting" /\ req[p].what = "accept"
      BY <1>1, <2>1 DEF CommitAccept
    <3>2. TransactionInv(p)
      BY <1>1 DEF StatusInv
    <3> QED BY <3>1, <3>2, RequestKinds
            DEF TransactionInv, AtItsStatement, AcceptHolds, HeldArePending
  <2>2. ASSUME NEW p \in Procs, CommitBlock(p) PROVE FALSE
    BY <1>1, <2>2 DEF CommitBlock
  <2>3. ASSUME NEW j \in Rows, Join(j) PROVE FALSE
    BY <1>1, <2>0, <2>3 DEF Join, TypeOK
  <2>4. CASE UNCHANGED request
    BY <1>1, <2>4
  <2> QED BY <1>1, <2>1, <2>2, <2>3, <2>4
          DEF Next, vars, tables, Statement, CreateStatus, Expire, Arrive, Look, LockRequest,
              Refuse, LockStatus, AcceptRow, RejectOne, Announce, BlockRejects, BlockCloses,
              CloseOne, Abort
<1>2. StatusInv /\ [Next]_vars =>
        [\A r \in Rows : request[r] # "accepted" /\ request'[r] = "accepted" =>
           request[r] = "pending"]_vars
  BY <1>1
<1> QED BY <1>2, StatusesKeep, PTL DEF Spec, AcceptsPending

----------------------------------------------------------------------------
(* Accepts and blocks implement Decisions.                                 *)

\* The statuses a block closes are those of the requests it rejects, and active
\* until it commits.
Closes(p) ==
  req[p] \in Blocks =>
    /\ pc[p] = "rejecting" => held[p] = {}
    /\ pc[p] = "closing" =>
         /\ \A s \in todo[p] \cup held[p] : \E r \in rows[p] : r[1] = s
         /\ \A s \in held[p] : status[s] = "active"

ClosesInv == \A p \in Procs : Closes(p)

LEMMA InitCloses == Init => ClosesInv
  BY RequestKinds DEF Init, ClosesInv, Closes

\* A step that neither moves p nor closes a status p holds.
LEMMA ClosesElsewhere ==
  ASSUME NEW p \in Procs, Closes(p), UNCHANGED <<req[p], pc[p], rows[p], held[p], todo[p]>>,
         \A s \in held[p] : status'[s] = status[s]
  PROVE  Closes(p)'
  BY DEF Closes

LEMMA ClosesOwn ==
  ASSUME StatusInv, ClosesInv, NEW p \in Procs, Arrive(p) \/ Statement(p) \/ Abort(p)
  PROVE  Closes(p)'
<1> USE DEF StatusInv
<1>0. TypeOK /\ TransactionInv(p) /\ Closes(p)
  BY DEF ClosesInv
<1>1. CASE BlockRejects(p)
  <2>1. held[p] = {} /\ held' = held /\ pc'[p] = "rejecting"
    BY <1>0, <1>1 DEF BlockRejects, Goto, TransactionInv, AtItsStatement, TypeOK
  <2> QED BY <2>1 DEF Closes
<1>2. CASE RejectOne(p)
  <2>1. held' = held /\ req' = req /\ pc' = pc /\ pc[p] = "rejecting"
    BY <1>2 DEF RejectOne
  <2> QED BY <1>0, <2>1 DEF Closes
<1>3. CASE BlockCloses(p)
  <2>1. /\ held' = held /\ req' = req /\ rows' = rows /\ pc'[p] = "closing" /\ pc[p] = "rejecting"
        /\ todo'[p] = {s \in Statuses : /\ status[s] = "active"
                                        /\ \E u \in Users :
                                             /\ PairOf(<<s, u>>) = req[p].pair
                                             /\ request[<<s, u>>] = "rejected" \/ <<s, u>> \in rows[p]}
    BY <1>0, <1>3 DEF BlockCloses, Goto, TypeOK
\* An active status has no rejected request.
  <2>2. \A s \in todo'[p] : \E r \in rows[p] : r[1] = s
    <3>1. \A s \in Statuses, u \in Users : status[s] = "active" => request[<<s, u>>] # "rejected"
      BY DEF TablesInv, ActiveIsUndecided, Rows
    <3> QED BY <2>1, <3>1
  <2>3. req[p] \in Blocks => held[p] = {}
    BY <1>0, <2>1 DEF Closes
  <2> QED BY <2>1, <2>2, <2>3 DEF Closes
<1>4. CASE CloseOne(p)
  <2>1. /\ req' = req /\ rows' = rows /\ pc' = pc /\ status' = status /\ pc[p] = "closing"
    BY <1>4 DEF CloseOne, tables
  <2>2. PICK s \in todo[p] :
          /\ held'[p] = IF status[s] = "active" THEN held[p] \cup {s} ELSE held[p]
          /\ todo'[p] = todo[p] \ {s}
    BY <1>0, <1>4 DEF CloseOne, TypeOK
  <2> QED BY <1>0, <2>1, <2>2 DEF Closes
\* Whatever else p does, it is not a block between its statements afterwards.
<1>5. CASE ~(BlockRejects(p) \/ RejectOne(p) \/ BlockCloses(p) \/ CloseOne(p))
  <2>1. \/ pc'[p] \notin {"rejecting", "closing"}
        \/ AcceptRow(p)
    BY <1>0, <1>5 DEF Statement, Arrive, Look, LockRequest, Refuse, LockStatus, CommitAccept,
       Announce, CommitBlock, Abort, Finish, Goto, TypeOK
  <2>2. CASE AcceptRow(p)
    <3>1. req' = req /\ req[p] \in Accepts
      BY <1>0, <2>2 DEF AcceptRow, TransactionInv, AtItsStatement
    <3> QED BY <3>1, RequestKinds DEF Closes
  <2>3. CASE pc'[p] \notin {"rejecting", "closing"}
    BY <2>3 DEF Closes
  <2> QED BY <2>1, <2>2, <2>3
<1> QED BY <1>1, <1>2, <1>3, <1>4, <1>5

LEMMA ClosesKeep == StatusInv /\ ClosesInv /\ [Next]_vars => ClosesInv'
<1> SUFFICES ASSUME StatusInv, ClosesInv, [Next]_vars, NEW q \in Procs PROVE Closes(q)'
  BY DEF ClosesInv
<1>0. TypeOK /\ Closes(q)
  BY DEF StatusInv, ClosesInv
<1>1. CASE UNCHANGED vars
  BY <1>0, <1>1 DEF vars, tables, txs, Closes
<1>2. ASSUME NEW s \in Statuses, CreateStatus(s) \/ Expire(s) PROVE Closes(q)'
  <2>1. UNCHANGED txs /\ \A t \in Statuses : status[t] = "active" => status'[t] = "active"
    BY <1>0, <1>2 DEF CreateStatus, Expire, TypeOK
  <2>2. held[q] \subseteq Statuses
    BY <1>0 DEF TypeOK
  <2> QED BY <1>0, <2>1, <2>2 DEF txs, Closes
<1>3. ASSUME NEW r \in Rows, Join(r) PROVE Closes(q)'
  BY <1>0, <1>3 DEF Join, txs, Closes
<1>4. ASSUME NEW p \in Procs, Arrive(p) \/ Statement(p) \/ Abort(p) PROVE Closes(q)'
  <2>1. CASE p = q
    BY <1>4, <2>1, ClosesOwn
  <2>2. CASE p # q
    <3>1. UNCHANGED <<req[q], pc[q], rows[q], held[q], todo[q]>>
      BY <1>0, <1>4, <2>2
         DEF Statement, Arrive, Look, LockRequest, Refuse, LockStatus, AcceptRow, RejectOne,
             CommitAccept, Announce, BlockRejects, BlockCloses, CloseOne, CommitBlock, Abort,
             Finish, Release, Goto, TypeOK
    <3>2. held[p] \cap held[q] = {} /\ held[q] \subseteq Statuses
      BY <1>0, <2>2 DEF StatusInv, LocksExclude, TypeOK
    <3>3. \A s \in Statuses : s \notin held[p] => status'[s] = status[s]
      <4>1. CASE CommitAccept(p)
        <5>1. held[p] = {req[p].row[1]}
          BY <4>1, RequestKinds
             DEF CommitAccept, StatusInv, TransactionInv, AtItsStatement, AcceptHolds
        <5> QED BY <1>0, <4>1, <5>1 DEF CommitAccept, TypeOK
      <4>2. CASE CommitBlock(p)
        BY <4>2 DEF CommitBlock
      <4>3. CASE UNCHANGED status
        BY <4>3
      <4> QED BY <1>4, <4>1, <4>2, <4>3
              DEF Statement, Arrive, Look, LockRequest, Refuse, LockStatus, AcceptRow, RejectOne,
                  Announce, BlockRejects, BlockCloses, CloseOne, Abort, tables
    <3>4. \A s \in held[q] : status'[s] = status[s]
      BY <3>2, <3>3
    <3> QED BY <1>0, <3>1, <3>4, ClosesElsewhere
  <2> QED BY <2>1, <2>2
<1> QED BY <1>1, <1>2, <1>3, <1>4 DEF Next

\* The commit of an accept is the decision, by what is pending at that moment.
LEMMA AcceptAtOnce ==
  ASSUME StatusInv, NEW p \in Procs, CommitAccept(p)
  PROVE  \E r \in Rows : AtOnce!Accept(r)
<1> DEFINE row == req[p].row
           lost == rows[p] \ {row}
<1>1. /\ TypeOK /\ TransactionInv(p) /\ req[p] \in Accepts /\ pc[p] = "rejecting" /\ todo[p] = {}
      /\ row \in Rows /\ rows[p] \subseteq Rows
  BY RequestKinds DEF CommitAccept, StatusInv, TransactionInv, AtItsStatement, TypeOK
<1>2. /\ row \in rows[p] /\ \A r \in rows[p] : r[1] = row[1] /\ request[r] = "pending"
  BY <1>1 DEF TransactionInv, AcceptHolds, HeldArePending
<1>3. lost \in SUBSET AtOnce!Siblings(row)
  BY <1>1, <1>2 DEF AtOnce!Siblings, AtOnce!Rows, Rows
<1>4. \A q \in lost \cup {row} : AtOnce!Pending(q)
  BY <1>2 DEF AtOnce!Pending
<1>5. ~rejoined => \A q \in AtOnce!Siblings(row) :
                     request[q] # "accepted" /\ (AtOnce!Pending(q) => q \in lost)
  <2> SUFFICES ASSUME ~rejoined, NEW q \in Rows \ {row}, q[1] = row[1]
               PROVE  request[q] # "accepted" /\ (request[q] = "pending" => q \in lost)
    BY DEF AtOnce!Siblings, AtOnce!Rows, AtOnce!Pending, Rows
  <2>1. Undecided(p)
    BY <1>1 DEF TransactionInv
  <2> QED BY <1>1, <1>2, <2>1 DEF Undecided
<1>6. /\ request' = [q \in Rows |-> IF q = row THEN "accepted"
                                    ELSE IF q \in lost THEN "rejected" ELSE request[q]]
      /\ status' = [status EXCEPT ![row[1]] = "closed"]
      /\ UNCHANGED <<expired, live, rejoined>>
  BY DEF CommitAccept
<1>7. AtOnce!Accept(row)
  BY <1>3, <1>4, <1>5, <1>6 DEF AtOnce!Accept, AtOnce!Rows, Rows
<1> QED BY <1>1, <1>7

\* So is the commit of a block.
LEMMA BlockAtOnce ==
  ASSUME StatusInv, ClosesInv, NEW p \in Procs, CommitBlock(p)
  PROVE  \E pair \in SUBSET Users : AtOnce!Block(pair)
<1>1. /\ TypeOK /\ TransactionInv(p) /\ Closes(p) /\ req[p] \in Blocks /\ pc[p] = "closing"
      /\ todo[p] = {} /\ rows[p] \subseteq Rows /\ req[p].pair \in SUBSET Users
  BY DEF CommitBlock, StatusInv, ClosesInv, TransactionInv, AtItsStatement, TypeOK, Blocks
<1>2. rows[p] \in SUBSET {r \in AtOnce!Rows : AtOnce!PairOf(r) = req[p].pair}
  BY <1>1 DEF TransactionInv, BlockHolds, AtOnce!Rows, Rows, AtOnce!PairOf, PairOf
<1>3. \A r \in rows[p] : AtOnce!Pending(r)
  BY <1>1 DEF TransactionInv, HeldArePending, AtOnce!Pending
<1>4. \A s \in Statuses :
        s \in held[p] <=> status[s] = "active" /\ \E r \in rows[p] : r[1] = s
  BY <1>1 DEF TransactionInv, BlockHolds, Closes
<1>5. /\ request' = [r \in AtOnce!Rows |-> IF r \in rows[p] THEN "rejected" ELSE request[r]]
      /\ UNCHANGED <<expired, live, rejoined>>
  BY DEF CommitBlock, AtOnce!Rows, Rows
<1>6. status' = [s \in Statuses |->
                   IF status[s] = "active" /\ \E r \in rows[p] : r[1] = s
                     THEN "closed" ELSE status[s]]
  <2>1. status' = [s \in Statuses |-> IF s \in held[p] THEN "closed" ELSE status[s]]
    BY DEF CommitBlock
  <2> QED BY <1>4, <2>1
<1>7. AtOnce!Block(req[p].pair)
  BY <1>2, <1>3, <1>5, <1>6 DEF AtOnce!Block
<1> QED BY <1>1, <1>7

\* Every step is a decision, an announcement, a post, an expiry, a join, or nothing.
LEMMA StepAtOnce == StatusInv /\ ClosesInv /\ [Next]_vars => [AtOnce!Next]_AtOnce!vars
<1> SUFFICES ASSUME StatusInv, ClosesInv, [Next]_vars PROVE [AtOnce!Next]_AtOnce!vars
  OBVIOUS
<1>1. CASE UNCHANGED vars
  BY <1>1 DEF vars, tables, AtOnce!vars
<1>2. ASSUME NEW s \in Statuses, CreateStatus(s) PROVE AtOnce!Next
  BY <1>2 DEF CreateStatus, AtOnce!Next, AtOnce!Post
<1>3. ASSUME NEW s \in Statuses, Expire(s) PROVE AtOnce!Next
  BY <1>3 DEF Expire, AtOnce!Next, AtOnce!Expire
<1>4. ASSUME NEW r \in Rows, Join(r) PROVE AtOnce!Next
  BY <1>4 DEF Join, AtOnce!Next, AtOnce!Join, AtOnce!Rows, Rows
<1>5. ASSUME NEW p \in Procs, CommitAccept(p) PROVE AtOnce!Next
  BY <1>5, AcceptAtOnce DEF AtOnce!Next, AtOnce!Rows, Rows
<1>6. ASSUME NEW p \in Procs, CommitBlock(p) PROVE AtOnce!Next
  BY <1>6, BlockAtOnce DEF AtOnce!Next
<1>7. ASSUME NEW p \in Procs, Announce(p) PROVE AtOnce!Next
  <2>1. req[p].row \in Rows /\ (rejoined \/ request[req[p].row] = "accepted")
    BY <1>7, RequestKinds
       DEF Announce, StatusInv, TransactionInv, AtItsStatement, Decided
  <2>2. AtOnce!Announce(req[p].row)
    BY <1>7, <2>1 DEF Announce, AtOnce!Announce
  <2> QED BY <2>1, <2>2 DEF AtOnce!Next, AtOnce!Rows, Rows
<1>8. CASE UNCHANGED tables
  BY <1>8 DEF tables, AtOnce!vars
<1> QED BY <1>1, <1>2, <1>3, <1>4, <1>5, <1>6, <1>7, <1>8
        DEF Next, Statement, Arrive, Look, LockRequest, Refuse, LockStatus, AcceptRow, RejectOne,
            BlockRejects, BlockCloses, CloseOne, Abort

\* The transactions implement Decisions: snapshots older than the locks, waits and
\* rollbacks included, each accept and each block is one decision.
THEOREM TransactionsDecideAtOnce == Spec => DecidesAtOnce
<1>1. Init => AtOnce!Init
  BY DEF Init, AtOnce!Init, AtOnce!Rows, Rows
<1> QED BY <1>1, InitStatus, StepKeeps, InitCloses, ClosesKeep, StepAtOnce, PTL
        DEF Spec, DecidesAtOnce, AtOnce!Spec
=============================================================================
