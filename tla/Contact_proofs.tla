--------------------------- MODULE Contact_proofs ---------------------------
(***************************************************************************)
(* What a member can still do to a match that was blocked, and what paid   *)
(* time is worth to a call or a date request, and what a call that rings   *)
(* costs: for any number of requests of the two members, in any            *)
(* interleaving with purchases and expiries.                               *)
(***************************************************************************)
EXTENDS Contact, FiniteSetTheorems, TLAPS

\* A request knows the match is there while it is in one of these.
Inside == {"valid", "told", "found", "half", "read", "allowed", "inserted"}
DateStates == {"found", "half", "read", "allowed", "inserted", "unpaid"}

\* The open transaction that deleted the match is a block, and `deleting` names it.
DeleterIsNamed ==
  \A r \in Requests : pc[r] = "deleted" => deleting = r /\ Kind[r] = "block"

\* A late request never gets inside.
LateStaysOutside ==
  /\ \A r \in late : ~matched /\ pc[r] # "new" /\ pc[r] \notin Inside
  /\ \A r \in Requests : pc[r] = "new" => r \notin stored /\ r \notin heard

\* After its quota check a call's asker has the flag only on paid time.
FlagIsPaidFor ==
  \A r \in Requests :
    pc[r] \in {"through", "attested"} /\ IsCall(r) /\ Asker[r] \in flag => r \in paying

\* Whoever is off paid time, or was read as being, while a date request is under
\* way is in its `unpaid`.
ReadsAreFounded ==
  /\ paid \subseteq flag
  /\ \A r \in Requests : pc[r] \in DateStates => Kind[r] = "date"
  /\ \A r \in Requests : UnderWay(r) /\ Kind[r] = "date" => Members \ paid \subseteq unpaid[r]
  /\ \A r \in Requests : pc[r] \in {"half", "read"} /\ Asker[r] \notin saw[r] => Asker[r] \in unpaid[r]
  /\ \A r \in Requests : pc[r] = "read" /\ Other(r) \notin saw[r] => Other(r) \in unpaid[r]

\* Calls of u that the quota let through for nothing and that rang, or may ring.
Free(u) ==
  {r \in Requests : Asker[r] = u /\ r \notin paying
                     /\ (r \in heard \/ pc[r] \in {"through", "attested", "valid", "told"})}

\* Every one of them was counted when it passed the quota.
FreeAreCounted ==
  \A u \in Members : IsFiniteSet(Free(u)) /\ Cardinality(Free(u)) <= FreeCalls - left[u]

BlockInv == DeleterIsNamed /\ MessagesHaveMatch /\ LateStaysOutside /\ BlockIsFinal
PaidInv  == FlagIsPaidFor /\ AskerTokenFitsPremium /\ ReadsAreFounded /\ UnpaidForAReason

LEMMA MembersOf ==
  ASSUME NEW r \in Requests
  PROVE  Asker[r] \in Members /\ Other(r) \in Members /\ Members = {Asker[r], Other(r)}
<1>1. Asker[r] \in Members /\ \E u \in Members : u # Asker[r]
  BY ContactConstants DEF ContactConstants
<1>2. Other(r) \in Members /\ Other(r) # Asker[r]
  BY <1>1 DEF Other
<1> QED BY <1>1, <1>2, ContactConstants DEF ContactConstants

LEMMA TypeKeeps == TypeOK /\ [Next]_vars => TypeOK'
<1> SUFFICES ASSUME TypeOK, [Next]_vars PROVE TypeOK'
  OBVIOUS
<1>1. CASE UNCHANGED vars
  BY <1>1 DEF vars, rows, users, history, TypeOK
<1>2. ASSUME NEW r \in Requests, Arrive(r) PROVE TypeOK'
  BY <1>2 DEF Arrive, Go, rows, users, TypeOK, States
<1>3. ASSUME NEW r \in Requests, CallNext(r) PROVE TypeOK'
  <2> USE <1>3 DEF CallNext, Quota, Attest, ValidateMatchAndRoles, Refuse, Initiate, Accept,
        AcceptOther, OnPaidTime, OnFreeCall, SendToUser, Go, rows, users, history
  <2>1. pc' \in [Requests -> States]
    BY DEF TypeOK, States, Ended
  <2>2. saw' \in [Requests -> SUBSET Members]
    BY DEF TypeOK
  <2>3. heard' \subseteq Requests /\ paying' \subseteq Requests
    BY DEF TypeOK
  <2>4. left' \in [Members -> 0..FreeCalls]
    BY ContactConstants DEF ContactConstants, TypeOK
  <2>5. flag' \subseteq Members
    BY DEF TypeOK
  <2>6. UNCHANGED <<matched, deleting, stored, paid, late, unpaid>>
    OBVIOUS
  <2> QED BY <2>1, <2>2, <2>3, <2>4, <2>5, <2>6 DEF TypeOK
<1>4. ASSUME NEW r \in Requests, DateNext(r) PROVE TypeOK'
  <2> USE <1>4 DEF DateNext, FindMatch, ReadSender, ReadOther, NeedsPremium, HasPremium,
        InsertMessage, CommitMessage, Premium, Go, rows, users, history, Idle
  <2>1. pc' \in [Requests -> States]
    BY DEF TypeOK, States, Ended
  <2>2. saw' \in [Requests -> SUBSET Members]
    BY MembersOf DEF TypeOK
  <2>3. stored' \subseteq Requests
    BY DEF TypeOK
  <2>4. UNCHANGED <<matched, deleting, paid, flag, left, heard, late, paying, unpaid>>
    OBVIOUS
  <2> QED BY <2>1, <2>2, <2>3, <2>4 DEF TypeOK
<1>5. ASSUME NEW r \in Requests, BlockNext(r) \/ Stop(r) PROVE TypeOK'
  <2> USE <1>5 DEF BlockNext, DeleteMatch, CommitBlock, Stop, Go, users, Idle, history
  <2>1. pc' \in [Requests -> States]
    BY DEF TypeOK, States, Ended
  <2>2. saw' \in [Requests -> SUBSET Members]
    BY DEF TypeOK
  <2>3. /\ matched' \in BOOLEAN /\ deleting' \in Requests \cup {NoBlock}
        /\ stored' \subseteq Requests
    BY DEF TypeOK
  <2>4. UNCHANGED <<paid, flag, left, heard, late, paying, unpaid>>
    OBVIOUS
  <2> QED BY <2>1, <2>2, <2>3, <2>4 DEF TypeOK
<1>6. ASSUME NEW u \in Members, Buy(u) \/ Expire(u) PROVE TypeOK'
  <2> USE <1>6 DEF Buy, Expire, rows
  <2>1. saw' \in [Requests -> SUBSET Members] /\ unpaid' \in [Requests -> SUBSET Members]
    BY DEF TypeOK
  <2>2. paid' \subseteq Members /\ flag' \subseteq Members /\ paying' \subseteq Requests
    BY DEF TypeOK
  <2>3. UNCHANGED <<matched, deleting, stored, left, pc, heard, late>>
    OBVIOUS
  <2> QED BY <2>1, <2>2, <2>3 DEF TypeOK
<1> QED BY <1>1, <1>2, <1>3, <1>4, <1>5, <1>6 DEF Next

----------------------------------------------------------------------------
(* The match, its messages, and the requests that come late.               *)

LEMMA BlockKeeps == TypeOK /\ BlockInv /\ [Next]_vars => BlockInv'
<1> SUFFICES ASSUME TypeOK, BlockInv, [Next]_vars PROVE BlockInv'
  OBVIOUS
<1> USE DEF BlockInv, DeleterIsNamed, MessagesHaveMatch, LateStaysOutside, BlockIsFinal, Inside
<1>1. CASE UNCHANGED <<matched, deleting, stored, pc, heard, late>>
  BY <1>1 DEF IsCall
<1>2. ASSUME NEW r \in Requests, Arrive(r) PROVE BlockInv'
  BY <1>2 DEF Arrive, Go, rows, TypeOK
<1>3. ASSUME NEW r \in Requests, CallNext(r) PROVE BlockInv'
  <2> USE <1>3 DEF CallNext, Quota, Attest, ValidateMatchAndRoles, Refuse, Initiate, Accept,
        AcceptOther, OnPaidTime, OnFreeCall, SendToUser, Go, rows, history
  <2>1. /\ UNCHANGED <<matched, deleting, stored, late>>
        /\ \A q \in Requests \ {r} : pc'[q] = pc[q] /\ (q \in heard' => q \in heard)
        /\ pc[r] # "new" /\ pc'[r] \notin {"new", "deleted", "inserted"}
    BY DEF TypeOK
  <2>2. r \in late => pc'[r] \notin Inside /\ pc'[r] # "done" /\ r \notin heard'
    BY DEF TypeOK
  <2> QED BY <2>1, <2>2 DEF TypeOK, IsCall
<1>4. ASSUME NEW r \in Requests, DateNext(r) PROVE BlockInv'
  <2> USE <1>4 DEF DateNext, FindMatch, ReadSender, ReadOther, NeedsPremium, HasPremium,
        InsertMessage, CommitMessage, Go, rows, history, Idle
  <2>1. /\ UNCHANGED <<matched, deleting, late, heard>>
        /\ stored' \in {stored, stored \cup {r}}
        /\ \A q \in Requests \ {r} : pc'[q] = pc[q]
        /\ pc[r] # "new" /\ pc'[r] \notin {"new", "deleted"}
        /\ matched \/ (pc'[r] # "inserted" /\ stored' = stored)
        /\ pc'[r] = "inserted" => deleting = NoBlock
    BY DEF TypeOK
  <2>2. r \notin late
    BY DEF TypeOK
  <2> QED BY <2>1, <2>2 DEF TypeOK, IsCall
<1>5. ASSUME NEW r \in Requests, BlockNext(r) PROVE BlockInv'
  <2>1. CASE DeleteMatch(r)
    BY <2>1, ContactConstants DEF ContactConstants, DeleteMatch, Go, Idle, history, TypeOK, IsCall
  <2>2. CASE CommitBlock(r)
    <3> USE <2>2 DEF CommitBlock, Go, Idle, history
    <3>1. /\ deleting = r /\ deleting # NoBlock /\ \A q \in Requests : pc[q] # "inserted"
          /\ \A q \in Requests \ {r} : pc[q] # "deleted"
      BY ContactConstants DEF ContactConstants
    <3>2. ~IsCall(r)
      BY DEF IsCall
    <3> QED BY <3>1, <3>2 DEF TypeOK, IsCall
  <2> QED BY <1>5, <2>1, <2>2 DEF BlockNext
<1>6. ASSUME NEW r \in Requests, Stop(r) PROVE BlockInv'
  BY <1>6 DEF Stop, UnderWay, Ended, history, TypeOK, IsCall
<1> QED BY <1>1, <1>2, <1>3, <1>4, <1>5, <1>6
        DEF Next, Buy, Expire, rows, vars, history

----------------------------------------------------------------------------
(* Paid time: the calls' tokens and the date requests.                     *)

LEMMA TokensKeep ==
  TypeOK /\ FlagIsPaidFor /\ AskerTokenFitsPremium /\ [Next]_vars
    => FlagIsPaidFor' /\ AskerTokenFitsPremium'
<1> SUFFICES ASSUME TypeOK, FlagIsPaidFor, AskerTokenFitsPremium, [Next]_vars
             PROVE  FlagIsPaidFor' /\ AskerTokenFitsPremium'
  OBVIOUS
<1> USE DEF FlagIsPaidFor, AskerTokenFitsPremium, LongToken, IsCall
<1>1. ASSUME UNCHANGED <<flag, paying>>,
             \A r \in Requests : pc'[r] \in {"through", "attested", "valid", "told"} =>
               pc'[r] = pc[r] /\ (IsCall(r) => saw'[r] = saw[r])
      PROVE  FlagIsPaidFor' /\ AskerTokenFitsPremium'
  BY <1>1
<1>2. ASSUME NEW r \in Requests, Arrive(r) \/ DateNext(r) \/ BlockNext(r) \/ Stop(r)
      PROVE  FlagIsPaidFor' /\ AskerTokenFitsPremium'
  <2>1. UNCHANGED <<flag, paying>>
    BY <1>2 DEF Arrive, DateNext, FindMatch, ReadSender, ReadOther, NeedsPremium, HasPremium,
                InsertMessage, CommitMessage, BlockNext, DeleteMatch, CommitBlock, Stop, users,
                history, Idle
  <2>2. \A q \in Requests : pc'[q] \in {"through", "attested", "valid", "told"} =>
          pc'[q] = pc[q] /\ saw'[q] = saw[q]
    BY <1>2 DEF Arrive, DateNext, FindMatch, ReadSender, ReadOther, NeedsPremium, HasPremium,
                InsertMessage, CommitMessage, BlockNext, DeleteMatch, CommitBlock, Stop, Go, TypeOK
  <2> QED BY <1>1, <2>1, <2>2
<1>3. ASSUME NEW r \in Requests, Quota(r)
      PROVE  FlagIsPaidFor' /\ AskerTokenFitsPremium'
  BY <1>3 DEF Quota, OnPaidTime, OnFreeCall, Go, users, TypeOK
<1>4. ASSUME NEW r \in Requests, Attest(r) \/ Refuse(r)
      PROVE  FlagIsPaidFor' /\ AskerTokenFitsPremium'
  BY <1>4 DEF Attest, Refuse, Go, users, history, TypeOK
<1>5. ASSUME NEW r \in Requests, ValidateMatchAndRoles(r)
      PROVE  FlagIsPaidFor' /\ AskerTokenFitsPremium'
  BY <1>5 DEF ValidateMatchAndRoles, Go, users, history, TypeOK
<1>6. ASSUME NEW r \in Requests, Initiate(r) \/ Accept(r) \/ AcceptOther(r)
      PROVE  FlagIsPaidFor' /\ AskerTokenFitsPremium'
  BY <1>6 DEF Initiate, Accept, AcceptOther, Go, users, history, TypeOK
<1>7. ASSUME NEW u \in Members, Buy(u)
      PROVE  FlagIsPaidFor' /\ AskerTokenFitsPremium'
  BY <1>7 DEF Buy, UnderWay, Ended, TypeOK
<1>8. ASSUME NEW u \in Members, Expire(u)
      PROVE  FlagIsPaidFor' /\ AskerTokenFitsPremium'
  BY <1>8 DEF Expire, TypeOK
<1>9. CASE UNCHANGED vars
  BY <1>9 DEF vars, users, history
<1> QED BY <1>2, <1>3, <1>4, <1>5, <1>6, <1>7, <1>8, <1>9 DEF Next, CallNext

LEMMA DatesKeep ==
  TypeOK /\ ReadsAreFounded /\ UnpaidForAReason /\ [Next]_vars
    => ReadsAreFounded' /\ UnpaidForAReason'
<1> SUFFICES ASSUME TypeOK, TypeOK', ReadsAreFounded, UnpaidForAReason, [Next]_vars
             PROVE  ReadsAreFounded' /\ UnpaidForAReason'
  BY TypeKeeps
<1> USE DEF ReadsAreFounded, UnpaidForAReason, DateStates, UnderWay, Ended
\* Steps of a request that neither reads nor ends a date request.
<1>1. ASSUME NEW r \in Requests, UNCHANGED <<paid, unpaid>>, paid \subseteq flag',
             \A q \in Requests \ {r} : pc'[q] = pc[q] /\ saw'[q] = saw[q],
             pc[r] # "new",
             pc'[r] \in DateStates => Kind[r] = "date",
             pc'[r] \notin {"half", "read", "unpaid"},
             Kind[r] = "date" => pc[r] \notin Ended
      PROVE  ReadsAreFounded' /\ UnpaidForAReason'
  BY <1>1, MembersOf
<1>2. ASSUME NEW r \in Requests, Arrive(r) PROVE ReadsAreFounded' /\ UnpaidForAReason'
  BY <1>2 DEF Arrive, Go, rows, users, TypeOK
<1>3. ASSUME NEW r \in Requests, CallNext(r) PROVE ReadsAreFounded' /\ UnpaidForAReason'
  <2> USE <1>3 DEF CallNext, Quota, Attest, ValidateMatchAndRoles, Refuse, Initiate, Accept,
        AcceptOther, OnPaidTime, OnFreeCall, Go, users, history
  <2>1. UNCHANGED <<paid, unpaid>> /\ paid \subseteq flag'
    OBVIOUS
  <2>2. /\ \A q \in Requests \ {r} : pc'[q] = pc[q] /\ saw'[q] = saw[q]
        /\ pc[r] \notin Ended \cup {"new"} /\ pc'[r] \notin DateStates
    BY DEF TypeOK
  <2> QED BY <1>1, <2>1, <2>2
<1>4. ASSUME NEW r \in Requests, FindMatch(r) \/ HasPremium(r) \/ InsertMessage(r) \/ CommitMessage(r)
      PROVE  ReadsAreFounded' /\ UnpaidForAReason'
  <2> USE <1>4 DEF FindMatch, HasPremium, InsertMessage, CommitMessage, Go, users, Idle, history
  <2>1. UNCHANGED <<paid, unpaid, flag>>
    OBVIOUS
  <2>2. /\ \A q \in Requests \ {r} : pc'[q] = pc[q] /\ saw'[q] = saw[q]
        /\ pc[r] \notin Ended \cup {"new"} /\ Kind[r] = "date"
        /\ pc'[r] \notin {"half", "read", "unpaid"}
    BY DEF TypeOK
  <2> QED BY <1>1, <2>1, <2>2
<1>5. ASSUME NEW r \in Requests, ReadSender(r) \/ ReadOther(r)
      PROVE  ReadsAreFounded' /\ UnpaidForAReason'
  BY <1>5, MembersOf DEF ReadSender, ReadOther, Premium, Go, users, Idle, history, TypeOK
<1>6. ASSUME NEW r \in Requests, NeedsPremium(r) PROVE ReadsAreFounded' /\ UnpaidForAReason'
  <2>1. unpaid[r] = Members
    <3>1. Asker[r] \in unpaid[r] /\ Other(r) \in unpaid[r]
      BY <1>6 DEF NeedsPremium, Go
    <3>2. Members = {Asker[r], Other(r)}
      BY MembersOf
    <3>3. unpaid[r] \subseteq Members
      BY DEF TypeOK
    <3> QED BY <3>1, <3>2, <3>3
  <2> QED BY <1>6, <2>1 DEF NeedsPremium, Go, users, Idle, history, TypeOK
<1>7. ASSUME NEW r \in Requests, BlockNext(r) PROVE ReadsAreFounded' /\ UnpaidForAReason'
  BY <1>7 DEF BlockNext, DeleteMatch, CommitBlock, Go, users, Idle, history, TypeOK
<1>8. ASSUME NEW r \in Requests, Stop(r) PROVE ReadsAreFounded' /\ UnpaidForAReason'
  BY <1>8 DEF Stop, users, history, TypeOK
<1>9. ASSUME NEW u \in Members, Buy(u) \/ Expire(u) PROVE ReadsAreFounded' /\ UnpaidForAReason'
  BY <1>9, MembersOf DEF Buy, Expire, TypeOK
<1>10. CASE UNCHANGED vars
  BY <1>10 DEF vars, users, history
<1> QED BY <1>2, <1>3, <1>4, <1>5, <1>6, <1>7, <1>8, <1>9, <1>10 DEF Next, DateNext

----------------------------------------------------------------------------
(* The calls that ring, and the free calls of the month.                   *)

LEMMA FewerAreCounted ==
  ASSUME FreeAreCounted, NEW u \in Members, Free(u)' \subseteq Free(u), left'[u] = left[u],
         left[u] \in Nat, FreeCalls \in Nat
  PROVE  IsFiniteSet(Free(u)') /\ Cardinality(Free(u)') <= FreeCalls - left'[u]
<1> DEFINE New == Free(u)'
<1>1. IsFiniteSet(Free(u)) /\ Cardinality(Free(u)) <= FreeCalls - left[u]
  BY DEF FreeAreCounted
<1>2. New \in SUBSET Free(u)
  OBVIOUS
<1> HIDE DEF New
<1>3. IsFiniteSet(New) /\ Cardinality(New) <= Cardinality(Free(u))
  BY <1>1, <1>2, FS_Subset
<1>4. Cardinality(New) \in Nat /\ Cardinality(Free(u)) \in Nat
  BY <1>1, <1>3, FS_CardinalityType
<1>5. IsFiniteSet(New) /\ Cardinality(New) <= FreeCalls - left'[u]
  BY <1>1, <1>3, <1>4
<1> QED BY <1>5 DEF New

LEMMA OneMoreIsCounted ==
  ASSUME FreeAreCounted, NEW u \in Members, NEW r, Free(u)' \subseteq Free(u) \cup {r},
         left'[u] = left[u] - 1, left[u] \in Nat, FreeCalls \in Nat
  PROVE  IsFiniteSet(Free(u)') /\ Cardinality(Free(u)') <= FreeCalls - left'[u]
<1> DEFINE New == Free(u)'
<1>1. IsFiniteSet(Free(u)) /\ Cardinality(Free(u)) <= FreeCalls - left[u]
  BY DEF FreeAreCounted
<1>2. New \in SUBSET (Free(u) \cup {r})
  OBVIOUS
<1> HIDE DEF New
<1>3. /\ IsFiniteSet(Free(u) \cup {r})
      /\ Cardinality(Free(u)) \in Nat
      /\ Cardinality(Free(u) \cup {r}) <= Cardinality(Free(u)) + 1
  <2>1. Cardinality(Free(u)) \in Nat
    BY <1>1, FS_CardinalityType
  <2>2. /\ IsFiniteSet(Free(u) \cup {r})
        /\ Cardinality(Free(u) \cup {r}) =
             IF r \in Free(u) THEN Cardinality(Free(u)) ELSE Cardinality(Free(u)) + 1
    BY <1>1, FS_AddElement
  <2>3. \/ Cardinality(Free(u) \cup {r}) = Cardinality(Free(u))
        \/ Cardinality(Free(u) \cup {r}) = Cardinality(Free(u)) + 1
    BY <2>2
  <2> QED BY <2>1, <2>2, <2>3
<1>4. IsFiniteSet(New) /\ Cardinality(New) <= Cardinality(Free(u) \cup {r})
  BY <1>2, <1>3, FS_Subset
<1>5. Cardinality(New) \in Nat /\ Cardinality(Free(u) \cup {r}) \in Nat
  BY <1>3, <1>4, FS_CardinalityType
<1>6. IsFiniteSet(New) /\ Cardinality(New) <= FreeCalls - left'[u]
  BY <1>1, <1>3, <1>4, <1>5
<1> QED BY <1>6 DEF New

LEMMA CountsKeep == TypeOK /\ FreeAreCounted /\ [Next]_vars => FreeAreCounted'
<1> SUFFICES ASSUME TypeOK, FreeAreCounted, [Next]_vars, NEW u \in Members
             PROVE  IsFiniteSet(Free(u)') /\ Cardinality(Free(u)') <= FreeCalls - left'[u]
  BY DEF FreeAreCounted
<1>0. left[u] \in Nat /\ FreeCalls \in Nat
  BY ContactConstants DEF ContactConstants, TypeOK
<1>1. ASSUME NEW r \in Requests, Quota(r)
      PROVE  IsFiniteSet(Free(u)') /\ Cardinality(Free(u)') <= FreeCalls - left'[u]
  <2>1. /\ heard' = heard
        /\ \A q \in Requests \ {r} : pc'[q] = pc[q] /\ (q \in paying' <=> q \in paying)
    BY <1>1 DEF Quota, OnPaidTime, OnFreeCall, Go, TypeOK
  <2>2. CASE OnPaidTime(r) \/ u # Asker[r]
    <3>1. Free(u)' \subseteq Free(u) /\ left'[u] = left[u]
      BY <1>1, <2>1, <2>2 DEF Quota, OnPaidTime, OnFreeCall, Free, users, TypeOK
    <3> QED BY <1>0, <3>1, FewerAreCounted
  <2>3. CASE OnFreeCall(r) /\ u = Asker[r]
    <3>1. Free(u)' \subseteq Free(u) \cup {r} /\ left'[u] = left[u] - 1
      BY <2>1, <2>3 DEF OnFreeCall, Free, TypeOK
    <3> QED BY <1>0, <3>1, OneMoreIsCounted
  <2> QED BY <1>1, <2>2, <2>3 DEF Quota
\* No other step lets a call through, and only calls that are through ring.
<1>2. ASSUME UNCHANGED left, paying \subseteq paying',
             \A r \in Requests :
               r \in heard' \/ pc'[r] \in {"through", "attested", "valid", "told"} =>
                 r \in heard \/ pc[r] \in {"through", "attested", "valid", "told"}
      PROVE  IsFiniteSet(Free(u)') /\ Cardinality(Free(u)') <= FreeCalls - left'[u]
  <2>1. Free(u)' \subseteq Free(u)
    BY <1>2 DEF Free
  <2> QED BY <1>0, <1>2, <2>1, FewerAreCounted
<1>3. ASSUME NEW r \in Requests,
             \/ Attest(r) \/ ValidateMatchAndRoles(r) \/ Refuse(r)
             \/ Initiate(r) \/ Accept(r) \/ AcceptOther(r)
      PROVE  IsFiniteSet(Free(u)') /\ Cardinality(Free(u)') <= FreeCalls - left'[u]
  <2> USE <1>3 DEF Attest, ValidateMatchAndRoles, Refuse, Initiate, Accept, AcceptOther,
        SendToUser, Go, users, history
  <2>1. UNCHANGED <<left, paying>>
    OBVIOUS
  <2>2. /\ \A q \in Requests \ {r} : pc'[q] = pc[q] /\ (q \in heard' <=> q \in heard)
        /\ r \in heard' \/ pc'[r] \in {"through", "attested", "valid", "told"} =>
             r \in heard \/ pc[r] \in {"through", "attested", "valid", "told"}
    BY DEF TypeOK
  <2> QED BY <1>2, <2>1, <2>2
<1>4. ASSUME NEW r \in Requests, Arrive(r) \/ DateNext(r) \/ BlockNext(r) \/ Stop(r)
      PROVE  IsFiniteSet(Free(u)') /\ Cardinality(Free(u)') <= FreeCalls - left'[u]
  <2> USE <1>4 DEF Arrive, DateNext, FindMatch, ReadSender, ReadOther, NeedsPremium, HasPremium,
        InsertMessage, CommitMessage, BlockNext, DeleteMatch, CommitBlock, Stop, Go, users,
        history, Idle
  <2>1. UNCHANGED <<left, heard, paying>>
    OBVIOUS
  <2>2. \A q \in Requests : pc'[q] \in {"through", "attested", "valid", "told"} => pc'[q] = pc[q]
    BY DEF TypeOK
  <2> QED BY <1>2, <2>1, <2>2
<1>5. ASSUME NEW v \in Members, Buy(v) \/ Expire(v)
      PROVE  IsFiniteSet(Free(u)') /\ Cardinality(Free(u)') <= FreeCalls - left'[u]
  BY <1>2, <1>5 DEF Buy, Expire
<1>6. CASE UNCHANGED vars
  BY <1>2, <1>6 DEF vars, users, history
<1> QED BY <1>1, <1>3, <1>4, <1>5, <1>6 DEF Next, CallNext

----------------------------------------------------------------------------

ContactInv == TypeOK /\ BlockInv /\ PaidInv /\ FreeAreCounted

LEMMA InitContact == Init => ContactInv
<1> SUFFICES ASSUME Init PROVE ContactInv
  OBVIOUS
<1>1. TypeOK
  BY ContactConstants DEF ContactConstants, Init, TypeOK, States, Ended
<1>2. BlockInv
  BY DEF Init, BlockInv, DeleterIsNamed, MessagesHaveMatch, LateStaysOutside, BlockIsFinal, Inside
<1>3. PaidInv
  BY DEF Init, PaidInv, FlagIsPaidFor, AskerTokenFitsPremium, LongToken, ReadsAreFounded, DateStates,
         UnderWay, UnpaidForAReason
<1>4. FreeAreCounted
  <2>1. \A u \in Members : Free(u) = {} /\ left[u] = FreeCalls
    BY DEF Init, Free
  <2> QED BY <2>1, FS_EmptySet, ContactConstants DEF ContactConstants, FreeAreCounted
<1> QED BY <1>1, <1>2, <1>3, <1>4 DEF ContactInv

LEMMA ContactStays == Spec => []ContactInv
<1>1. ContactInv /\ [Next]_vars => ContactInv'
  BY TypeKeeps, BlockKeeps, TokensKeep, DatesKeep, CountsKeep DEF ContactInv, PaidInv
<1> QED BY <1>1, InitContact, PTL DEF Spec

\* The match, the members and the requests are what the schema and the code declare.
THEOREM ContactTypes == Spec => []TypeOK
  BY ContactStays, PTL DEF ContactInv

\* No message outlives its match, whoever waits for whom.
THEOREM MessagesKeepTheirMatch == Spec => []MessagesHaveMatch
  BY ContactStays, PTL DEF ContactInv, BlockInv

\* After a block no later request rings, gets tokens or stores a message.
THEOREM BlocksAreFinal == Spec => []BlockIsFinal
  BY ContactStays, PTL DEF ContactInv, BlockInv

\* The quota check makes the premium flag right for the one who asks.
THEOREM AskersTokenIsRight == Spec => []AskerTokenFitsPremium
  BY ContactStays, PTL DEF ContactInv, PaidInv

\* A member reaches the other side without paid time no more often than the quota
\* counted, whatever is bought, expires, fails or is lost meanwhile.
THEOREM SignalsAreCounted == Spec => []QuotaCoversSignals
<1>1. ContactInv => QuotaCoversSignals
  <2> SUFFICES ASSUME ContactInv, NEW u \in Members
               PROVE  Cardinality({r \in heard : Asker[r] = u /\ r \notin paying})
                        <= FreeCalls - left[u]
    BY DEF QuotaCoversSignals
  <2> DEFINE Rung == {r \in heard : Asker[r] = u /\ r \notin paying}
  <2>1. Rung \in SUBSET Free(u)
    BY DEF ContactInv, TypeOK, Free
  <2>2. IsFiniteSet(Free(u)) /\ Cardinality(Free(u)) <= FreeCalls - left[u]
    BY DEF ContactInv, FreeAreCounted
  <2>3. left[u] \in Nat /\ FreeCalls \in Nat
    BY ContactConstants DEF ContactConstants, ContactInv, TypeOK
  <2> HIDE DEF Rung
  <2>4. IsFiniteSet(Rung) /\ Cardinality(Rung) <= Cardinality(Free(u))
    BY <2>1, <2>2, FS_Subset
  <2>5. Cardinality(Rung) \in Nat /\ Cardinality(Free(u)) \in Nat
    BY <2>2, <2>4, FS_CardinalityType
  <2>6. Cardinality(Rung) <= FreeCalls - left[u]
    BY <2>2, <2>3, <2>4, <2>5
  <2> QED BY <2>6 DEF Rung
<1> QED BY <1>1, ContactStays, PTL

\* A date request refused for want of premium had two sides without paid time.
THEOREM RefusedDatesAreUnpaid == Spec => []UnpaidForAReason
  BY ContactStays, PTL DEF ContactInv, PaidInv
=============================================================================
