-------------------------- MODULE Accounts_proofs --------------------------
(***************************************************************************)
(* Rotation of refresh tokens, for any number of devices and requests,     *)
(* although a token is no more than the second it was minted in: revocation *)
(* is final, a refusal has a reason, and valid rows never outnumber what   *)
(* accounts for them.  And the age check, for any dates.                   *)
(***************************************************************************)
EXTENDS Accounts, FiniteSetTheorems, TLAPS

\* A token that is about to be inserted was minted, and is counted apart from any
\* other mint of its second, committed or about to be.
MintsCounted ==
  /\ \A s \in issued : mints[s] >= 1
  /\ \A r \in Requests : pc[r] = "minted" =>
       /\ minted[r] \in Seconds
       /\ mints[minted[r]] >= 1
       /\ minted[r] \in issued => Twin(minted[r])
  /\ \A q, r \in Requests :
       q # r /\ pc[q] = "minted" /\ pc[r] = "minted" /\ minted[q] = minted[r]
         => Twin(minted[r])

AccountsInv == TypeOK /\ MintsCounted

LEMMA SecondsAreNat == \A s \in Seconds : s \in Nat
  BY AccountsConstants DEF AccountsConstants, Seconds

LEMMA InitAccounts == Init => AccountsInv
<1> SUFFICES ASSUME Init PROVE AccountsInv
  OBVIOUS
<1>1. 1 \in Seconds
  BY AccountsConstants DEF AccountsConstants, Seconds
<1>2. /\ live \in [Seconds -> Nat] /\ mints \in [Seconds -> Nat]
      /\ held \in [Devices -> {0} \cup Seconds]
      /\ shown \in [Requests -> {0} \cup Seconds] /\ minted \in [Requests -> {0} \cup Seconds]
  BY DEF Init
<1>3. /\ pc \in [Requests -> {"new", "asked", "checked", "minted", "issued", "invalid", "failed"}]
      /\ kind \in [Requests -> {"none", "register", "login", "refresh"}]
      /\ by \in [Requests -> Devices \cup {None}] /\ waits \in [Devices -> Requests \cup {None}]
  BY DEF Init
<1>4. TypeOK
  BY <1>1, <1>2, <1>3 DEF Init, TypeOK
<1>5. MintsCounted
  BY DEF Init, MintsCounted
<1> QED BY <1>4, <1>5 DEF AccountsInv

\* Steps that mint nothing, commit nothing and bring no request to "minted".
LEMMA MintsAlone ==
  ASSUME AccountsInv, UNCHANGED <<mints, issued, minted>>,
         \A r \in Requests : pc'[r] = "minted" => pc[r] = "minted"
  PROVE  MintsCounted'
  BY DEF AccountsInv, MintsCounted, Twin

LEMMA AskKeeps ==
  ASSUME AccountsInv, NEW r \in Requests, NEW d \in Devices,
         AskRegister(r, d) \/ AskLogin(r, d) \/ AskRefresh(r, d)
  PROVE  AccountsInv'
<1> USE DEF AccountsInv
<1>1. /\ UNCHANGED <<clock, account, live, held, minted, mints, issued, signIns, givenUp>>
      /\ waits' = [waits EXCEPT ![d] = r]
      /\ by' = [by EXCEPT ![r] = d]
  BY DEF AskRegister, AskLogin, AskRefresh, Ask, server, history
<1>2. kind' \in [Requests -> {"none", "register", "login", "refresh"}]
  BY DEF AskRegister, AskLogin, AskRefresh, Ask, TypeOK
<1>3. /\ pc' \in [Requests -> {"new", "asked", "checked", "minted", "issued", "invalid", "failed"}]
      /\ \A q \in Requests : pc'[q] = "minted" => pc[q] = "minted"
  BY DEF AskRegister, AskLogin, AskRefresh, TypeOK
<1>4. shown' \in [Requests -> {0} \cup Seconds]
  BY DEF AskRegister, AskLogin, AskRefresh, TypeOK
<1>5. minors' \subseteq Births \X Todays
  BY DEF AskRegister, AskLogin, AskRefresh, TypeOK
<1>6. TypeOK'
  BY <1>1, <1>2, <1>3, <1>4, <1>5 DEF TypeOK
<1>7. MintsCounted'
  BY <1>1, <1>3, MintsAlone
<1> QED BY <1>6, <1>7

LEMMA GenerateKeeps ==
  ASSUME AccountsInv, NEW r \in Requests, GenerateRefreshToken(r)
  PROVE  AccountsInv'
<1> USE DEF AccountsInv, GenerateRefreshToken, Serve, server
<1>1. TypeOK'
  <2>1. minted' \in [Requests -> {0} \cup Seconds] /\ mints' \in [Seconds -> Nat]
    BY DEF TypeOK
  <2>2. pc' \in [Requests -> {"new", "asked", "checked", "minted", "issued", "invalid", "failed"}]
    BY DEF TypeOK
  <2> QED BY <2>1, <2>2 DEF TypeOK, client
<1>2. /\ clock \in Seconds /\ minted'[r] = clock /\ mints'[clock] = mints[clock] + 1
      /\ \A s \in Seconds : mints[s] \in Nat /\ mints'[s] \in Nat /\ mints[s] <= mints'[s]
      /\ \A q \in Requests \ {r} : pc'[q] = pc[q] /\ minted'[q] = minted[q]
  BY DEF TypeOK
<1>3. \A s \in issued : s \in Seconds /\ mints'[s] >= 1
  BY <1>2 DEF TypeOK, MintsCounted
<1>4. \A s \in Seconds : mints[s] >= 1 /\ s = clock => Twin(s)'
  BY <1>2 DEF Twin
<1>5. \A s \in Seconds : Twin(s) => Twin(s)'
  BY <1>2 DEF Twin
<1>6. \A q \in Requests : pc'[q] = "minted" =>
        /\ minted'[q] \in Seconds
        /\ mints'[minted'[q]] >= 1
        /\ minted'[q] \in issued' => Twin(minted[q])'
  <2> SUFFICES ASSUME NEW q \in Requests, pc'[q] = "minted"
               PROVE  /\ minted'[q] \in Seconds
                      /\ mints'[minted'[q]] >= 1
                      /\ minted'[q] \in issued' => Twin(minted[q])'
    OBVIOUS
  <2>1. CASE q = r
    BY <1>2, <1>3, <1>4, <2>1 DEF MintsCounted, TypeOK
  <2>2. CASE q # r
    BY <1>2, <1>5, <2>2 DEF MintsCounted
  <2> QED BY <2>1, <2>2
<1>7. \A p, q \in Requests :
        p # q /\ pc'[p] = "minted" /\ pc'[q] = "minted" /\ minted'[p] = minted'[q]
          => Twin(minted[q])'
  BY <1>2, <1>4, <1>5 DEF MintsCounted, TypeOK
<1>8. MintsCounted'
  BY <1>3, <1>6, <1>7 DEF MintsCounted
<1> QED BY <1>1, <1>8

\* What a commit does to the requests and the tokens, whichever it is.
LEMMA IssueKeeps ==
  ASSUME AccountsInv, NEW r \in Requests, Issue(r)
  PROVE  MintsCounted'
<1> USE DEF AccountsInv, Issue, Serve
<1>1. /\ UNCHANGED <<mints, minted>> /\ pc[r] = "minted" /\ minted[r] \in Seconds
      /\ mints[minted[r]] >= 1
      /\ issued' = issued \cup {minted[r]}
      /\ \A q \in Requests : pc'[q] = "minted" => q # r /\ pc[q] = "minted"
  BY DEF TypeOK, MintsCounted
<1>2. \A s \in Seconds : Twin(s)' <=> Twin(s)
  BY <1>1 DEF Twin
<1>3. \A q \in Requests : pc'[q] = "minted" /\ minted'[q] \in issued' => Twin(minted[q])'
  BY <1>1, <1>2 DEF MintsCounted
<1> QED BY <1>1, <1>2, <1>3 DEF MintsCounted

LEMMA InsertTyped ==
  ASSUME NEW tokens \in [Seconds -> Nat], NEW s \in Seconds
  PROVE  Insert(tokens, s) \in [Seconds -> Nat]
  BY DEF Insert

LEMMA CommitKeeps ==
  ASSUME AccountsInv, NEW r \in Requests,
         CommitRegister(r) \/ CommitLogin(r) \/ CommitRefresh(r)
  PROVE  AccountsInv'
<1> USE DEF AccountsInv, CommitRegister, CommitLogin, CommitRefresh
<1>1. Issue(r)
  OBVIOUS
<1>2. minted[r] \in Seconds
  BY <1>1 DEF Issue, MintsCounted
<1>3. live' \in [Seconds -> Nat] /\ account' \in BOOLEAN /\ signIns' \in Nat
  <2>1. live \in [Seconds -> Nat] /\ Revoke(shown[r]) \in [Seconds -> Nat]
    BY DEF TypeOK, Revoke
  <2>2. live' = Insert(live, minted[r]) \/ live' = Insert(Revoke(shown[r]), minted[r])
    BY DEF Rotated
  <2>3. live' \in [Seconds -> Nat]
    BY <1>2, <2>1, <2>2, InsertTyped
  <2>4. signIns \in Nat /\ (signIns' = signIns \/ signIns' = signIns + 1)
    BY DEF TypeOK
  <2>5. account' = TRUE \/ account' = account
    OBVIOUS
  <2>6. account' \in BOOLEAN
    BY <2>5 DEF TypeOK
  <2>7. signIns' \in Nat
    BY <2>4
  <2> QED BY <2>3, <2>6, <2>7
<1>4. TypeOK'
  BY <1>1, <1>2, <1>3 DEF TypeOK, Issue, Serve, client
<1> QED BY <1>1, <1>4, IssueKeeps

\* CheckToken, Fail, the devices and the clock.
LEMMA OthersKeep ==
  ASSUME AccountsInv,
         \/ \E r \in Requests : CheckToken(r) \/ Fail(r)
         \/ \E d \in Devices : Receive(d) \/ Desert(d)
         \/ Tick
         \/ UNCHANGED vars
  PROVE  AccountsInv'
<1> USE DEF AccountsInv
<1>1. UNCHANGED <<account, live, kind, by, shown, minted, minors, mints, issued, signIns>>
  BY DEF CheckToken, Fail, Receive, Desert, Tick, vars, server, client, request, history, Serve
<1>2. /\ pc' \in [Requests -> {"new", "asked", "checked", "minted", "issued", "invalid", "failed"}]
      /\ \A q \in Requests : pc'[q] = "minted" => pc[q] = "minted"
  BY DEF CheckToken, Fail, Receive, Desert, Tick, vars, request, TypeOK
<1>3. clock' \in Seconds
  BY AccountsConstants
     DEF AccountsConstants, CheckToken, Fail, Receive, Desert, Tick, vars, Serve, TypeOK, Seconds
<1>4. held' \in [Devices -> {0} \cup Seconds]
  <2>1. ASSUME NEW d \in Devices, Receive(d) PROVE held' \in [Devices -> {0} \cup Seconds]
    <3>1. waits[d] \in Requests
      BY <2>1 DEF Receive, TypeOK
    <3> QED BY <2>1, <3>1 DEF Receive, TypeOK
  <2>2. ASSUME NEW d \in Devices, Desert(d) PROVE held' \in [Devices -> {0} \cup Seconds]
    BY <2>2 DEF Desert, TypeOK
  <2> QED BY <2>1, <2>2 DEF CheckToken, Fail, Tick, vars, client, Serve, server, TypeOK
<1>5. waits' \in [Devices -> Requests \cup {None}]
  BY DEF CheckToken, Fail, Receive, Desert, Tick, vars, Serve, client, TypeOK
<1>6. givenUp' \subseteq Requests
  BY DEF CheckToken, Fail, Receive, Desert, Tick, vars, history, TypeOK
<1>7. TypeOK'
  BY <1>1, <1>2, <1>3, <1>4, <1>5, <1>6 DEF TypeOK
<1> QED BY <1>1, <1>2, <1>7, MintsAlone

LEMMA StepKeeps == AccountsInv /\ [Next]_vars => AccountsInv'
  BY AskKeeps, GenerateKeeps, CommitKeeps, OthersKeep DEF Next

LEMMA AccountsKeep == Spec => []AccountsInv
  BY InitAccounts, StepKeeps, PTL DEF Spec

----------------------------------------------------------------------------
(* Where the tokens are, and why one is refused.                           *)

\* The token a device holds, or is about to receive.
Holds(d) ==
  IF waits[d] # None /\ pc[waits[d]] = "issued" THEN minted[waits[d]] ELSE held[d]

Pending == {"asked", "checked", "minted"}

\* A device waits for a request of its own: with the token it holds for a refresh,
\* with none for a sign-in.
Waiting ==
  \A d \in Devices, r \in Requests : waits[d] = r =>
    /\ by[r] = d /\ pc[r] # "new" /\ r \notin givenUp
    /\ kind[r] = "refresh" => held[d] = shown[r]
    /\ kind[r] # "refresh" => held[d] = 0

\* A refresh under way is waited for until it is given up.
Refreshing ==
  /\ \A r \in givenUp : kind[r] = "refresh" /\ pc[r] # "new"
  /\ \A r \in Requests :
       /\ kind[r] = "refresh" => shown[r] \in Seconds
       /\ pc[r] = "asked" => kind[r] = "refresh"
       /\ kind[r] = "refresh" /\ pc[r] \in Pending =>
            r \in givenUp \/ \E d \in Devices : waits[d] = r

\* A token is one request's, unless it is a twin, and who holds it sent that request.
Source ==
  /\ \A r \in Requests :
       /\ pc[r] \in {"new", "asked", "checked"} => minted[r] = 0
       /\ pc[r] \in {"minted", "issued"} => minted[r] \in Seconds
       /\ minted[r] # 0 => mints[minted[r]] >= 1
  /\ \A q, r \in Requests :
       q # r /\ minted[q] = minted[r] /\ minted[r] # 0 => Twin(minted[r])
  /\ \A d \in Devices :
       \A s \in {held[d], Holds(d)} \ {0} : \E r \in Requests : by[r] = d /\ minted[r] = s

\* The token of a device is good, or there is a reason it is not.
Spent(s) == Twin(s) \/ \E q \in givenUp : shown[q] = s
Backed == \A d \in Devices : Holds(d) # 0 => live[Holds(d)] >= 1 \/ Spent(Holds(d))

TokensInv == Waiting /\ Refreshing /\ Source /\ Backed

LEMMA HoldsTyped == ASSUME TypeOK, NEW d \in Devices PROVE Holds(d) \in {0} \cup Seconds
  BY DEF TypeOK, Holds

LEMMA SpentStays ==
  ASSUME NEW s \in Seconds, TypeOK, TypeOK', Spent(s), givenUp \subseteq givenUp',
         mints[s] <= mints'[s], \A q \in givenUp : shown'[q] = shown[q]
  PROVE  Spent(s)'
  BY DEF Spent, Twin, TypeOK

LEMMA AskTokens ==
  ASSUME TypeOK, TypeOK', TokensInv, NEW r \in Requests, NEW d \in Devices,
         AskRegister(r, d) \/ AskLogin(r, d) \/ AskRefresh(r, d)
  PROVE  TokensInv' /\ \A e \in Devices : Holds(e)' = Holds(e)
<1> USE DEF TokensInv
<1>1. /\ UNCHANGED <<live, held, minted, mints, givenUp>>
      /\ waits[d] = None /\ waits' = [waits EXCEPT ![d] = r]
      /\ by' = [by EXCEPT ![r] = d]
      /\ pc[r] = "new" /\ pc'[r] \in {"asked", "checked", "failed"}
      /\ \A q \in Requests \ {r} : pc'[q] = pc[q] /\ kind'[q] = kind[q] /\ shown'[q] = shown[q]
  BY DEF AskRegister, AskLogin, AskRefresh, Ask, server, history, TypeOK
<1>2. \/ kind'[r] = "refresh" /\ pc'[r] = "asked" /\ shown'[r] = held[d] /\ held[d] \in Seconds
      \/ kind'[r] # "refresh" /\ pc'[r] # "asked" /\ held[d] = 0
  BY DEF AskRegister, AskLogin, AskRefresh, Ask, TypeOK
<1>3. None \notin Requests /\ (\A e \in Devices : waits[e] # r) /\ r \notin givenUp
  BY <1>1, AccountsConstants DEF AccountsConstants, Waiting, Refreshing
<1>4. Waiting'
  BY <1>1, <1>2, <1>3 DEF Waiting, TypeOK
<1>5. Refreshing'
  BY <1>1, <1>2, <1>3 DEF Refreshing, Pending, TypeOK
<1>6. \A e \in Devices : Holds(e)' = Holds(e)
  BY <1>1, <1>3 DEF Holds, TypeOK
<1>7. Source'
  BY <1>1, <1>6 DEF Source, Twin, TypeOK
<1>8. Backed'
  <2>1. \A s \in Seconds : Spent(s) => Spent(s)'
    BY <1>1, <1>3, SpentStays DEF TypeOK
  <2> QED BY <1>1, <1>6, <2>1, HoldsTyped DEF Backed
<1> QED BY <1>4, <1>5, <1>6, <1>7, <1>8

LEMMA GenerateTokens ==
  ASSUME TypeOK, TypeOK', TokensInv, NEW r \in Requests, GenerateRefreshToken(r)
  PROVE  TokensInv' /\ \A e \in Devices : Holds(e)' = Holds(e)
<1> USE DEF TokensInv
<1>1. /\ UNCHANGED <<live, held, waits, by, kind, shown, givenUp>>
      /\ pc[r] = "checked" /\ pc'[r] = "minted"
      /\ clock \in Seconds /\ minted'[r] = clock /\ mints'[clock] = mints[clock] + 1
      /\ \A s \in Seconds : mints[s] \in Nat /\ mints'[s] \in Nat /\ mints[s] <= mints'[s]
      /\ \A q \in Requests \ {r} : pc'[q] = pc[q] /\ minted'[q] = minted[q]
  BY DEF GenerateRefreshToken, Serve, server, client, TypeOK
<1>2. Waiting'
  BY <1>1 DEF Waiting
<1>3. Refreshing'
  BY <1>1 DEF Refreshing, Pending, TypeOK
<1>4. \A e \in Devices : Holds(e)' = Holds(e)
  BY <1>1 DEF Holds, TypeOK
<1>5. Source'
  <2>1. minted[r] = 0 /\ 0 \notin Seconds
    BY <1>1 DEF Source, Seconds
  <2>2. \A q \in Requests : minted'[q] # 0 => mints'[minted'[q]] >= 1
    <3>1. \A q \in Requests \ {r} : minted[q] # 0 => minted[q] \in Seconds /\ mints[minted[q]] >= 1
      BY DEF Source, TypeOK
    <3> QED BY <1>1, <3>1
  <2>3. ASSUME NEW p \in Requests, NEW q \in Requests, p # q, minted'[p] = minted'[q], minted'[q] # 0
        PROVE  mints'[minted'[q]] > 1
    <3>1. \A t \in Requests \ {r} :
            minted[t] # 0 => minted[t] \in Seconds /\ mints[minted[t]] >= 1
      BY DEF Source, TypeOK
    <3>2. CASE p = r \/ q = r
      BY <1>1, <2>3, <3>1, <3>2 DEF Twin
    <3>3. CASE p # r /\ q # r
      <4>1. minted[q] \in Seconds /\ Twin(minted[q])
        BY <1>1, <2>3, <3>1, <3>3 DEF Source
      <4> QED BY <1>1, <3>3, <4>1 DEF Twin
    <3> QED BY <3>2, <3>3
  <2>4. \A q \in Requests :
          /\ pc'[q] \in {"new", "asked", "checked"} => minted'[q] = 0
          /\ pc'[q] \in {"minted", "issued"} => minted'[q] \in Seconds
    BY <1>1 DEF Source
  <2>5. ASSUME NEW d \in Devices, NEW s \in {held[d], Holds(d)} \ {0}
        PROVE  \E q \in Requests : by[q] = d /\ minted'[q] = s
    BY <1>1, <2>1, <2>5 DEF Source
  <2>6. \A d \in Devices : \A s \in {held'[d], Holds(d)'} \ {0} :
          \E q \in Requests : by'[q] = d /\ minted'[q] = s
    <3>1. \A d \in Devices : held'[d] = held[d] /\ Holds(d)' = Holds(d)
      BY <1>1, <1>4
    <3>2. by' = by
      BY <1>1
    <3> QED BY <2>5, <3>1, <3>2
  <2> QED BY <2>2, <2>3, <2>4, <2>6 DEF Source, Twin
<1>6. Backed'
  <2>1. \A s \in Seconds : Spent(s) => Spent(s)'
    BY <1>1, SpentStays DEF TypeOK
  <2> QED BY <1>1, <1>4, <2>1, HoldsTyped DEF Backed
<1> QED BY <1>2, <1>3, <1>4, <1>5, <1>6

\* A commit hands its token to the device that still waits for it.
LEMMA IssueHands ==
  ASSUME TypeOK, TokensInv, NEW r \in Requests, Issue(r), UNCHANGED <<clock, client, kind, by, shown>>
  PROVE  /\ \A e \in Devices : Holds(e)' = IF waits[e] = r THEN minted[r] ELSE Holds(e)
         /\ minted[r] \in Seconds
         /\ Waiting' /\ Refreshing' /\ Source'
<1> USE DEF TokensInv
<1>1. /\ UNCHANGED <<held, waits, by, kind, shown, minted, mints, givenUp>>
      /\ pc[r] = "minted" /\ pc'[r] = "issued"
      /\ \A q \in Requests \ {r} : pc'[q] = pc[q]
      /\ None \notin Requests
  BY AccountsConstants DEF AccountsConstants, Issue, Serve, client, TypeOK
<1>2. Waiting'
  BY <1>1 DEF Waiting
<1>3. Refreshing'
  BY <1>1 DEF Refreshing, Pending, TypeOK
<1>4. \A e \in Devices : Holds(e)' = IF waits[e] = r THEN minted[r] ELSE Holds(e)
  BY <1>1 DEF Holds, TypeOK
<1>5. minted[r] \in Seconds
  BY <1>1 DEF Source
<1>6. Source'
  <2>1. \A d \in Devices : \A s \in {held[d], Holds(d)'} \ {0} :
          \E q \in Requests : by[q] = d /\ minted[q] = s
    BY <1>4 DEF Source, Waiting
  <2> QED BY <1>1, <2>1 DEF Source, Twin
<1> QED BY <1>2, <1>3, <1>4, <1>5, <1>6

LEMMA SignInTokens ==
  ASSUME TypeOK, TypeOK', TokensInv, NEW r \in Requests, CommitRegister(r) \/ CommitLogin(r)
  PROVE  TokensInv'
<1> USE DEF TokensInv, CommitRegister, CommitLogin
<1>1. Issue(r) /\ UNCHANGED <<clock, client, kind, by, shown, mints, givenUp>>
  BY DEF Issue, Serve
<1>2. /\ \A e \in Devices : Holds(e)' = IF waits[e] = r THEN minted[r] ELSE Holds(e)
      /\ minted[r] \in Seconds
      /\ Waiting' /\ Refreshing' /\ Source'
  BY <1>1, IssueHands
<1>3. /\ live'[minted[r]] >= 1
      /\ \A s \in Seconds : live'[s] \in Nat /\ live[s] \in Nat /\ live[s] <= live'[s]
  BY <1>2 DEF Insert, TypeOK
<1>4. \A s \in Seconds : Spent(s) => Spent(s)'
  BY <1>1, SpentStays DEF TypeOK
<1>5. Backed'
  BY <1>2, <1>3, <1>4, HoldsTyped DEF Backed
<1> QED BY <1>2, <1>5

LEMMA RefreshTokens ==
  ASSUME TypeOK, TypeOK', TokensInv, NEW r \in Requests, CommitRefresh(r)
  PROVE  TokensInv'
<1> USE DEF TokensInv, CommitRefresh
<1>1. Issue(r) /\ UNCHANGED <<clock, client, kind, by, shown, mints, givenUp>>
  BY DEF Issue, Serve
<1>2. /\ \A e \in Devices : Holds(e)' = IF waits[e] = r THEN minted[r] ELSE Holds(e)
      /\ minted[r] \in Seconds
      /\ Waiting' /\ Refreshing' /\ Source'
  BY <1>1, IssueHands
<1>3. shown[r] \in Seconds /\ (r \in givenUp \/ \E d \in Devices : waits[d] = r)
  BY DEF Refreshing, Issue, Pending
<1>4. /\ live'[minted[r]] >= 1
      /\ \A s \in Seconds \ {shown[r]} : live[s] \in Nat /\ live'[s] \in Nat /\ live[s] <= live'[s]
  BY <1>2, <1>3 DEF Rotated, Insert, Revoke, TypeOK
<1>5. \A s \in Seconds : Spent(s) => Spent(s)'
  BY <1>1, SpentStays DEF TypeOK
\* Another device with the presented token has a twin of it.
<1>6. ASSUME NEW e \in Devices, waits[e] # r, Holds(e) = shown[r]
      PROVE  Spent(shown[r])
  <2>1. CASE r \in givenUp
    BY <2>1 DEF Spent
  <2>2. ASSUME NEW d \in Devices, waits[d] = r PROVE Spent(shown[r])
    <3>1. Holds(d) = shown[r] /\ d # e /\ shown[r] # 0
      BY <1>1, <1>3, <1>6, <2>2 DEF Waiting, Holds, Issue, Seconds
    <3>2. PICK p \in Requests : by[p] = d /\ minted[p] = shown[r]
      BY <3>1 DEF Source
    <3>3. PICK q \in Requests : by[q] = e /\ minted[q] = shown[r]
      BY <1>6, <3>1 DEF Source
    <3>4. Twin(shown[r])
      BY <3>1, <3>2, <3>3 DEF Source
    <3> QED BY <3>4 DEF Spent
  <2> QED BY <1>3, <2>1, <2>2
<1>7. Backed'
  <2> SUFFICES ASSUME NEW e \in Devices, Holds(e)' # 0
               PROVE  live'[Holds(e)'] >= 1 \/ Spent(Holds(e))'
    BY DEF Backed
  <2>1. CASE waits[e] = r
    BY <1>2, <1>4, <2>1
  <2>2. CASE waits[e] # r /\ Holds(e) = shown[r]
    BY <1>2, <1>3, <1>5, <1>6, <2>2
  <2>3. CASE waits[e] # r /\ Holds(e) # shown[r]
    <3>1. Holds(e)' = Holds(e) /\ Holds(e) \in Seconds
      BY <1>2, <2>3, HoldsTyped
    <3>2. live[Holds(e)] >= 1 \/ Spent(Holds(e))
      BY <3>1 DEF Backed
    <3> QED BY <1>4, <1>5, <2>3, <3>1, <3>2
  <2> QED BY <2>1, <2>2, <2>3
<1> QED BY <1>2, <1>7

\* A refused or failed request hands over nothing.
LEMMA RefuseTokens ==
  ASSUME TypeOK, TypeOK', TokensInv, NEW r \in Requests, CheckToken(r) \/ Fail(r)
  PROVE  TokensInv' /\ \A e \in Devices : Holds(e)' = Holds(e)
<1> USE DEF TokensInv
<1>1. /\ UNCHANGED <<live, held, waits, by, kind, shown, minted, mints, givenUp>>
      /\ pc[r] \in Pending /\ pc'[r] \in {"checked", "invalid", "failed"}
      /\ pc'[r] = "checked" => pc[r] = "asked"
      /\ \A q \in Requests \ {r} : pc'[q] = pc[q]
  BY DEF CheckToken, Fail, Serve, server, client, history, Pending, TypeOK
<1>2. Waiting'
  BY <1>1 DEF Waiting
<1>3. Refreshing'
  BY <1>1 DEF Refreshing, Pending, TypeOK
<1>4. \A e \in Devices : Holds(e)' = Holds(e)
  BY <1>1 DEF Holds, Pending, TypeOK
<1>5. Source'
  BY <1>1, <1>4 DEF Source, Twin
<1>6. Backed'
  <2>1. \A s \in Seconds : Spent(s) => Spent(s)'
    BY <1>1, SpentStays DEF TypeOK
  <2> QED BY <1>1, <1>4, <2>1, HoldsTyped DEF Backed
<1> QED BY <1>2, <1>3, <1>4, <1>5, <1>6

\* An answer, or giving up, leaves a device its token, or the one it presented, or none.
LEMMA DeviceTokens ==
  ASSUME TypeOK, TypeOK', TokensInv, NEW d \in Devices, Receive(d) \/ Desert(d)
  PROVE  TokensInv'
<1> USE DEF TokensInv
<1>0. PICK r \in Requests : waits[d] = r
  BY DEF Receive, Desert, TypeOK
<1>1. /\ UNCHANGED <<live, pc, by, kind, shown, minted, mints>>
      /\ waits' = [waits EXCEPT ![d] = None] /\ None \notin Requests
      /\ \A e \in Devices \ {d} : held'[e] = held[e]
  BY AccountsConstants
     DEF AccountsConstants, Receive, Desert, server, request, history, TypeOK
<1>2. \/ Receive(d) /\ givenUp' = givenUp /\ held'[d] \in {0, Holds(d)} /\ pc[r] \notin Pending
      \/ /\ Desert(d) /\ held'[d] \in {0, held[d]}
         /\ givenUp' = givenUp \cup {q \in {r} : kind[q] = "refresh"}
  <2>1. ASSUME Receive(d) PROVE givenUp' = givenUp /\ held'[d] \in {0, Holds(d)} /\ pc[r] \notin Pending
    BY <1>0, <1>1, <2>1 DEF Receive, Holds, history, Pending, TypeOK
  <2>2. ASSUME Desert(d) PROVE held'[d] \in {0, held[d]} /\ givenUp' = givenUp \cup {q \in {r} : kind[q] = "refresh"}
    BY <1>0, <2>2 DEF Desert, TypeOK
  <2> QED BY <2>1, <2>2
<1>3. by[r] = d /\ \A e \in Devices \ {d} : waits[e] # r
  BY <1>0 DEF Waiting
<1>4. Waiting'
  BY <1>0, <1>1, <1>2, <1>3 DEF Waiting, TypeOK
<1>5. Refreshing'
  BY <1>0, <1>1, <1>2, <1>3 DEF Refreshing, Waiting, Pending, TypeOK
<1>6. (\A e \in Devices \ {d} : Holds(e)' = Holds(e)) /\ Holds(d)' = held'[d]
  BY <1>1 DEF Holds, TypeOK
<1>7. Source'
  <2>1. held'[d] # 0 => \E q \in Requests : by[q] = d /\ minted[q] = held'[d]
    BY <1>0, <1>2 DEF Source
  <2> QED BY <1>1, <1>6, <2>1 DEF Source, Twin
<1>8. \A s \in Seconds : Spent(s) => Spent(s)'
  BY <1>1, <1>2, SpentStays DEF TypeOK
<1>9. held'[d] # 0 => live[held'[d]] >= 1 \/ Spent(held[d])'
  <2>1. CASE held'[d] = Holds(d) /\ held'[d] # 0
    BY <1>1, <1>8, <2>1, HoldsTyped DEF Backed, TypeOK
  <2>2. CASE held'[d] = held[d] /\ Holds(d) # held[d] /\ held[d] # 0 /\ Desert(d)
    <3>1. kind[r] = "refresh" /\ held[d] = shown[r]
      BY <1>0, <2>2 DEF Waiting
    <3>2. r \in givenUp' /\ shown'[r] = held'[d]
      BY <1>1, <1>2, <2>2, <3>1
    <3> QED BY <3>2 DEF Spent
  <2> QED BY <1>2, <2>1, <2>2
<1>10. Backed'
  <2> SUFFICES ASSUME NEW e \in Devices, Holds(e)' # 0
               PROVE  live'[Holds(e)'] >= 1 \/ Spent(Holds(e))'
    BY DEF Backed
  <2>1. CASE e = d
    BY <1>1, <1>6, <1>9, <2>1
  <2>2. CASE e # d
    BY <1>1, <1>6, <1>8, <2>2, HoldsTyped DEF Backed
  <2> QED BY <2>1, <2>2
<1> QED BY <1>4, <1>5, <1>7, <1>10

----------------------------------------------------------------------------
(* The rows of the table, and who may still turn one into another.         *)

LEMMA RowOf ==
  ASSUME NEW w, NEW row
  PROVE  row \in Rows(w) <=> \E s \in Seconds : \E i \in 1..w[s] : row = <<s, i>>
  BY DEF Rows

LEMMA OneRowMore ==
  ASSUME NEW w \in [Seconds -> Nat], NEW t \in Seconds, IsFiniteSet(Rows(w))
  PROVE  /\ IsFiniteSet(Rows([w EXCEPT ![t] = @ + 1]))
         /\ Cardinality(Rows([w EXCEPT ![t] = @ + 1])) = Cardinality(Rows(w)) + 1
<1> DEFINE v == [w EXCEPT ![t] = @ + 1]
           row == <<t, w[t] + 1>>
<1>1. \A s \in Seconds : v[s] = IF s = t THEN w[t] + 1 ELSE w[s]
  OBVIOUS
<1>2. \A s \in Seconds : w[s] \in Nat /\ v[s] \in Nat
  BY <1>1
<1>3. ASSUME NEW p PROVE p \in Rows(v) <=> p \in Rows(w) \cup {row}
  <2> HIDE DEF v
  <2>1. ASSUME NEW s \in Seconds, NEW i \in 1..v[s] PROVE i \in 1..w[s] \/ <<s, i>> = row
    BY <1>1, <1>2, <2>1
  <2>2. ASSUME NEW s \in Seconds, NEW i \in 1..w[s] PROVE i \in 1..v[s]
    BY <1>1, <1>2, <2>2
  <2>3. w[t] + 1 \in 1..v[t]
    BY <1>1, <1>2
  <2> HIDE DEF row
  <2>4. p \in Rows(v) => p \in Rows(w) \cup {row}
    BY <2>1, RowOf
  <2>5. p \in Rows(w) => p \in Rows(v)
    BY <2>2, RowOf
  <2>6. row \in Rows(v)
    BY <2>3, RowOf DEF row
  <2> QED BY <2>4, <2>5, <2>6
<1>4. row \notin Rows(w)
  BY <1>2, RowOf
<1> HIDE DEF v, row
<1>5. Rows(v) = Rows(w) \cup {row}
  BY <1>3
<1>6. IsFiniteSet(Rows(v)) /\ Cardinality(Rows(v)) = Cardinality(Rows(w)) + 1
  BY <1>4, <1>5, FS_AddElement
<1> QED BY <1>6 DEF v

LEMMA OneRowLess ==
  ASSUME NEW w \in [Seconds -> Nat], NEW t \in Seconds, w[t] >= 1, IsFiniteSet(Rows(w))
  PROVE  /\ [w EXCEPT ![t] = @ - 1] \in [Seconds -> Nat]
         /\ IsFiniteSet(Rows([w EXCEPT ![t] = @ - 1]))
         /\ Cardinality(Rows([w EXCEPT ![t] = @ - 1])) = Cardinality(Rows(w)) - 1
<1> DEFINE v == [w EXCEPT ![t] = @ - 1]
<1>1. v \in [Seconds -> Nat] /\ [v EXCEPT ![t] = @ + 1] = w
  <2>1. v \in [Seconds -> Nat]
    OBVIOUS
  <2>2. \A s \in Seconds : [v EXCEPT ![t] = @ + 1][s] = w[s]
    OBVIOUS
  <2>3. [v EXCEPT ![t] = @ + 1] \in [Seconds -> Nat]
    BY <2>1
  <2> HIDE DEF v
  <2> QED BY <2>1, <2>2, <2>3
<1>2. \A s \in Seconds : v[s] \in Nat /\ w[s] \in Nat /\ v[s] <= w[s]
  OBVIOUS
<1> HIDE DEF v
<1>3. Rows(v) \in SUBSET Rows(w)
  <2>1. ASSUME NEW s \in Seconds, NEW i \in 1..v[s] PROVE i \in 1..w[s]
    BY <1>2, <2>1
  <2> QED BY <2>1, RowOf
<1>4. IsFiniteSet(Rows(v)) /\ Cardinality(Rows(v)) \in Nat
  BY <1>3, FS_Subset, FS_CardinalityType
<1>5. Cardinality(Rows(w)) = Cardinality(Rows(v)) + 1
  BY <1>1, <1>4, OneRowMore
<1>6. Cardinality(Rows(v)) = Cardinality(Rows(w)) - 1
  BY <1>4, <1>5
<1> QED BY <1>1, <1>4, <1>6 DEF v

LEMMA Shrinks ==
  ASSUME NEW S, IsFiniteSet(S), NEW T, T \subseteq S
  PROVE  /\ IsFiniteSet(T) /\ Cardinality(T) \in Nat /\ Cardinality(S) \in Nat
         /\ Cardinality(T) <= Cardinality(S)
<1>1. T \in SUBSET S
  OBVIOUS
<1> QED BY <1>1, FS_Subset, FS_CardinalityType

LEMMA Grows ==
  ASSUME NEW S, IsFiniteSet(S), NEW x, NEW T, T \subseteq S \cup {x}
  PROVE  /\ IsFiniteSet(T) /\ Cardinality(T) \in Nat /\ Cardinality(S) \in Nat
         /\ Cardinality(T) <= Cardinality(S) + 1
<1>1. Cardinality(S) \in Nat
  BY FS_CardinalityType
<1>2. /\ IsFiniteSet(S \cup {x})
      /\ \/ Cardinality(S \cup {x}) = Cardinality(S)
         \/ Cardinality(S \cup {x}) = Cardinality(S) + 1
  BY FS_AddElement
<1>3. /\ IsFiniteSet(T) /\ Cardinality(T) \in Nat
      /\ Cardinality(T) <= Cardinality(S \cup {x})
  BY <1>2, Shrinks
<1> QED BY <1>1, <1>2, <1>3

LEMMA Loses ==
  ASSUME NEW S, IsFiniteSet(S), NEW x \in S, NEW T, T \subseteq S \ {x}
  PROVE  /\ IsFiniteSet(T) /\ Cardinality(T) \in Nat /\ Cardinality(S) \in Nat
         /\ Cardinality(T) <= Cardinality(S) - 1
<1>1. Cardinality(S) \in Nat
  BY FS_CardinalityType
<1>2. IsFiniteSet(S \ {x}) /\ Cardinality(S \ {x}) = Cardinality(S) - 1
  BY FS_RemoveElement
<1>3. /\ IsFiniteSet(T) /\ Cardinality(T) \in Nat
      /\ Cardinality(T) <= Cardinality(S \ {x})
  BY <1>2, Shrinks
<1> QED BY <1>1, <1>2, <1>3

\* Who may yet exchange the token s for a new one: the devices that hold it and
\* the refreshes under way that were given up.
Holders(s) == {d \in Devices : Holds(d) = s}
Orphans(s) == {r \in givenUp : pc[r] \in Pending /\ shown[r] = s}
Counted(s) == IsFiniteSet(Holders(s)) /\ IsFiniteSet(Orphans(s))
Claims(s)  == Cardinality(Holders(s)) + Cardinality(Orphans(s))

\* w bounds each token's rows, and the claims on it.
Covers(w) == \A s \in Seconds : Counted(s) /\ live[s] <= w[s] /\ Claims(s) <= w[s]

\* Rows and claims, whichever are more of a token, are no more in all than the
\* sign-ins and the refreshes given up.
Accounted ==
  /\ IsFiniteSet(givenUp)
  /\ \E w \in [Seconds -> Nat] :
       /\ IsFiniteSet(Rows(w))
       /\ Cardinality(Rows(w)) <= signIns + Cardinality(givenUp)
       /\ Covers(w)

LEMMA ClaimsKept ==
  ASSUME NEW s, Counted(s), Holders(s)' \subseteq Holders(s), Orphans(s)' \subseteq Orphans(s)
  PROVE  Counted(s)' /\ Claims(s) \in Nat /\ Claims(s)' \in Nat /\ Claims(s)' <= Claims(s)
<1> DEFINE H == Holders(s)'  O == Orphans(s)'
<1> HIDE DEF H, O
<1>1. H \subseteq Holders(s) /\ O \subseteq Orphans(s)
  BY DEF H, O
<1>2. /\ IsFiniteSet(H) /\ Cardinality(H) \in Nat /\ Cardinality(Holders(s)) \in Nat
      /\ Cardinality(H) <= Cardinality(Holders(s))
  BY <1>1, Shrinks DEF Counted
<1>3. /\ IsFiniteSet(O) /\ Cardinality(O) \in Nat /\ Cardinality(Orphans(s)) \in Nat
      /\ Cardinality(O) <= Cardinality(Orphans(s))
  BY <1>1, Shrinks DEF Counted
<1>4. Counted(s)' /\ Claims(s)' = Cardinality(H) + Cardinality(O)
  BY <1>2, <1>3 DEF Counted, Claims, H, O
<1> QED BY <1>2, <1>3, <1>4 DEF Claims

LEMMA ClaimGained ==
  ASSUME NEW s, NEW x, Counted(s),
         \/ Holders(s)' \subseteq Holders(s) \cup {x} /\ Orphans(s)' \subseteq Orphans(s)
         \/ Holders(s)' \subseteq Holders(s) /\ Orphans(s)' \subseteq Orphans(s) \cup {x}
  PROVE  Counted(s)' /\ Claims(s) \in Nat /\ Claims(s)' \in Nat /\ Claims(s)' <= Claims(s) + 1
<1> DEFINE H == Holders(s)'  O == Orphans(s)'
<1> HIDE DEF H, O
<1>1. \/ H \subseteq Holders(s) \cup {x} /\ O \subseteq Orphans(s)
      \/ H \subseteq Holders(s) /\ O \subseteq Orphans(s) \cup {x}
  BY DEF H, O
<1>2. /\ IsFiniteSet(H) /\ Cardinality(H) \in Nat /\ Cardinality(Holders(s)) \in Nat
      /\ Cardinality(H) <= Cardinality(Holders(s)) + 1
      /\ H \subseteq Holders(s) => Cardinality(H) <= Cardinality(Holders(s))
  <2>1. H \subseteq Holders(s) \cup {x}
    BY <1>1
  <2> QED BY <2>1, Grows, Shrinks DEF Counted
<1>3. /\ IsFiniteSet(O) /\ Cardinality(O) \in Nat /\ Cardinality(Orphans(s)) \in Nat
      /\ Cardinality(O) <= Cardinality(Orphans(s)) + 1
      /\ O \subseteq Orphans(s) => Cardinality(O) <= Cardinality(Orphans(s))
  <2>1. O \subseteq Orphans(s) \cup {x}
    BY <1>1
  <2> QED BY <2>1, Grows, Shrinks DEF Counted
<1>4. Counted(s)' /\ Claims(s)' = Cardinality(H) + Cardinality(O)
  BY <1>2, <1>3 DEF Counted, Claims, H, O
<1> QED BY <1>1, <1>2, <1>3, <1>4 DEF Claims

LEMMA ClaimLost ==
  ASSUME NEW s, NEW x, Counted(s),
         Holders(s)' \subseteq Holders(s), Orphans(s)' \subseteq Orphans(s),
         \/ x \in Holders(s) /\ x \notin Holders(s)'
         \/ x \in Orphans(s) /\ x \notin Orphans(s)'
  PROVE  Counted(s)' /\ Claims(s) \in Nat /\ Claims(s)' \in Nat /\ Claims(s)' <= Claims(s) - 1
<1> DEFINE H == Holders(s)'  O == Orphans(s)'
<1> HIDE DEF H, O
<1>1. /\ H \subseteq Holders(s) /\ O \subseteq Orphans(s)
      /\ \/ x \in Holders(s) /\ x \notin H
         \/ x \in Orphans(s) /\ x \notin O
  BY DEF H, O
<1>2. /\ IsFiniteSet(H) /\ Cardinality(H) \in Nat /\ Cardinality(Holders(s)) \in Nat
      /\ Cardinality(H) <= Cardinality(Holders(s))
  BY <1>1, Shrinks DEF Counted
<1>3. /\ IsFiniteSet(O) /\ Cardinality(O) \in Nat /\ Cardinality(Orphans(s)) \in Nat
      /\ Cardinality(O) <= Cardinality(Orphans(s))
  BY <1>1, Shrinks DEF Counted
<1>4. x \in Holders(s) /\ x \notin H => Cardinality(H) <= Cardinality(Holders(s)) - 1
  <2>1. x \notin H => H \subseteq Holders(s) \ {x}
    BY <1>1
  <2> QED BY <2>1, Loses DEF Counted
<1>5. x \in Orphans(s) /\ x \notin O => Cardinality(O) <= Cardinality(Orphans(s)) - 1
  <2>1. x \notin O => O \subseteq Orphans(s) \ {x}
    BY <1>1
  <2> QED BY <2>1, Loses DEF Counted
<1>6. Counted(s)' /\ Claims(s)' = Cardinality(H) + Cardinality(O)
  BY <1>2, <1>3 DEF Counted, Claims, H, O
<1>7. Claims(s)' <= Claims(s) - 1
  BY <1>1, <1>2, <1>3, <1>4, <1>5, <1>6 DEF Claims
<1>8. Claims(s) \in Nat /\ Claims(s)' \in Nat
  BY <1>2, <1>3, <1>6 DEF Claims
<1> QED BY <1>6, <1>7, <1>8

\* A step that adds no row and no claim.
LEMMA AccountedKept ==
  ASSUME TypeOK, TypeOK', Accounted, UNCHANGED <<signIns, givenUp>>,
         \A s \in Seconds : live'[s] <= live[s],
         \A s \in Seconds : Holders(s)' \subseteq Holders(s) /\ Orphans(s)' \subseteq Orphans(s)
  PROVE  Accounted'
<1>1. PICK w \in [Seconds -> Nat] :
        /\ IsFiniteSet(Rows(w))
        /\ Cardinality(Rows(w)) <= signIns + Cardinality(givenUp)
        /\ Covers(w)
  BY DEF Accounted
<1>2. ASSUME NEW s \in Seconds PROVE Counted(s)' /\ live'[s] <= w[s] /\ Claims(s)' <= w[s]
  <2>1. Counted(s)' /\ Claims(s) \in Nat /\ Claims(s)' \in Nat /\ Claims(s)' <= Claims(s)
    BY <1>1, ClaimsKept DEF Covers
  <2>2. live[s] \in Nat /\ live'[s] \in Nat /\ w[s] \in Nat
    BY DEF TypeOK
  <2> QED BY <1>1, <2>1, <2>2 DEF Covers
<1>3. Covers(w)'
  BY <1>2 DEF Covers
<1> QED BY <1>1, <1>3 DEF Accounted

\* A step that adds a row of t, or a claim on it, or both, and is counted for it.
LEMMA AccountedMore ==
  ASSUME TypeOK, TypeOK', Accounted, NEW t \in Seconds, IsFiniteSet(givenUp'),
         signIns' + Cardinality(givenUp') = signIns + Cardinality(givenUp) + 1,
         \A s \in Seconds : live'[s] <= IF s = t THEN live[s] + 1 ELSE live[s],
         \A s \in Seconds \ {t} :
           Holders(s)' \subseteq Holders(s) /\ Orphans(s)' \subseteq Orphans(s),
         \E x :
           \/ Holders(t)' \subseteq Holders(t) \cup {x} /\ Orphans(t)' \subseteq Orphans(t)
           \/ Holders(t)' \subseteq Holders(t) /\ Orphans(t)' \subseteq Orphans(t) \cup {x}
  PROVE  Accounted'
<1>1. PICK w \in [Seconds -> Nat] :
        /\ IsFiniteSet(Rows(w))
        /\ Cardinality(Rows(w)) <= signIns + Cardinality(givenUp)
        /\ Covers(w)
  BY DEF Accounted
<1> DEFINE v == [w EXCEPT ![t] = @ + 1]
<1>2. /\ v \in [Seconds -> Nat] /\ v[t] = w[t] + 1
      /\ \A s \in Seconds \ {t} : v[s] = w[s]
  OBVIOUS
<1>3. IsFiniteSet(Rows(v)) /\ Cardinality(Rows(v)) = Cardinality(Rows(w)) + 1
  BY <1>1, OneRowMore
<1> HIDE DEF v
<1>4. Cardinality(Rows(v)) <= signIns' + Cardinality(givenUp')
  <2>1. /\ Cardinality(Rows(w)) \in Nat /\ Cardinality(givenUp) \in Nat
        /\ Cardinality(givenUp') \in Nat
    BY <1>1, FS_CardinalityType DEF Accounted
  <2>2. signIns \in Nat /\ signIns' \in Nat
    BY DEF TypeOK
  <2> QED BY <1>1, <1>3, <2>1, <2>2
<1>5. ASSUME NEW s \in Seconds PROVE Counted(s)' /\ live'[s] <= v[s] /\ Claims(s)' <= v[s]
  <2>1. live[s] \in Nat /\ live'[s] \in Nat /\ w[s] \in Nat
    BY DEF TypeOK
  <2>2. CASE s = t
    <3>1. Counted(s)' /\ Claims(s) \in Nat /\ Claims(s)' \in Nat /\ Claims(s)' <= Claims(s) + 1
      BY <1>1, <2>2, ClaimGained DEF Covers
    <3> QED BY <1>1, <1>2, <2>1, <2>2, <3>1 DEF Covers
  <2>3. CASE s # t
    <3>1. Counted(s)' /\ Claims(s) \in Nat /\ Claims(s)' \in Nat /\ Claims(s)' <= Claims(s)
      BY <1>1, <2>3, ClaimsKept DEF Covers
    <3> QED BY <1>1, <1>2, <2>1, <2>3, <3>1 DEF Covers
  <2> QED BY <2>2, <2>3
<1>6. Covers(v)'
  BY <1>5 DEF Covers
<1> QED BY <1>2, <1>3, <1>4, <1>6 DEF Accounted

\* A claim on s and the rows of s are exchanged for one row of t, and at most a
\* claim on it.
LEMMA AccountedExchanged ==
  ASSUME TypeOK, TypeOK', Accounted, UNCHANGED <<signIns, givenUp>>,
         NEW s \in Seconds, NEW t \in Seconds,
         live' = Insert(Revoke(s), t),
         \A u \in Seconds \ {s, t} :
           Holders(u)' \subseteq Holders(u) /\ Orphans(u)' \subseteq Orphans(u),
         s # t => /\ Holders(s)' \subseteq Holders(s) /\ Orphans(s)' \subseteq Orphans(s)
                  /\ \E x : \/ x \in Holders(s) /\ x \notin Holders(s)'
                            \/ x \in Orphans(s) /\ x \notin Orphans(s)'
                  /\ \E y : Holders(t)' \subseteq Holders(t) \cup {y}
                  /\ Orphans(t)' \subseteq Orphans(t),
         s = t => /\ Holders(s)' \subseteq Holders(s) /\ Orphans(s)' \subseteq Orphans(s)
                  /\ \E x : x \in Holders(s) \/ x \in Orphans(s)
  PROVE  Accounted'
<1>1. PICK w \in [Seconds -> Nat] :
        /\ IsFiniteSet(Rows(w))
        /\ Cardinality(Rows(w)) <= signIns + Cardinality(givenUp)
        /\ Covers(w)
  BY DEF Accounted
<1>2. \A u \in Seconds : live[u] \in Nat /\ live'[u] \in Nat /\ w[u] \in Nat
  BY DEF TypeOK
<1>3. \A u \in Seconds : live'[u] = IF u = t THEN IF s = t THEN 1 ELSE live[t] + 1
                                    ELSE IF u = s THEN 0 ELSE live[u]
  BY DEF Insert, Revoke, TypeOK
\* The claim that is exchanged makes room for what is revoked.
<1>4. w[s] >= 1
  <2>1. Counted(s) /\ Claims(s) <= w[s] /\ (Holders(s) # {} \/ Orphans(s) # {})
    BY <1>1 DEF Covers
  <2>2. /\ Cardinality(Holders(s)) \in Nat /\ Cardinality(Orphans(s)) \in Nat
        /\ Holders(s) # {} => Cardinality(Holders(s)) # 0
        /\ Orphans(s) # {} => Cardinality(Orphans(s)) # 0
    BY <2>1, FS_CardinalityType, FS_EmptySet DEF Counted
  <2>3. Cardinality(Holders(s)) >= 1 \/ Cardinality(Orphans(s)) >= 1
    BY <2>1, <2>2
  <2> QED BY <1>2, <2>1, <2>2, <2>3 DEF Claims
<1>5. CASE s = t
  <2>1. ASSUME NEW u \in Seconds PROVE Counted(u)' /\ live'[u] <= w[u] /\ Claims(u)' <= w[u]
    <3>1. Counted(u)' /\ Claims(u) \in Nat /\ Claims(u)' \in Nat /\ Claims(u)' <= Claims(u)
      BY <1>1, <1>5, ClaimsKept DEF Covers
    <3> QED BY <1>1, <1>2, <1>3, <1>4, <1>5, <3>1 DEF Covers
  <2>2. Covers(w)'
    BY <2>1 DEF Covers
  <2> QED BY <1>1, <2>2 DEF Accounted
<1>6. CASE s # t
  <2> DEFINE less == [w EXCEPT ![s] = @ - 1]
             v    == [less EXCEPT ![t] = @ + 1]
  <2>1. /\ less \in [Seconds -> Nat] /\ IsFiniteSet(Rows(less))
        /\ Cardinality(Rows(less)) = Cardinality(Rows(w)) - 1
    BY <1>1, <1>4, OneRowLess
  <2>2. \A u \in Seconds : less[u] = IF u = s THEN w[s] - 1 ELSE w[u]
    OBVIOUS
  <2> HIDE DEF less
  <2>3. /\ IsFiniteSet(Rows(v))
        /\ Cardinality(Rows(v)) = Cardinality(Rows(less)) + 1
    BY <2>1, OneRowMore
  <2>4. v \in [Seconds -> Nat] /\ \A u \in Seconds : v[u] = IF u = t THEN less[t] + 1 ELSE less[u]
    BY <2>1
  <2> HIDE DEF v
  <2>5. Cardinality(Rows(v)) <= signIns' + Cardinality(givenUp')
    <3>1. Cardinality(Rows(w)) \in Nat
      BY <1>1, FS_CardinalityType
    <3> QED BY <1>1, <2>1, <2>3, <3>1
  <2>6. ASSUME NEW u \in Seconds PROVE Counted(u)' /\ live'[u] <= v[u] /\ Claims(u)' <= v[u]
    <3>1. CASE u = s
      <4>1. Counted(u)' /\ Claims(u) \in Nat /\ Claims(u)' \in Nat /\ Claims(u)' <= Claims(u) - 1
        BY <1>1, <1>6, <3>1, ClaimLost DEF Covers
      <4> QED BY <1>1, <1>2, <1>3, <1>4, <1>6, <2>2, <2>4, <3>1, <4>1 DEF Covers
    <3>2. CASE u = t
      <4>1. Counted(u)' /\ Claims(u) \in Nat /\ Claims(u)' \in Nat /\ Claims(u)' <= Claims(u) + 1
        BY <1>1, <1>6, <3>2, ClaimGained DEF Covers
      <4> QED BY <1>1, <1>2, <1>3, <1>6, <2>2, <2>4, <3>2, <4>1 DEF Covers
    <3>3. CASE u # s /\ u # t
      <4>1. Counted(u)' /\ Claims(u) \in Nat /\ Claims(u)' \in Nat /\ Claims(u)' <= Claims(u)
        BY <1>1, <3>3, ClaimsKept DEF Covers
      <4> QED BY <1>1, <1>2, <1>3, <2>2, <2>4, <3>3, <4>1 DEF Covers
    <3> QED BY <3>1, <3>2, <3>3
  <2>7. Covers(v)'
    BY <2>6 DEF Covers
  <2> QED BY <2>3, <2>4, <2>5, <2>7 DEF Accounted
<1> QED BY <1>5, <1>6

LEMMA StepAccounted ==
  ASSUME TypeOK, TypeOK', TokensInv, Accounted, [Next]_vars
  PROVE  Accounted'
<1>0. 0 \notin Seconds
  BY DEF Seconds
<1>1. ASSUME UNCHANGED <<live, signIns, givenUp>>,
             \A e \in Devices : Holds(e)' \in {0, Holds(e)},
             \A r \in givenUp : /\ shown'[r] = shown[r]
                                /\ pc'[r] \in Pending => pc[r] \in Pending
      PROVE  Accounted'
  <2>1. \A s \in Seconds : Holders(s)' \subseteq Holders(s) /\ Orphans(s)' \subseteq Orphans(s)
    BY <1>0, <1>1 DEF Holders, Orphans
  <2>2. \A s \in Seconds : live'[s] <= live[s]
    BY <1>1 DEF TypeOK
  <2> QED BY <1>1, <2>1, <2>2, AccountedKept
<1>2. ASSUME NEW r \in Requests, NEW d \in Devices,
             AskRegister(r, d) \/ AskLogin(r, d) \/ AskRefresh(r, d)
      PROVE  Accounted'
  <2>1. /\ UNCHANGED <<live, signIns, givenUp>>
        /\ \A q \in Requests \ {r} : pc'[q] = pc[q] /\ shown'[q] = shown[q]
        /\ pc[r] = "new"
    BY <1>2 DEF AskRegister, AskLogin, AskRefresh, Ask, server, history, TypeOK
  <2>2. \A q \in givenUp : q \in Requests \ {r}
    BY <2>1 DEF TokensInv, Refreshing, TypeOK
  <2>3. \A e \in Devices : Holds(e)' = Holds(e)
    BY <1>2, AskTokens
  <2> QED BY <1>1, <2>1, <2>2, <2>3
<1>3. ASSUME NEW r \in Requests, CheckToken(r) \/ Fail(r) PROVE Accounted'
  <2>1. /\ UNCHANGED <<live, signIns, givenUp, shown>>
        /\ \A q \in Requests : pc'[q] \in Pending => pc[q] \in Pending
    BY <1>3 DEF CheckToken, Fail, Serve, server, history, Pending, TypeOK
  <2>2. \A e \in Devices : Holds(e)' = Holds(e)
    BY <1>3, RefuseTokens
  <2> QED BY <1>1, <2>1, <2>2 DEF TypeOK
<1>4. ASSUME NEW r \in Requests, GenerateRefreshToken(r) PROVE Accounted'
  <2>1. /\ UNCHANGED <<live, signIns, givenUp, shown>>
        /\ \A q \in Requests : pc'[q] \in Pending => pc[q] \in Pending
    BY <1>4 DEF GenerateRefreshToken, Serve, server, Pending, TypeOK
  <2>2. \A e \in Devices : Holds(e)' = Holds(e)
    BY <1>4, GenerateTokens
  <2> QED BY <1>1, <2>1, <2>2 DEF TypeOK
\* A sign-in: its row, and the claim of the device that waits for it.
<1>5. ASSUME NEW r \in Requests, CommitRegister(r) \/ CommitLogin(r) PROVE Accounted'
  <2>1. /\ Issue(r) /\ UNCHANGED <<clock, client, kind, by, shown, givenUp>>
        /\ live' = Insert(live, minted[r]) /\ signIns' = signIns + 1
    BY <1>5 DEF CommitRegister, CommitLogin, Issue, Serve
  <2>2. /\ \A e \in Devices : Holds(e)' = IF waits[e] = r THEN minted[r] ELSE Holds(e)
        /\ minted[r] \in Seconds
    BY <2>1, IssueHands
  <2> PICK t \in Seconds : t = minted[r]
    BY <2>2
  <2>3. \A s \in Seconds : live'[s] <= IF s = t THEN live[s] + 1 ELSE live[s]
    BY <2>1 DEF Insert, TypeOK
  <2>4. \A s \in Seconds : Orphans(s)' \subseteq Orphans(s)
    BY <2>1 DEF Orphans, Issue, Pending, TypeOK
  <2>5. \A e \in Devices : waits[e] = r => e = by[r]
    BY DEF TokensInv, Waiting
  <2>6. /\ \A s \in Seconds \ {t} : Holders(s)' \subseteq Holders(s)
        /\ Holders(t)' \subseteq Holders(t) \cup {by[r]}
    BY <2>1, <2>2, <2>5 DEF Holders, Issue
  <2>7. IsFiniteSet(givenUp') /\ signIns' + Cardinality(givenUp') = signIns + Cardinality(givenUp) + 1
    <3>1. Cardinality(givenUp) \in Nat /\ signIns \in Nat
      BY FS_CardinalityType DEF Accounted, TypeOK
    <3> QED BY <2>1, <3>1 DEF Accounted
  <2>8. \E x : /\ Holders(t)' \subseteq Holders(t) \cup {x}
               /\ Orphans(t)' \subseteq Orphans(t)
    BY <2>2, <2>4, <2>6
  <2> QED BY <2>2, <2>3, <2>4, <2>6, <2>7, <2>8, AccountedMore
\* A rotation: the claim of the device that waits, or of the refresh given up.
<1>6. ASSUME NEW r \in Requests, CommitRefresh(r) PROVE Accounted'
  <2>1. /\ Issue(r) /\ UNCHANGED <<clock, client, kind, by, shown, givenUp, signIns>>
        /\ live' = Insert(Revoke(shown[r]), minted[r]) /\ kind[r] = "refresh"
    BY <1>6 DEF CommitRefresh, Rotated, Issue, Serve
  <2>2. /\ \A e \in Devices : Holds(e)' = IF waits[e] = r THEN minted[r] ELSE Holds(e)
        /\ minted[r] \in Seconds
    BY <2>1, IssueHands
  <2>3. shown[r] \in Seconds /\ (r \in givenUp \/ \E d \in Devices : waits[d] = r)
    BY <2>1 DEF TokensInv, Refreshing, Issue, Pending
  <2> PICK s \in Seconds, t \in Seconds : s = shown[r] /\ t = minted[r]
    BY <2>2, <2>3
  <2>4. /\ \A u \in Seconds : Orphans(u)' \subseteq Orphans(u)
        /\ pc'[r] \notin Pending /\ pc[r] \in Pending
    BY <2>1 DEF Orphans, Issue, Pending, TypeOK
  <2>5. CASE r \in givenUp
    <3>1. \A e \in Devices : Holds(e)' = Holds(e)
      BY <2>2, <2>5 DEF TokensInv, Waiting
    <3>2. \A u \in Seconds : Holders(u)' \subseteq Holders(u)
      BY <3>1 DEF Holders
    <3>3. r \in Orphans(s) /\ r \notin Orphans(s)'
      BY <2>1, <2>4, <2>5 DEF Orphans
    <3> QED BY <2>1, <2>2, <2>3, <2>4, <3>2, <3>3, AccountedExchanged
  <2>6. ASSUME NEW d \in Devices, waits[d] = r PROVE Accounted'
    <3>1. \A e \in Devices : waits[e] = r => e = d
      BY <2>6 DEF TokensInv, Waiting
    <3>2. Holds(d) = s
      BY <2>1, <2>6 DEF TokensInv, Waiting, Holds, Issue
    <3>3. d \in Holders(s) /\ (s # t => d \notin Holders(s)')
      BY <2>1, <2>2, <2>6, <3>2 DEF Holders, Issue
    <3>4. \A u \in Seconds \ {t} : Holders(u)' \subseteq Holders(u)
      BY <2>1, <2>2 DEF Holders, Issue
    <3>5. Holders(t)' \subseteq Holders(t) \cup {d}
      BY <2>1, <2>2, <3>1 DEF Holders, Issue
    <3>6. s = t => Holders(s)' \subseteq Holders(s)
      BY <2>1, <2>2, <3>1, <3>2 DEF Holders, Issue
    <3>7. \E y : Holders(t)' \subseteq Holders(t) \cup {y}
      BY <3>5
    <3>8. s # t => \E x : x \in Holders(s) /\ x \notin Holders(s)'
      BY <3>3
    <3>9. \E x : x \in Holders(s)
      BY <3>3
    <3> QED BY <2>1, <2>2, <2>3, <2>4, <3>4, <3>6, <3>7, <3>8, <3>9, AccountedExchanged
  <2> QED BY <2>3, <2>5, <2>6
<1>7. ASSUME NEW d \in Devices, Receive(d) \/ Desert(d) PROVE Accounted'
  <2>0. PICK r \in Requests : waits[d] = r
    BY <1>7 DEF Receive, Desert, TypeOK
  <2>1. /\ UNCHANGED <<live, pc, minted, shown, signIns>> /\ None \notin Requests
        /\ waits' = [waits EXCEPT ![d] = None]
        /\ \A e \in Devices \ {d} : held'[e] = held[e]
    BY <1>7, AccountsConstants
       DEF AccountsConstants, Receive, Desert, server, request, history, TypeOK
  <2>2. (\A e \in Devices \ {d} : Holds(e)' = Holds(e)) /\ Holds(d)' = held'[d]
    BY <2>1 DEF Holds, TypeOK
  <2>3. CASE Receive(d)
    <3>1. givenUp' = givenUp /\ held'[d] \in {0, Holds(d)}
      BY <2>0, <2>1, <2>3 DEF Receive, Holds, history, TypeOK
    <3>2. \A e \in Devices : Holds(e)' \in {0, Holds(e)}
      BY <2>2, <3>1
    <3> QED BY <1>1, <2>1, <3>1, <3>2
  <2>4. CASE Desert(d) /\ kind[r] # "refresh"
    <3>1. givenUp' = givenUp /\ held'[d] = 0
      BY <2>0, <2>1, <2>4 DEF Desert, TokensInv, Waiting, TypeOK
    <3>2. \A e \in Devices : Holds(e)' \in {0, Holds(e)}
      BY <2>2, <3>1
    <3> QED BY <1>1, <2>1, <3>1, <3>2
\* The refresh given up may yet be committed; or it was, and the device may go on
\* with the token it presented.
  <2>5. CASE Desert(d) /\ kind[r] = "refresh"
    <3>1. /\ givenUp' = givenUp \cup {r} /\ r \notin givenUp
          /\ held[d] = shown[r] /\ shown[r] \in Seconds /\ held'[d] \in {0, held[d]}
      BY <2>0, <2>5 DEF Desert, TokensInv, Waiting, Refreshing, TypeOK
    <3> PICK s \in Seconds : s = shown[r]
      BY <3>1
    <3>2. IsFiniteSet(givenUp') /\ signIns' + Cardinality(givenUp') = signIns + Cardinality(givenUp) + 1
      <4>1. Cardinality(givenUp) \in Nat /\ signIns \in Nat
        BY FS_CardinalityType DEF Accounted, TypeOK
      <4>2. IsFiniteSet(givenUp') /\ Cardinality(givenUp') = Cardinality(givenUp) + 1
        BY <3>1, FS_AddElement DEF Accounted
      <4> QED BY <2>1, <4>1, <4>2
    <3>3. \A u \in Seconds : live'[u] <= IF u = s THEN live[u] + 1 ELSE live[u]
      BY <2>1 DEF TypeOK
    <3>4. \A u \in Seconds \ {s} :
            Holders(u)' \subseteq Holders(u) /\ Orphans(u)' \subseteq Orphans(u)
      BY <1>0, <2>1, <2>2, <3>1 DEF Holders, Orphans
    <3>5. CASE pc[r] \in Pending
      <4>1. Holds(d) = held[d]
        BY <2>0, <3>5 DEF Holds, Pending
      <4>2. /\ Holders(s)' \subseteq Holders(s)
            /\ Orphans(s)' \subseteq Orphans(s) \cup {r}
        BY <1>0, <2>1, <2>2, <3>1, <4>1 DEF Holders, Orphans
      <4>3. \E x : /\ Holders(s)' \subseteq Holders(s)
                   /\ Orphans(s)' \subseteq Orphans(s) \cup {x}
        BY <4>2
      <4> QED BY <3>1, <3>2, <3>3, <3>4, <4>3, AccountedMore
    <3>6. CASE pc[r] \notin Pending
      <4>1. /\ Holders(s)' \subseteq Holders(s) \cup {d}
            /\ Orphans(s)' \subseteq Orphans(s)
        BY <2>1, <2>2, <3>1, <3>6 DEF Holders, Orphans
      <4>2. \E x : /\ Holders(s)' \subseteq Holders(s) \cup {x}
                   /\ Orphans(s)' \subseteq Orphans(s)
        BY <4>1
      <4> QED BY <3>1, <3>2, <3>3, <3>4, <4>2, AccountedMore
    <3> QED BY <3>5, <3>6
  <2> QED BY <1>7, <2>3, <2>4, <2>5
<1>8. CASE Tick \/ UNCHANGED vars
  <2>1. UNCHANGED <<live, signIns, givenUp, shown, pc, held, waits, minted>>
    BY <1>8 DEF Tick, vars, server, client, request, history
  <2>2. \A e \in Devices : Holds(e)' = Holds(e)
    BY <2>1 DEF Holds
  <2> QED BY <1>1, <2>1, <2>2
<1> QED BY <1>2, <1>3, <1>4, <1>5, <1>6, <1>7, <1>8 DEF Next

LEMMA StepTokens ==
  ASSUME TypeOK, TypeOK', TokensInv, [Next]_vars
  PROVE  TokensInv'
<1>1. CASE Tick \/ UNCHANGED vars
  <2>1. UNCHANGED <<live, givenUp, kind, by, shown, pc, held, waits, minted, mints>>
    BY <1>1 DEF Tick, vars, server, client, request, history
  <2> QED BY <2>1 DEF TokensInv, Waiting, Refreshing, Source, Backed, Spent, Twin, Holds
<1> QED BY <1>1, AskTokens, GenerateTokens, SignInTokens, RefreshTokens, RefuseTokens, DeviceTokens
        DEF Next

LEMMA InitTokens == Init => TokensInv /\ Accounted
<1> SUFFICES ASSUME Init PROVE TokensInv /\ Accounted
  OBVIOUS
<1>0. None \notin Requests /\ 0 \notin Seconds
  BY AccountsConstants DEF AccountsConstants, Seconds
<1>1. \A d \in Devices : Holds(d) = 0
  BY DEF Init, Holds
<1>2. TokensInv
  BY <1>0, <1>1 DEF Init, TokensInv, Waiting, Refreshing, Source, Backed
<1>3. \A s \in Seconds : Holders(s) = {} /\ Orphans(s) = {}
  BY <1>0, <1>1 DEF Init, Holders, Orphans
<1>4. Covers(live)
  BY <1>3, FS_EmptySet DEF Init, Covers, Counted, Claims
<1>5. Rows(live) = {}
  BY RowOf DEF Init
<1>6. Accounted
  <2>1. live \in [Seconds -> Nat] /\ signIns = 0 /\ givenUp = {}
    BY DEF Init
  <2> QED BY <1>4, <1>5, <2>1, FS_EmptySet DEF Accounted
<1> QED BY <1>2, <1>6

LEMMA TokensKeep == Spec => [](TypeOK /\ TokensInv /\ Accounted)
<1>1. AccountsInv /\ AccountsInv' /\ TokensInv /\ Accounted /\ [Next]_vars
        => TokensInv' /\ Accounted'
  BY StepTokens, StepAccounted DEF AccountsInv
<1>2. AccountsInv => TypeOK
  BY DEF AccountsInv
<1> QED BY <1>1, <1>2, InitTokens, AccountsKeep, PTL DEF Spec

\* The account's and the requests' state is what the code and the schema declare.
THEOREM AccountsTypes == Spec => []TypeOK
  BY AccountsKeep, PTL DEF AccountsInv

\* However refreshes, logins and registrations overlap, a revoked token stays so,
\* unless another was minted in its second.
THEOREM RevocationIsFinal == Spec => RevokedStaysRevoked
<1> DEFINE Final == \A s \in issued : live[s] = 0 /\ ~Twin(s) => live'[s] = 0
<1>1. AccountsInv /\ [Next]_vars => Final
  <2> SUFFICES ASSUME AccountsInv, [Next]_vars, NEW s \in issued, live[s] = 0, ~Twin(s)
               PROVE  live'[s] = 0
    OBVIOUS
  <2>0. s \in Seconds
    BY DEF AccountsInv, TypeOK
  <2>1. ASSUME NEW r \in Requests, CommitRegister(r) \/ CommitLogin(r) \/ CommitRefresh(r)
        PROVE  live'[s] = 0
    <3>1. minted[r] # s
      BY <2>1 DEF CommitRegister, CommitLogin, CommitRefresh, Issue, AccountsInv, MintsCounted
    <3> QED BY <2>0, <2>1, <3>1
            DEF CommitRegister, CommitLogin, CommitRefresh, Insert, Rotated, Revoke,
                AccountsInv, TypeOK
  <2>2. CASE UNCHANGED live
    BY <2>2
  <2> QED BY <2>1, <2>2
          DEF Next, vars, server, AskRegister, AskLogin, AskRefresh, Ask, CheckToken,
              GenerateRefreshToken, Fail, Receive, Desert, Tick
<1> QED BY <1>1, AccountsKeep, PTL DEF Spec, RevokedStaysRevoked

\* Whatever refreshes overlap or are answered to nobody, the table has no more
\* unrevoked rows than there were sign-ins and refreshes given up.
THEOREM RotationIsOneForOne == Spec => []OneRowPerSignIn
<1>1. TypeOK /\ Accounted => OneRowPerSignIn
  <2> SUFFICES ASSUME TypeOK, Accounted PROVE OneRowPerSignIn
    OBVIOUS
  <2>1. PICK w \in [Seconds -> Nat] :
          /\ IsFiniteSet(Rows(w))
          /\ Cardinality(Rows(w)) <= signIns + Cardinality(givenUp)
          /\ Covers(w)
    BY DEF Accounted
  <2>2. Rows(live) \subseteq Rows(w)
    <3>1. ASSUME NEW s \in Seconds, NEW i \in 1..live[s] PROVE i \in 1..w[s]
      <4>1. live[s] \in Nat /\ w[s] \in Nat /\ live[s] <= w[s]
        BY <2>1 DEF TypeOK, Covers
      <4> QED BY <4>1
    <3> QED BY <3>1, RowOf
  <2>3. /\ Cardinality(Rows(live)) \in Nat /\ Cardinality(Rows(w)) \in Nat
        /\ Cardinality(Rows(live)) <= Cardinality(Rows(w))
    BY <2>1, <2>2, Shrinks
  <2>4. Cardinality(givenUp) \in Nat /\ signIns \in Nat
    BY FS_CardinalityType DEF Accounted, TypeOK
  <2> QED BY <2>1, <2>3, <2>4 DEF OneRowPerSignIn
<1> QED BY <1>1, TokensKeep, PTL

\* A refresh is refused for a token that expired, was given out twice or was
\* presented before, and for no other.
THEOREM RefusalsHaveAReason == Spec => RefusedForAReason
<1> DEFINE Reason ==
      \A r \in Requests : pc[r] = "asked" /\ pc'[r] = "invalid" =>
        \/ Expired(shown[r]) \/ Twin(shown[r])
        \/ \E q \in givenUp : shown[q] = shown[r]
<1>1. TypeOK /\ TokensInv /\ [Next]_vars => Reason
  <2> SUFFICES ASSUME TypeOK, TokensInv, [Next]_vars,
                      NEW r \in Requests, pc[r] = "asked", pc'[r] = "invalid", ~Expired(shown[r])
               PROVE  Spent(shown[r])
    BY DEF Spent
  <2>1. CheckToken(r)
    <3>1. ASSUME NEW q \in Requests, q # r, CheckToken(q) PROVE FALSE
      BY <3>1 DEF CheckToken, TypeOK
    <3> QED BY <3>1
            DEF Next, AskRegister, AskLogin, AskRefresh, Ask, GenerateRefreshToken, Fail,
                CommitRegister, CommitLogin, CommitRefresh, Issue, Receive, Desert, Tick, vars,
                request, Serve, client, TypeOK
  <2>2. shown[r] \in Seconds /\ ~(live[shown[r]] > 0)
    BY <2>1 DEF CheckToken, TokensInv, Refreshing, TypeOK
  <2>3. r \in givenUp \/ \E d \in Devices : waits[d] = r /\ Holds(d) = shown[r]
    BY DEF TokensInv, Refreshing, Waiting, Holds, Pending
  <2>4. 0 \notin Seconds /\ live[shown[r]] \in Nat
    BY <2>2 DEF Seconds, TypeOK
  <2>5. \A d \in Devices : Holds(d) = shown[r] => Spent(shown[r])
    BY <2>2, <2>4 DEF TokensInv, Backed
  <2> QED BY <2>3, <2>5 DEF Spent
<1> QED BY <1>1, TokensKeep, PTL DEF Spec, RefusedForAReason

----------------------------------------------------------------------------
(* Ages.                                                                   *)

LEMMA DateParts ==
  ASSUME NEW d \in Dates
  PROVE  /\ d = [year |-> d.year, yearDay |-> d.yearDay]
         /\ d.year \in Nat \ {0} /\ d.yearDay \in 1..366 /\ d.yearDay <= DaysIn(d.year)
  BY DEF Dates

\* What DayAfter and Anniversary make of a date's parts.
LEMMA DayAfterParts ==
  ASSUME NEW d \in Dates
  PROVE  /\ d.yearDay < DaysIn(d.year) =>
              DayAfter(d).year = d.year /\ DayAfter(d).yearDay = d.yearDay + 1
         /\ ~(d.yearDay < DaysIn(d.year)) =>
              DayAfter(d).year = d.year + 1 /\ DayAfter(d).yearDay = 1
  BY DateParts DEF DayAfter

\* An anniversary is on the same day of the year, or a day off, and in the year.
LEMMA AnniversaryParts ==
  ASSUME NEW d \in Dates, NEW y \in Int
  PROVE  LET a == Anniversary(d, y)
         IN  /\ a.year = y
             /\ a.yearDay \in {d.yearDay - 1, d.yearDay, d.yearDay + 1}
             /\ a.yearDay >= 1 /\ a.yearDay <= DaysIn(y)
             /\ d.yearDay < 60 => a.yearDay = d.yearDay
  BY DateParts DEF Anniversary, DaysIn

LEMMA AgeParts ==
  ASSUME NEW today, NEW birth, today.year \in Nat, today.yearDay \in Nat,
         birth.year \in Nat, birth.yearDay \in Nat
  PROVE  Age(today, birth) >= 18 <=>
           \/ birth.year + 18 < today.year
           \/ birth.year + 18 = today.year /\ birth.yearDay <= today.yearDay
<1>1. CASE today.yearDay < birth.yearDay
  <2>1. Age(today, birth) = today.year - birth.year - 1
    BY <1>1 DEF Age
  <2> QED BY <1>1, <2>1
<1>2. CASE ~(today.yearDay < birth.yearDay)
  <2>1. Age(today, birth) = today.year - birth.year
    BY <1>2 DEF Age
  <2> QED BY <1>2, <2>1
<1> QED BY <1>1, <1>2

\* The server's check, for any two dates: whoever it lets in is 18 the day after at the
\* latest, and whoever it turns away is not 18, or has been for less than a day.
THEOREM AgeErrsByADay ==
  ASSUME NEW today \in Dates, NEW birth \in Dates
  PROVE  /\ Age(today, birth) >= 18 => Adult(birth, DayAfter(today))
         /\ Adult(birth, today) => Age(DayAfter(today), birth) >= 18
<1> DEFINE turns == Anniversary(birth, birth.year + 18)
<1>1. /\ today.year \in Nat /\ today.yearDay \in 1..366 /\ today.yearDay <= DaysIn(today.year)
      /\ birth.year \in Nat /\ birth.yearDay \in 1..366 /\ birth.yearDay <= DaysIn(birth.year)
  BY DateParts
<1>2. /\ turns.year = birth.year + 18
      /\ turns.yearDay \in {birth.yearDay - 1, birth.yearDay, birth.yearDay + 1}
      /\ turns.yearDay >= 1 /\ turns.yearDay <= DaysIn(birth.year + 18)
  BY <1>1, AnniversaryParts
<1> HIDE DEF turns
<1>3. DaysIn(today.year) \in {365, 366} /\ DaysIn(birth.year) \in {365, 366}
  BY DEF DaysIn
<1>4. /\ today.yearDay \in Nat /\ birth.yearDay \in Nat
      /\ \/ turns.yearDay = birth.yearDay - 1
         \/ turns.yearDay = birth.yearDay
         \/ turns.yearDay = birth.yearDay + 1
  BY <1>1, <1>2
<1>5. CASE today.yearDay < DaysIn(today.year)
  <2>1. DayAfter(today).year = today.year /\ DayAfter(today).yearDay = today.yearDay + 1
    BY <1>5, DayAfterParts
  <2>2. Adult(birth, DayAfter(today)) <=>
          \/ birth.year + 18 < today.year
          \/ birth.year + 18 = today.year /\ turns.yearDay <= today.yearDay + 1
    BY <1>2, <2>1 DEF Adult, NotAfter, turns
  <2>3. Adult(birth, today) <=>
          \/ birth.year + 18 < today.year
          \/ birth.year + 18 = today.year /\ turns.yearDay <= today.yearDay
    BY <1>2 DEF Adult, NotAfter, turns
  <2>4. /\ Age(today, birth) >= 18 =>
             \/ birth.year + 18 < today.year
             \/ birth.year + 18 = today.year /\ birth.yearDay <= today.yearDay
        /\ \/ birth.year + 18 < today.year
           \/ birth.year + 18 = today.year /\ birth.yearDay <= today.yearDay + 1
           => Age(DayAfter(today), birth) >= 18
    BY <1>1, <2>1, AgeParts
  <2>5. Adult(birth, today) => Age(DayAfter(today), birth) >= 18
    <3>1. turns.yearDay <= today.yearDay => birth.yearDay <= today.yearDay + 1
      BY <1>4
    <3> QED BY <2>3, <2>4, <3>1
  <2>6. Age(today, birth) >= 18 => Adult(birth, DayAfter(today))
    <3>1. birth.yearDay <= today.yearDay => turns.yearDay <= today.yearDay + 1
      BY <1>4
    <3> QED BY <2>2, <2>4, <3>1
  <2> QED BY <2>5, <2>6
<1>6. CASE ~(today.yearDay < DaysIn(today.year))
  <2>1. DayAfter(today).year = today.year + 1 /\ DayAfter(today).yearDay = 1
    BY <1>6, DayAfterParts
  <2> QED BY <1>1, <1>2, <1>3, <1>6, <2>1 DEF Age, Adult, NotAfter, turns
<1> QED BY <1>5, <1>6

\* The app's check is exact but on 29 February, when it lets in those who turn 18 the
\* day after as well.
THEOREM AppErrsOnLeapDays ==
  ASSUME NEW here \in Dates, NEW birth \in Dates
  PROVE  /\ Adult(birth, here) => isAtLeast18YearsOld(birth, here)
         /\ isAtLeast18YearsOld(birth, here) =>
              Adult(birth, here) \/ (LeapDay(here) /\ Adult(birth, DayAfter(here)))
<1> DEFINE ago == Anniversary(here, here.year - 18)  turns == Anniversary(birth, birth.year + 18)
<1>1. /\ here.year \in Nat /\ here.yearDay \in 1..366 /\ here.yearDay <= DaysIn(here.year)
      /\ birth.year \in Nat /\ birth.yearDay \in 1..366 /\ birth.yearDay <= DaysIn(birth.year)
  BY DateParts
<1>2. ago.year = here.year - 18 /\ turns.year = birth.year + 18
  BY <1>1, AnniversaryParts
<1>3. CASE birth.year + 18 # here.year
  BY <1>1, <1>2, <1>3 DEF Adult, isAtLeast18YearsOld, NotAfter
<1>4. CASE birth.year + 18 = here.year
  <2>1. here.year - 18 = birth.year
    BY <1>1, <1>4
  <2>2. /\ Adult(birth, here) <=> turns.yearDay <= here.yearDay
        /\ isAtLeast18YearsOld(birth, here) <=> birth.yearDay <= ago.yearDay
    BY <1>1, <1>2, <1>4, <2>1 DEF Adult, isAtLeast18YearsOld, NotAfter
  <2>3. /\ turns.yearDay = IF birth.yearDay < 60 \/ (Leap(birth.year) <=> Leap(here.year)) THEN birth.yearDay
                           ELSE IF Leap(here.year) THEN birth.yearDay + 1
                           ELSE IF birth.yearDay = 60 THEN 60 ELSE birth.yearDay - 1
        /\ ago.yearDay = IF here.yearDay < 60 \/ (Leap(here.year) <=> Leap(birth.year)) THEN here.yearDay
                         ELSE IF Leap(birth.year) THEN here.yearDay + 1
                         ELSE IF here.yearDay = 60 THEN 60 ELSE here.yearDay - 1
    BY <1>4, <2>1 DEF Anniversary
  <2> HIDE DEF ago, turns
  <2>0. /\ here.yearDay \in Nat /\ birth.yearDay \in Nat
        /\ here.yearDay >= 1 /\ birth.yearDay >= 1
    BY <1>1
  <2> DEFINE bornInLeap == Leap(birth.year)  isLeap == Leap(here.year)
  <2>4. CASE bornInLeap <=> isLeap
    <3>1. turns.yearDay = birth.yearDay /\ ago.yearDay = here.yearDay
      BY <2>3, <2>4
    <3> QED BY <2>2, <3>1
  <2>5. CASE bornInLeap /\ ~isLeap
    <3>1. /\ turns.yearDay = IF birth.yearDay <= 60 THEN birth.yearDay ELSE birth.yearDay - 1
          /\ ago.yearDay = IF here.yearDay < 60 THEN here.yearDay ELSE here.yearDay + 1
      BY <2>0, <2>3, <2>5
    <3>2. turns.yearDay <= here.yearDay <=> birth.yearDay <= ago.yearDay
      BY <2>0, <3>1
    <3> QED BY <2>2, <3>2
  <2>6. CASE ~bornInLeap /\ isLeap
    <3>1. /\ turns.yearDay = IF birth.yearDay < 60 THEN birth.yearDay ELSE birth.yearDay + 1
          /\ ago.yearDay = IF here.yearDay <= 60 THEN here.yearDay ELSE here.yearDay - 1
      BY <1>1, <2>3, <2>6
    <3>2. CASE here.yearDay # 60 \/ birth.yearDay # 60
      <4>1. turns.yearDay <= here.yearDay <=> birth.yearDay <= ago.yearDay
        BY <2>0, <3>1, <3>2
      <4> QED BY <2>2, <4>1
    <3>3. CASE here.yearDay = 60 /\ birth.yearDay = 60
      <4>1. LeapDay(here) /\ turns.yearDay = 61
        BY <1>1, <2>6, <3>1, <3>3 DEF LeapDay
      <4>2. DayAfter(here).year = here.year /\ DayAfter(here).yearDay = 61
        BY <4>1, DayAfterParts DEF LeapDay, DaysIn
      <4>3. Adult(birth, DayAfter(here))
        BY <1>2, <1>4, <4>1, <4>2 DEF Adult, NotAfter, turns
      <4>4. isAtLeast18YearsOld(birth, here)
        BY <2>2, <3>1, <3>3
      <4> QED BY <4>1, <4>3, <4>4
    <3> QED BY <3>2, <3>3
  <2> QED BY <2>4, <2>5, <2>6
<1> QED BY <1>3, <1>4

\* The code breaks its rule on every 29 February: whoever was born on 1 March, eighteen
\* years before, passes both checks (in a time zone behind the server's) and is 17.
THEOREM EveryLeapDayErrs ==
  ASSUME NEW here \in Dates, LeapDay(here), here.year > 18,
         NEW birth \in Dates, birth.year = here.year - 18, birth.yearDay = 60
  PROVE  /\ isAtLeast18YearsOld(birth, here)
         /\ Age(here, formatBirthDate(birth, FALSE)) >= 18
         /\ ~Adult(birth, here)
<1>1. /\ here.year \in Nat /\ here.yearDay = 60 /\ Leap(here.year)
      /\ birth.year \in Nat
  BY DateParts DEF LeapDay
<1>2. ~Leap(birth.year)
  BY <1>1 DEF Leap
<1>3. Age(here, birth) >= 18
  BY <1>1, AgeParts
<1>4. /\ Anniversary(here, here.year - 18).year = birth.year
      /\ Anniversary(here, here.year - 18).yearDay = 60
  BY <1>1, <1>2 DEF Anniversary
<1>5. /\ Anniversary(birth, birth.year + 18).year = here.year
      /\ Anniversary(birth, birth.year + 18).yearDay = 61
  BY <1>1, <1>2 DEF Anniversary
<1> QED BY <1>1, <1>3, <1>4, <1>5
        DEF isAtLeast18YearsOld, NotAfter, formatBirthDate, Adult

\* Whoever passes both age checks is 18, or registers on a 29 February and turns 18 the
\* day after.
THEOREM AdultsButOnLeapDays == Spec => []AdultsOnlyButOnLeapDays
<1>1. Init => AdultsOnlyButOnLeapDays
  BY DEF Init, AdultsOnlyButOnLeapDays
<1>2. AdultsOnlyButOnLeapDays /\ [Next]_vars => AdultsOnlyButOnLeapDays'
  <2> SUFFICES ASSUME AdultsOnlyButOnLeapDays, [Next]_vars PROVE AdultsOnlyButOnLeapDays'
    OBVIOUS
  <2>1. CASE UNCHANGED minors
    BY <2>1 DEF AdultsOnlyButOnLeapDays
  <2>2. ASSUME NEW r \in Requests, NEW d \in Devices, AskRegister(r, d)
        PROVE  AdultsOnlyButOnLeapDays'
    <3>1. PICK here \in Todays, birth \in Births :
            /\ isAtLeast18YearsOld(birth, here)
            /\ \/ minors' = minors
               \/ ~Adult(birth, here) /\ minors' = minors \cup {<<birth, here>>}
      BY <2>2 DEF AskRegister
    <3>2. Adult(birth, here) \/ (LeapDay(here) /\ Adult(birth, DayAfter(here)))
      BY <3>1, AppErrsOnLeapDays, AccountsConstants DEF AccountsConstants
    <3> QED BY <3>1, <3>2 DEF AdultsOnlyButOnLeapDays
  <2> QED BY <2>1, <2>2
          DEF Next, vars, AskLogin, AskRefresh, CheckToken, GenerateRefreshToken, Fail,
              CommitRegister, CommitLogin, CommitRefresh, Issue, Receive, Desert, Tick, Serve
<1> QED BY <1>1, <1>2, PTL DEF Spec
=============================================================================
