------------------------- MODULE RateLimiter_proofs -------------------------
(***************************************************************************)
(* Both bounds of the rate limiter, for any requests, addresses, burst and *)
(* rate, in whatever order requests get the mutex.                         *)
(***************************************************************************)
EXTENDS RateLimiter, TLAPS

\* Clocks that were read are in the past, and a bucket knows of those it was
\* refilled by.
ReadBefore ==
  /\ \A r \in Requests : pc[r] # "new" => now[r] <= clock
  /\ \A r \in Requests : pc[r] = "fetched" =>
       AddressOf[r] \in known /\ now[r] <= latest[AddressOf[r]]
  /\ \A a \in Addresses : lastSeen[a] <= latest[a] /\ latest[a] <= clock

NewIsFull ==
  \A a \in Addresses \ known :
    remaining[a] = Capacity /\ lastSeen[a] = 0 /\ latest[a] = 0

\* What was spent since t and what is left came out of a full bucket at t and the
\* time since: overtaken requests move `remaining` and `lastSeen` alike.
Conserved ==
  \A a \in Addresses, t \in Times :
    IF t <= latest[a]
      THEN spent[a][t] + remaining[a] <= Capacity + (lastSeen[a] - t)
      ELSE spent[a][t] = 0

BucketInv ==
  TypeOK /\ ReadBefore /\ NewIsFull /\ Conserved /\ WindowBound /\ KeepsUnspentBurst

LEMMA Constants ==
  /\ \A r \in Requests : AddressOf[r] \in Addresses
  /\ Capacity \in Nat /\ Cost \in Nat /\ Cost > 0
  /\ 0 \in Times
  /\ \A t \in Times : t \in Nat
  BY RateLimiterConstants DEF RateLimiterConstants, Times

\* What TypeOK says of one request and of one address.
LEMMA Typed ==
  ASSUME TypeOK
  PROVE  /\ clock \in Nat
         /\ \A r \in Requests : now[r] \in Times /\ now[r] \in Nat
         /\ \A a \in Addresses :
              /\ remaining[a] \in Int /\ remaining[a] <= Capacity
              /\ lastSeen[a] \in Nat /\ latest[a] \in Nat
              /\ \A t \in Times : spent[a][t] \in Nat
  BY Constants DEF TypeOK

LEMMA InitBuckets == Init => BucketInv
<1> SUFFICES ASSUME Init PROVE BucketInv
  OBVIOUS
<1>1. TypeOK
  <2>1. remaining \in [Addresses -> Int] /\ \A a \in Addresses : remaining[a] <= Capacity
    BY Constants DEF Init
  <2>2. /\ spent \in [Addresses -> [Times -> Nat]]
        /\ lastSeen \in [Addresses -> Times] /\ latest \in [Addresses -> Times]
    BY Constants DEF Init
  <2> QED BY <2>1, <2>2, Constants DEF Init, TypeOK
<1>2. ReadBefore /\ NewIsFull
  BY DEF Init, ReadBefore, NewIsFull
<1>3. Conserved /\ WindowBound /\ KeepsUnspentBurst
  BY Constants DEF Init, Conserved, WindowBound, KeepsUnspentBurst
<1> QED BY <1>1, <1>2, <1>3 DEF BucketInv

\* A refill never exceeds the burst, nor what the time since lastSeen brings.
LEMMA RefillBounds ==
  ASSUME BucketInv, NEW a \in Addresses, NEW t \in Times
  PROVE  /\ Refilled(a, t) \in Int
         /\ Refilled(a, t) <= Capacity
         /\ Refilled(a, t) = Capacity
              \/ (a \in known /\ Refilled(a, t) = remaining[a] + t - lastSeen[a])
         /\ a \in known => Refilled(a, t) <= remaining[a] + t - lastSeen[a]
<1>1. TypeOK
  BY DEF BucketInv
<1> QED BY <1>1, Constants, Typed DEF Refilled

LEMMA GetVisitorKeeps ==
  ASSUME BucketInv, NEW r \in Requests, GetVisitor(r)
  PROVE  BucketInv'
<1> DEFINE a == AddressOf[r]
           left == Refilled(a, now[r])
<1>0. /\ TypeOK /\ a \in Addresses /\ now[r] \in Times /\ now[r] \in Nat
      /\ clock \in Nat /\ now[r] <= clock
  BY Constants, Typed DEF GetVisitor, BucketInv, ReadBefore
<1>1. /\ left \in Int /\ left <= Capacity
      /\ left = Capacity \/ (a \in known /\ left = remaining[a] + now[r] - lastSeen[a])
      /\ a \in known => left <= remaining[a] + now[r] - lastSeen[a]
  BY <1>0, RefillBounds
<1>2. /\ remaining' = [remaining EXCEPT ![a] = left]
      /\ lastSeen' = [lastSeen EXCEPT ![a] = now[r]]
      /\ latest' = [latest EXCEPT ![a] = IF now[r] > latest[a] THEN now[r] ELSE latest[a]]
      /\ known' = known \cup {a}
      /\ pc' = [pc EXCEPT ![r] = "fetched"]
      /\ UNCHANGED <<clock, now, held, spent>>
  BY DEF GetVisitor, Goto
<1> HIDE DEF a, left
<1>3. TypeOK'
  BY <1>0, <1>1, <1>2 DEF TypeOK
<1>4. ReadBefore'
  <2>1. /\ latest'[a] >= latest[a] /\ latest'[a] >= now[r] /\ latest'[a] <= clock
        /\ lastSeen'[a] = now[r]
        /\ \A b \in Addresses \ {a} : latest'[b] = latest[b] /\ lastSeen'[b] = lastSeen[b]
    <3>1. latest[a] \in Nat /\ latest[a] <= clock
      BY <1>0, Typed DEF BucketInv, ReadBefore
    <3>2. /\ latest'[a] = IF now[r] > latest[a] THEN now[r] ELSE latest[a]
          /\ lastSeen'[a] = now[r]
          /\ \A b \in Addresses \ {a} : latest'[b] = latest[b] /\ lastSeen'[b] = lastSeen[b]
      BY <1>0, <1>2 DEF TypeOK
    <3> QED BY <1>0, <3>1, <3>2
  <2>2. \A b \in Addresses : lastSeen'[b] <= latest'[b] /\ latest'[b] <= clock'
    BY <1>0, <1>2, <2>1 DEF BucketInv, ReadBefore
  <2>3. \A q \in Requests : pc'[q] # "new" => now'[q] <= clock'
    BY <1>0, <1>2 DEF TypeOK, BucketInv, ReadBefore
  <2>4. \A q \in Requests : pc'[q] = "fetched" =>
          AddressOf[q] \in known' /\ now'[q] <= latest'[AddressOf[q]]
    <3>1. AddressOf[r] = a
      BY DEF a
    <3> SUFFICES ASSUME NEW q \in Requests, pc'[q] = "fetched"
                 PROVE  AddressOf[q] \in known' /\ now'[q] <= latest'[AddressOf[q]]
      OBVIOUS
    <3>2. CASE q = r
      BY <1>2, <2>1, <3>1, <3>2
    <3>3. CASE q # r
      <4>1. AddressOf[q] \in known /\ now[q] <= latest[AddressOf[q]]
        BY <1>0, <1>2, <3>3 DEF TypeOK, BucketInv, ReadBefore
      <4>2. AddressOf[q] \in Addresses /\ latest[AddressOf[q]] \in Nat /\ now[q] \in Nat
        BY <1>0, Constants, Typed
      <4>3. latest'[AddressOf[q]] \in Nat /\ latest[AddressOf[q]] <= latest'[AddressOf[q]]
        BY <1>0, <1>2, <2>1, <4>2 DEF TypeOK
      <4> QED BY <1>2, <4>1, <4>2, <4>3
    <3> QED BY <3>2, <3>3
  <2> QED BY <2>2, <2>3, <2>4 DEF ReadBefore
<1>5. NewIsFull'
  BY <1>0, <1>2 DEF TypeOK, BucketInv, NewIsFull
<1>6. Conserved'
  <2> SUFFICES ASSUME NEW b \in Addresses, NEW t \in Times
               PROVE  IF t <= latest'[b]
                        THEN spent[b][t] + remaining'[b] <= Capacity + (lastSeen'[b] - t)
                        ELSE spent[b][t] = 0
    BY <1>2 DEF Conserved
  <2>0. /\ spent[b][t] \in Nat /\ remaining[b] \in Int /\ lastSeen[b] \in Nat
        /\ latest[b] \in Nat /\ t \in Nat /\ Capacity \in Nat /\ Cost \in Nat
        /\ IF t <= latest[b]
             THEN spent[b][t] + remaining[b] <= Capacity + (lastSeen[b] - t)
             ELSE spent[b][t] = 0
    BY <1>0, Constants, Typed DEF BucketInv, Conserved
  <2>1. CASE b # a
    BY <1>0, <1>2, <2>0, <2>1 DEF TypeOK
  <2>2. CASE b = a /\ a \in known
    <3>1. /\ remaining'[a] = left /\ lastSeen'[a] = now[r]
          /\ latest'[a] = IF now[r] > latest[a] THEN now[r] ELSE latest[a]
      BY <1>0, <1>2 DEF TypeOK
    <3> QED BY <1>0, <1>1, <2>0, <2>2, <3>1
  <2>3. CASE b = a /\ a \notin known
    <3>1. spent[b][t] = 0
      BY <2>0, <2>3 DEF BucketInv, NewIsFull
    <3>2. /\ remaining'[a] = left /\ lastSeen'[a] = now[r] /\ latest[a] = 0
          /\ latest'[a] = IF now[r] > latest[a] THEN now[r] ELSE latest[a]
      BY <1>0, <1>2, <2>3 DEF TypeOK, BucketInv, NewIsFull
    <3> QED BY <1>0, <1>1, <2>0, <2>3, <3>1, <3>2
  <2> QED BY <2>1, <2>2, <2>3
<1>7. WindowBound'
  BY <1>2 DEF BucketInv, WindowBound
<1>8. KeepsUnspentBurst'
  <2> SUFFICES ASSUME NEW b \in Addresses
               PROVE  remaining'[b] >= Capacity - spent[b][0] - (latest'[b] - lastSeen'[b])
    BY <1>2 DEF KeepsUnspentBurst
  <2>0. /\ spent[b][0] \in Nat /\ remaining[b] \in Int /\ lastSeen[b] \in Nat
        /\ latest[b] \in Nat /\ lastSeen[b] <= latest[b] /\ Capacity \in Nat
        /\ remaining[b] >= Capacity - spent[b][0] - (latest[b] - lastSeen[b])
    BY <1>0, Constants, Typed DEF BucketInv, KeepsUnspentBurst, ReadBefore
  <2>1. CASE b # a
    BY <1>0, <1>2, <2>0, <2>1 DEF TypeOK
  <2>2. CASE b = a
    <3>1. /\ remaining'[a] = left /\ lastSeen'[a] = now[r]
          /\ latest'[a] = IF now[r] > latest[a] THEN now[r] ELSE latest[a]
      BY <1>0, <1>2 DEF TypeOK
    <3> QED BY <1>0, <1>1, <2>0, <2>2, <3>1
  <2> QED BY <2>1, <2>2
<1> QED BY <1>3, <1>4, <1>5, <1>6, <1>7, <1>8 DEF BucketInv

LEMMA PassKeeps ==
  ASSUME BucketInv, NEW r \in Requests, Pass(r)
  PROVE  BucketInv'
<1> DEFINE a == AddressOf[r]
<1>0. /\ TypeOK /\ a \in Addresses /\ now[r] \in Times /\ now[r] \in Nat /\ clock \in Nat
      /\ now[r] <= clock /\ now[r] <= latest[a] /\ remaining[a] >= Cost
      /\ lastSeen[a] <= latest[a] /\ latest[a] <= clock
      /\ remaining[a] \in Int /\ lastSeen[a] \in Nat /\ latest[a] \in Nat
      /\ Capacity \in Nat /\ Cost \in Nat /\ Cost > 0
  BY Constants, Typed DEF Pass, BucketInv, ReadBefore
<1>1. /\ remaining' = [remaining EXCEPT ![a] = remaining[a] - Cost]
      /\ spent' = [spent EXCEPT ![a] = [t \in Times |->
                     IF t <= now[r] THEN spent[a][t] + Cost ELSE spent[a][t]]]
      /\ pc' = [pc EXCEPT ![r] = "inside"]
      /\ held' = TRUE
      /\ UNCHANGED <<clock, now, known, lastSeen, latest>>
  BY DEF Pass, Goto
<1> HIDE DEF a
<1>2. TypeOK'
  <2>1. spent' \in [Addresses -> [Times -> Nat]]
    BY <1>0, <1>1 DEF TypeOK
  <2>2. remaining' \in [Addresses -> Int] /\ \A b \in Addresses : remaining'[b] <= Capacity
    BY <1>0, <1>1 DEF TypeOK
  <2> QED BY <1>0, <1>1, <2>1, <2>2 DEF TypeOK
<1>3. ReadBefore'
  BY <1>0, <1>1 DEF TypeOK, BucketInv, ReadBefore
<1>4. NewIsFull'
  <2>1. a \in known
    BY DEF Pass, BucketInv, ReadBefore, a
  <2> QED BY <1>0, <1>1, <2>1 DEF TypeOK, BucketInv, NewIsFull
<1>5. \A t \in Times : spent'[a][t] = IF t <= now[r] THEN spent[a][t] + Cost ELSE spent[a][t]
  BY <1>0, <1>1 DEF TypeOK
<1>6. \A b \in Addresses \ {a} : spent'[b] = spent[b] /\ remaining'[b] = remaining[b]
  BY <1>0, <1>1 DEF TypeOK
<1>7. remaining'[a] = remaining[a] - Cost
  BY <1>0, <1>1 DEF TypeOK
<1>8. Conserved'
  <2> SUFFICES ASSUME NEW b \in Addresses, NEW t \in Times
               PROVE  IF t <= latest[b]
                        THEN spent'[b][t] + remaining'[b] <= Capacity + (lastSeen[b] - t)
                        ELSE spent'[b][t] = 0
    BY <1>1 DEF Conserved
  <2>0. /\ spent[b][t] \in Nat /\ remaining[b] \in Int /\ lastSeen[b] \in Nat
        /\ latest[b] \in Nat /\ t \in Nat /\ Capacity \in Nat /\ Cost \in Nat
        /\ IF t <= latest[b]
             THEN spent[b][t] + remaining[b] <= Capacity + (lastSeen[b] - t)
             ELSE spent[b][t] = 0
    BY <1>0, Constants, Typed DEF BucketInv, Conserved
  <2>1. CASE b # a
    BY <1>6, <2>0, <2>1
  <2>2. CASE b = a
    BY <1>0, <1>5, <1>7, <2>0, <2>2
  <2> QED BY <2>1, <2>2
<1>9. WindowBound'
  <2> SUFFICES ASSUME NEW b \in Addresses, NEW t \in Times, t <= clock
               PROVE  spent'[b][t] <= Capacity + (clock - t)
    BY <1>1 DEF WindowBound
  <2>0. /\ spent[b][t] \in Nat /\ remaining[b] \in Int /\ lastSeen[b] \in Nat /\ t \in Nat
        /\ spent[b][t] <= Capacity + (clock - t)
    BY <1>0, Constants, Typed DEF BucketInv, WindowBound
  <2>1. CASE b # a \/ t > now[r]
    BY <1>0, <1>5, <1>6, <2>0, <2>1
  <2>2. CASE b = a /\ t <= now[r]
    <3>1. t <= latest[a]
      BY <1>0, <2>0, <2>2
    <3>2. spent[a][t] + remaining[a] <= Capacity + (lastSeen[a] - t)
      BY <1>0, <3>1 DEF BucketInv, Conserved
    <3> QED BY <1>0, <1>5, <2>0, <2>2, <3>2
  <2> QED BY <1>0, <2>0, <2>1, <2>2
<1>10. KeepsUnspentBurst'
  <2> SUFFICES ASSUME NEW b \in Addresses
               PROVE  remaining'[b] >= Capacity - spent'[b][0] - (latest[b] - lastSeen[b])
    BY <1>1 DEF KeepsUnspentBurst
  <2>0. /\ spent[b][0] \in Nat /\ remaining[b] \in Int /\ lastSeen[b] \in Nat
        /\ latest[b] \in Nat /\ 0 \in Times
        /\ remaining[b] >= Capacity - spent[b][0] - (latest[b] - lastSeen[b])
    BY <1>0, Constants, Typed DEF BucketInv, KeepsUnspentBurst
  <2> QED BY <1>0, <1>5, <1>6, <1>7, <2>0
<1> QED BY <1>2, <1>3, <1>4, <1>8, <1>9, <1>10 DEF BucketInv

LEMMA TickKeeps ==
  ASSUME BucketInv, Tick
  PROVE  BucketInv'
<1>0. /\ TypeOK /\ clock \in Nat /\ clock' = clock + 1
      /\ UNCHANGED <<pc, now, held, known, remaining, lastSeen, spent, latest>>
  BY Typed DEF Tick, BucketInv, visitors
<1>1. TypeOK'
  <2>1. clock' \in Times
    BY RateLimiterConstants DEF RateLimiterConstants, Times, Tick, BucketInv, TypeOK
  <2> QED BY <1>0, <2>1 DEF TypeOK
<1>2. ReadBefore'
  BY <1>0, Typed DEF BucketInv, ReadBefore
<1>3. NewIsFull' /\ Conserved' /\ KeepsUnspentBurst'
  BY <1>0 DEF BucketInv, NewIsFull, Conserved, KeepsUnspentBurst
<1>4. WindowBound'
  <2> SUFFICES ASSUME NEW a \in Addresses, NEW t \in Times, t <= clock'
               PROVE  spent[a][t] <= Capacity + (clock' - t)
    BY <1>0 DEF WindowBound
  <2>0. t \in Nat /\ spent[a][t] \in Nat /\ Capacity \in Nat /\ latest[a] \in Nat
    BY <1>0, Constants, Typed
  <2>1. CASE t <= clock
    <3>1. spent[a][t] <= Capacity + (clock - t)
      BY <2>1 DEF BucketInv, WindowBound
    <3> QED BY <1>0, <2>0, <3>1
  <2>2. CASE t > clock
    <3>1. latest[a] <= clock
      BY DEF BucketInv, ReadBefore
    <3>2. spent[a][t] = 0
      BY <1>0, <2>0, <2>2, <3>1 DEF BucketInv, Conserved
    <3> QED BY <1>0, <2>0, <3>2
  <2> QED BY <1>0, <2>0, <2>1, <2>2
<1> QED BY <1>1, <1>2, <1>3, <1>4 DEF BucketInv

\* Steps that leave the buckets alone.
LEMMA OthersKeep ==
  ASSUME BucketInv, NEW r \in Requests, Arrive(r) \/ Refuse(r) \/ Return(r)
  PROVE  BucketInv'
<1>0. /\ TypeOK /\ clock \in Nat
      /\ UNCHANGED <<clock, known, remaining, lastSeen, spent, latest>>
      /\ held' \in BOOLEAN
  BY Typed DEF Arrive, Refuse, Return, BucketInv, TypeOK, visitors
<1>1. /\ pc' \in [Requests -> {"new", "arrived", "fetched", "inside", "done", "refused"}]
      /\ now' \in [Requests -> Times]
  BY <1>0 DEF Arrive, Refuse, Return, Goto, TypeOK
<1>2. TypeOK'
  BY <1>0, <1>1 DEF TypeOK
<1>3. \A q \in Requests :
        /\ pc'[q] = "fetched" => pc[q] = "fetched" /\ now'[q] = now[q]
        /\ \/ pc'[q] # "new" => pc[q] # "new" /\ now'[q] = now[q]
           \/ now'[q] = clock
  BY <1>0 DEF Arrive, Refuse, Return, Goto, TypeOK
<1>4. ReadBefore'
  BY <1>0, <1>3 DEF BucketInv, ReadBefore
<1>5. NewIsFull' /\ Conserved' /\ WindowBound' /\ KeepsUnspentBurst'
  BY <1>0 DEF BucketInv, NewIsFull, Conserved, WindowBound, KeepsUnspentBurst
<1> QED BY <1>2, <1>4, <1>5 DEF BucketInv

LEMMA StepKeeps == BucketInv /\ [Next]_vars => BucketInv'
<1> SUFFICES ASSUME BucketInv, [Next]_vars PROVE BucketInv'
  OBVIOUS
<1>1. CASE Tick
  BY <1>1, TickKeeps
<1>2. ASSUME NEW r \in Requests, Arrive(r) \/ Step(r) PROVE BucketInv'
  BY <1>2, GetVisitorKeeps, PassKeeps, OthersKeep DEF Step
<1>3. CASE UNCHANGED vars
  BY <1>3 DEF vars, visitors, BucketInv, TypeOK, ReadBefore, NewIsFull, Conserved,
              WindowBound, KeepsUnspentBurst
<1> QED BY <1>1, <1>2, <1>3 DEF Next

LEMMA BucketsKeep == Spec => []BucketInv
  BY InitBuckets, StepKeeps, PTL DEF Spec

\* The limiter's state is what the code declares, and no bucket overflows.
THEOREM RateLimiterTypes == Spec => []TypeOK
  BY BucketsKeep, PTL DEF BucketInv

\* From any moment on, an address gets a burst and what is refilled, no more.
THEOREM RateIsBounded == Spec => []WindowBound
  BY BucketsKeep, PTL DEF BucketInv

\* An address whose requests keep their order gets its whole burst.
THEOREM BurstIsKept == Spec => []KeepsUnspentBurst
  BY BucketsKeep, PTL DEF BucketInv
=============================================================================
