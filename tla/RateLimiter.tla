---------------------------- MODULE RateLimiter ----------------------------
(***************************************************************************)
(* The token bucket in front of /auth/register and /auth/login             *)
(* (internal/middleware/rate_limit.go).                                    *)
(*                                                                         *)
(* Buckets are measured in time: a bucket holds Capacity (the burst), a    *)
(* request costs Cost (1 / RequestsPerSecond), and the bucket fills by one *)
(* for each unit of time.  A request reads the clock before it locks, so a *)
(* later reader may refill the bucket first and the earlier one then takes *)
(* time out of it again.  One mutex guards every bucket and is held while  *)
(* the handler runs.                                                       *)
(***************************************************************************)
EXTENDS Integers

CONSTANTS
  Requests, Addresses,
  AddressOf, \* clientIP
  Capacity, Cost,
  LastTime  \* bound

ASSUME RateLimiterConstants ==
  /\ AddressOf \in [Requests -> Addresses]
  /\ Capacity \in Nat
  /\ Cost \in Nat \ {0}
  /\ Cost <= Capacity
  /\ LastTime \in Nat

Times == 0..LastTime

VARIABLES
  clock,
  pc,        \* where a request stands
  now,       \* the time it read
  held,      \* a handler runs, with mu locked
  known,     \* the keys of visitors
  remaining, lastSeen,
  spent,     \* history: what requests that arrived at a time or later took
  latest     \* history: the latest `now` that refilled a bucket

visitors == <<known, remaining, lastSeen>>
vars == <<clock, pc, now, held, visitors, spent, latest>>

TypeOK ==
  /\ clock \in Times
  /\ pc \in [Requests -> {"new", "arrived", "fetched", "inside", "done", "refused"}]
  /\ now \in [Requests -> Times]
  /\ held \in BOOLEAN
  /\ known \subseteq Addresses
  /\ remaining \in [Addresses -> Int]
  /\ \A a \in Addresses : remaining[a] <= Capacity
  /\ lastSeen \in [Addresses -> Times]
  /\ spent \in [Addresses -> [Times -> Nat]]
  /\ latest \in [Addresses -> Times]

Init ==
  /\ clock = 0
  /\ pc = [r \in Requests |-> "new"]
  /\ now = [r \in Requests |-> 0]
  /\ held = FALSE
  /\ known = {}
  /\ remaining = [a \in Addresses |-> Capacity]
  /\ lastSeen = [a \in Addresses |-> 0]
  /\ spent = [a \in Addresses |-> [t \in Times |-> 0]]
  /\ latest = [a \in Addresses |-> 0]

----------------------------------------------------------------------------
(* Middleware.                                                             *)

Goto(r, there) == pc' = [pc EXCEPT ![r] = there]

\* time.Now
Arrive(r) ==
  /\ pc[r] = "new"
  /\ Goto(r, "arrived")
  /\ now' = [now EXCEPT ![r] = clock]
  /\ UNCHANGED <<clock, held, visitors, spent, latest>>

\* Mutation: lastSeen is not what the elapsed time is counted from.
Refilled_SinceStart(a, t) ==
  IF a \in known /\ remaining[a] + t <= Capacity THEN remaining[a] + t ELSE Capacity

\* Mutation: a known address starts at nothing instead of what it has left.
Refilled_FromZero(a, t) ==
  IF a \in known /\ t - lastSeen[a] <= Capacity THEN t - lastSeen[a] ELSE Capacity

\* A new visitor is full; a known one gains (or loses) the time since lastSeen.
Refilled(a, t) ==
  IF a \in known /\ remaining[a] + t - lastSeen[a] <= Capacity
    THEN remaining[a] + t - lastSeen[a]
    ELSE Capacity

GetVisitor(r) ==
  LET a == AddressOf[r]
  IN  /\ pc[r] = "arrived"
      /\ ~held
      /\ Goto(r, "fetched")
      /\ known' = known \cup {a}
      /\ remaining' = [remaining EXCEPT ![a] = Refilled(a, now[r])]
      /\ lastSeen' = [lastSeen EXCEPT ![a] = now[r]]
      /\ latest' = [latest EXCEPT ![a] = IF now[r] > @ THEN now[r] ELSE @]
      /\ UNCHANGED <<clock, now, held, spent>>

\* mu is locked anew; meanwhile others may have drawn on the same visitor.
Refuse(r) ==
  /\ pc[r] = "fetched"
  /\ ~held
  /\ remaining[AddressOf[r]] < Cost
  /\ Goto(r, "refused")
  /\ UNCHANGED <<clock, now, held, visitors, spent, latest>>

\* mu stays locked until the handler returns.
Pass(r) ==
  LET a == AddressOf[r]
  IN  /\ pc[r] = "fetched"
      /\ ~held
      /\ remaining[a] >= Cost
      /\ Goto(r, "inside")
      /\ held' = TRUE
      /\ remaining' = [remaining EXCEPT ![a] = @ - Cost]
      /\ spent' = [spent EXCEPT ![a] = [t \in Times |->
                     IF t <= now[r] THEN spent[a][t] + Cost ELSE spent[a][t]]]
      /\ UNCHANGED <<clock, now, known, lastSeen, latest>>

\* Mutation: a panic in the handler skips the unlock.
Return_NoDefer(r) ==
  /\ pc[r] = "inside"
  /\ Goto(r, "done")
  /\ held' \in BOOLEAN
  /\ UNCHANGED <<clock, now, visitors, spent, latest>>

\* The handler answered, or panicked and was recovered: the deferred Unlock.
Return(r) ==
  /\ pc[r] = "inside"
  /\ Goto(r, "done")
  /\ held' = FALSE
  /\ UNCHANGED <<clock, now, visitors, spent, latest>>

Tick ==
  /\ clock < LastTime
  /\ clock' = clock + 1
  /\ UNCHANGED <<pc, now, held, visitors, spent, latest>>

Step(r) == GetVisitor(r) \/ Refuse(r) \/ Pass(r) \/ Return(r)

Next == Tick \/ \E r \in Requests : Arrive(r) \/ Step(r)

Spec == Init /\ [][Next]_vars

\* Locks are granted and handlers return.
FairSpec == Spec /\ \A r \in Requests : WF_vars(Step(r))

----------------------------------------------------------------------------
(* Properties.                                                             *)

\* rate_limit.go:55: whatever the order in which requests get the mutex, those
\* of one address that arrived since any moment t take no more than a burst and
\* what was refilled since t.
WindowBound ==
  \A a \in Addresses, t \in Times :
    t <= clock => spent[a][t] <= Capacity + (clock - t)

\* rate_limit.go:48: an address still has what it did not spend of its burst,
\* less the time by which the request that came last was overtaken; so one
\* whose requests keep their order is refused only once the burst is spent.
KeepsUnspentBurst ==
  \A a \in Addresses :
    remaining[a] >= Capacity - spent[a][0] - (latest[a] - lastSeen[a])

\* rate_limit.go:72: the mutex is free again, so every request is answered,
\* although all addresses wait for each handler.
RequestsEnd ==
  \A r \in Requests : pc[r] = "arrived" ~> pc[r] \in {"done", "refused"}
=============================================================================
