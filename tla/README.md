# Verification of the datenow backend and its client core

`datenow` is a dating application: a Go API server (gin, pgx on PostgreSQL, a
gorilla websocket hub) and a Flutter client. This directory holds TLA+ models of
the parts whose correctness depends on what overlaps with what, the TLC
configurations that check them, and TLAPS proofs of their main invariants.

## Inventory

| component | state it keeps | operations | hard behaviour | what makes it correct |
|---|---|---|---|---|
| websocket hub (`internal/websocket`) | `clients`: user -> current client; per client a channel of 256, a socket, two goroutines | Register, Unregister, SendToUser, ServeWS, readPump, writePump | reconnects, slow peers, an Unregister spawned as a goroutine, all keyed by user | no double close and no send on a closed channel (either panics); no dead entry, no leaked channel or goroutine; signals go to the current connection |
| swipes, matches, blocks (`discovery_repository.go`, `moderation_service.go`) | tables `swipes`, `matches`, `user_blocks` | RecordSwipeAndCheckMatch, BlockUser, ReportUser, the feed query | overlapping transactions at READ COMMITTED; rollbacks | one match per pair, only from two likes, undone only by a block; mutual likes do match; a block leaves no match |
| live statuses (`status_repository.go`, `status_handler.go`) | tables `statuses`, `status_requests` | CreateStatus, CreateStatusRequest, AcceptRequestAndCloseStatus, the nearby query | row locks in different orders, snapshots older than the locks, re-joins | a decision closes the status; one partner per status; only pending requests are accepted; every request ends |
| registration, login, refresh tokens (`auth_service.go`, `jwt.go`) | `users`, `refresh_tokens` | Register (behind the app's age check), Login, Refresh | the rotation is checked outside its transaction; tokens of one second are equal; lost answers; leap years and time zones | a sign-in accounts for one valid token; a revoked one stays revoked; a refusal has a cause; who registers is 18 by the calendar |
| mobile HTTP client (`core/network`) | stored tokens; `_queue`, `_isRefreshing` of the refresh interceptor | a request, its 401, the refresh, the retries | retries that pass through the same interceptor; a list changed while iterated | each request is answered; one refresh at a time; fresh tokens are kept |
| call quota (`quota.go`) | `video_call_count`, `last_call_reset_date`, `is_premium` of a user | the middleware | read, compute, write back; rollback on refusal; month arithmetic | the calls counted are the calls made, five a window |
| billing (`billing/service.go`) | `subscriptions`, `premium_expires_at` | VerifyAndActivateSubscription | purchases that overlap each other and quota checks | paid months add up, and paid time has the flag |
| call signalling (`call_service.go`, its handlers, `rtc/token.go`) | none on the server | Initiate, Accept, token issue | a chain of middleware before the handler; a match that goes meanwhile; a stale premium flag | what rings is paid for or counted; nothing after a block; token lifetimes fit |
| chat (`chat_service.go`) | `messages` | SendDateRequest | the match deleted, or premium changed, between two statements | messages only in existing matches; a refusal only without premium |
| rate limiter (`rate_limit.go`) | a token bucket per address | getVisitor, Middleware | a clock read before the lock; two critical sections; the lock held through the handler | never more than burst + rate x time; unspent burst is kept; every request is answered |
| chat page's socket (`chat_ws_provider.dart`) | `_channel`, `isConnected`, timers | connect, onError, onDone, _reconnect, dispose | awaits between check and use; two reconnects for one failure; late departures at the server | it never gives up, comes to rest on one connection, and leaves none behind |
| the rest | | the app-wide socket client, device attestation, webhook, push tokens, honeypot, location, poison, behavioural limiter, crypto, proof of work, screens | stateless, one statement, or without a caller in `cmd/api` | |

They interact through the database (matches decide who may call and chat; a block
deletes matches and closes statuses; premium columns decide quota, chat and token
lifetimes), through `SendToUser` (the call and status handlers signal users through
the hub), and through the tokens the client stores.

## Modules

| module | models | composes or implements |
|---|---|---|
| `Hub` | the hub and the goroutines of its connections | implements `Sessions` |
| `Sessions` | what the hub promises those who signal users | |
| `Matching` | swipe and block transactions | |
| `LiveStatus` | status, join, accept and block transactions | implements `Decisions` |
| `Decisions` | what accepts and blocks promise about statuses | |
| `RefreshQueue` | the client's refresh interceptor and its server | |
| `Premium` | quota checks and purchases on one user's row | implements `CallAllowance` |
| `CallAllowance` | what the quota promises a user | |
| `Contact` | calls, date requests and blocks of one match, behind their middleware | takes the quota as the steps of `CallAllowance`, delivery as in `Sessions` |
| `Accounts` | registration, login, rotation, and the devices | |
| `RateLimiter` | the token bucket in front of registration and login | |
| `WsClient` | the chat page's socket and the server's end of it | the app with the coarse hub |

Each `X_proofs` holds the theorems about `X`, and `Websocket_proofs` those about `Hub`
and `WsClient`; each `XMC` only gives constants to TLC. Definitions with a suffix after an underscore (`Leave_Silent`) are mutations: each
is a plausible bug in the definition it is named after, and is part of no
specification.

`Hub` has one action per critical section of the hub and per blocking step of a
connection's two goroutines. `clients`, `chan` and `buffered` are the map and the
channels; `reader`, `writer` and `sock` the program counters and the socket; `drops`
counts the `go h.Unregister` goroutines by the client whose channel was full;
`panicked` records that a close or a send hit a closed channel. Messages are
counted, not told apart. The owner of a connection is a constant function: a
connection has one token. `Sessions` forgets goroutines, locks and channels: a
user has at most one current connection, each is current once, a signal is queued for
the current one or lost.

`Matching` has one action per SQL statement of RecordSwipeAndCheckMatch and BlockUser. The
variables `swipes`, `matches` and `blocks` hold what is committed; what an open
transaction has written follows from its `pc`, and appears at its commit.
`matches` counts rows per unordered pair, so that uniqueness is a property and not
a shape; `overlapped` remembers whether requests ever overlapped, so that the run
tells what a block guarantees alone (`BlockClearsMatchAlone`) from what it does not
among others: the interleaving that defeats it is an observation below. The
database's part is external and mapped as such: a statement waits for a row an open
transaction wrote, and a unique-index check waits for the index entry's writer. A
statement that waits is one whose action is not enabled; that a waiting DELETE keeps
the snapshot it started with is not modelled (its effect, a row it does not see, is
already reached by rows inserted after it).

`LiveStatus` models AcceptRequestAndCloseStatus and the two statements of BlockUser
on the status tables. Here snapshot and lock are separate actions, because the
difference is what goes wrong: `Look` reads request and status, `LockRequest` waits
for the request row and re-tests that row only, which is what PostgreSQL does for
`FOR UPDATE OF sr`. Multi-row updates lock row by row (`todo` holds the rows the
snapshot chose). Joins are single statements; a new row's foreign key waits for a
status locked FOR UPDATE, a re-join's update does not. Blocks of two users neither of
whom posts are left out: they touch no row of these tables. `Decisions` has the same
tables and no transactions: an accept or a block decides its requests and closes their
status in one step, by what is pending at that step.

`RefreshQueue` models the interceptor from one await to the next: `pc` is where a
request, or the `onError` that handles its 401, stands; `queue`, `isRefreshing`, the
completers, and the iterator's `pos` and expected `len` are the code's. A token is the
number of the refresh that minted it. A repetition is the loop's own step
(`Repeat`), or, when it is refused, a second entry in the queue of a handler that
stays at `nested`. The server is one atomic `Rotate`, which suffices for one client that
refreshes once at a time (`Accounts` has the rotation in detail, and the app that is killed between a rotation and
its storing). Tokens are taken as
distinct: two of the same second are equal, but then the one minted last is valid, as
in the model. Left out: storage calls that throw, and the web build, whose storage
promises no order.

`Premium`: `isPremium`, `premiumExpiresAt`, `callCount` and `lastReset` are the user's
columns, `locker` the FOR UPDATE lock, `row` what a check has read, `since` its `now`. A
check is `LockRow`, then one of `PassPremium`, `Refuse`, `CountCall`, `QuotaError`; a
purchase `Verify`, `InsertSubscription` (whose foreign key waits for the lock),
`Activate`. A commit of `CountCall` may be applied without its acknowledgement arriving:
the call then ends `lost`, counted and answered with a 500; any other failure is a
rollback. The calendar is a constant function `MonthAfter`: `AddDate(0, 1, 0)` adds the
length of the current month, so that 31 January leads to 3 March. `CallAllowance` has no
transactions: a call is decided at once, by the clock of some moment of its
request, on paid time, on a free call of the window, or refused.

`Contact` follows each request through `cmd/api/main.go`'s chain: a call through
`Quota`, `Attest`, `ValidateMatchAndRoles` and its signals; a date request through its
four statements; a block through the DELETE of the match and its commit. `paid` and
`flag` are `premium_expires_at > now` and `is_premium` of each member: they differ
after `Expire`, and `Quota` clears the flag when it counts a call. `Stop` is every
early return, error and death. `late`, `paying` and `unpaid` record what was true
at some moment of a request, for the properties.

`Accounts`: a refresh token signs its user and two times in whole seconds, so within an
account the second it was minted in is the token; the table is the number of
unrevoked rows per second (`live`). Devices store a token, wait for one request at a
time, and may be killed or time out before its answer (`Desert`). `AskRegister` takes a
birth date through the app's check (`isAtLeast18YearsOld`, by the device's calendar),
its way to the server (`formatBirthDate`: local midnight in UTC, the day before where
clocks are ahead) and the server's check (`Age`, written down twice in the code, with the
same result). The server's calendar is taken to be UTC's, since nothing in the
repository sets a time zone: its date is the device's, the day before (in the east) or
the day after (in the west). A date is a year and the day of the year, of the Gregorian
calendar; who is born on 29 February turns 18 on 1 March. `minors` remembers the birth
dates of those under 18 who passed both checks, and the days.

`RateLimiter`: requests read the clock (`Arrive`), refill under the lock
(`GetVisitor`), and lock again to spend and run the handler (`Pass`, `Return`). A bucket is
measured in time, so that refilling adds the time since `lastSeen`, or takes time
away when an earlier reader comes later.

`WsClient`: `timers` are the pending delays of `_reconnect`, `reading` the calls of
`connect` that await the token, `side` and `peer` the two ends of a channel, `last` and
`isConnected` the notifier's fields, `current` the hub's entry. A failed handshake
gives the stream an error and its end, in one step, because no timer runs in between. The
server's end is `Hub`'s, without channels and goroutines: `Upgrade` drops the
current connection, `CloseSocket` is the writer's, `LeaveHub` the reader's.
`Fire` assumes that the server closes a dropped connection, and its reader unregisters, in
less than the 3 s of the delay, unless that connection is cut.

The SQL `VALUES (LEAST($1, $2), GREATEST($1, $2))` is modelled as its evident intent,
the two user ids in order; how PostgreSQL types its untyped parameters is not
modelled.

## Runs

| run | asks | bounds | result |
|---|---|---|---|
| `Hub` | panics, leaks, dead entries; do goroutines end; is it `Sessions` | one user, 2 connections, channel of 2, one pending drop per client | holds under `FairSpec` |
| `Matching` | uniqueness, two likes, a block that overlaps nothing; do requests end | 2 users, 2 overlapping requests | holds under `FairSpec` |
| `Matching_lost_match` | do mutual likes match | 2 requests | violated: write skew |
| `LiveStatus` | decisions and partners; do accepts and blocks end; is it `Decisions` | 1 status, 3 users, 2 requests, any joins | holds under `FairSpec`, thanks to deadlock detection |
| `LiveStatus_two_partners` | one partner per status | 1 status, 3 users, 2 requests | violated around a re-join |
| `RefreshQueue` | one refresher, no replay, why tokens are cleared; does the flag come down, who is not answered | 3 requests, 4 token pairs, all may expire | holds under `FairSpec` |
| `RefreshQueue_lost` | are waiters served | 2 requests | violated: the queue grows under its loop |
| `Premium` | are calls counted and months added up; does paid time keep its flag; is it `CallAllowance` | 3 calls on 2 free ones, 2 purchases, 5 days around a month of 28, requests of up to a day | holds |
| `Contact` | messages, rings and tokens against a block, the quota and premium | a call and an accept by one, a date request and a block by the other, 1 free call | holds |
| `Accounts` | rows per sign-in, revival, refusals; on which days a minor passes both age checks | 2 devices, 4 requests, 3 s, lifetime 2 s; born on 29 February or 1 March, asked on 28 or 29 February or 1 March, in leap and common years, east and west of the server | holds |
| `RateLimiter` | the bound over every window, unspent burst; are requests answered | 3 requests of one address and 1 of another, burst of 2 requests, times 0 to 3 | holds under `FairSpec` |
| `WsClient` | does it give up, do attempts multiply, does it come to rest, what stays behind | 4 channels, 1 failed handshake, 2 lost or dropped connections | holds under `FairSpec` |

Why the bounds are enough. A hub operation touches one user's entry, so one user
suffices; two connections give a current one and a superseded one whose departure and
drops may hit it; a channel of two tells empty, partly full and full apart. A match
concerns one pair, and two users give both directions of likes and of blocks; two
requests race, each goroutine serving any number of them in turn. One status with
the poster and two others gives two accepts and a bystander; requests on different
statuses share no row except through a block, whose pair is covered. In `RefreshQueue`
three requests give a refresher, one that waits and one that comes under the loop;
each can refresh once, so that `MaxGen` of one more than the requests never binds.
In `Premium` three calls on two free ones give a refusal, a window that ends and one
that opens; of two purchases one extends the other. The days are 25 and 31 January, 1
February, 1 and 4 March: windows opened on consecutive days end in the wrong order.
In `Contact` each kind of request occurs once, and one member asks twice with one
free call. In `Accounts` two devices and four requests give a shared token, a lost
rotation and a replay. The dates are those around the day that only leap
years have, which is where the two age checks differ from the calendar. In `RateLimiter` the burst is two requests, so that the third is
refused or lives on a refill. In `WsClient` a failure doubles the attempts, a cut
leaves an old connection that departs late, and a drop strikes the next; four channels
never run out. What is proved holds beyond all these bounds.

`MaxDrops` bounds spawned goroutines: beyond it the hub's model does not send to a full
channel. `MaxFailures` and `MaxCuts` bound the faults of `WsClient`. `CHECK_DEADLOCK
FALSE` stands where requests, connections and seconds are used up and the model ends;
in `WsClient` it ends when a page is left.

Symmetry is used in the safety runs `Matching_lost_match` and `Accounts` only, where
requests (and devices) are told apart by nothing but their names; the properties
checked there have no fairness.

## Fairness

`Hub`: the reader (up to its first read, and after a failed one), the writer, and a
spawned Unregister are weakly fair: goroutines that can run do run, writes carry a
10 s deadline and reads a 60 s one. Nothing makes a peer connect, send or vanish.
`Matching`, `LiveStatus`: a transaction's statements are strongly fair, since the
database queues waiters; in `LiveStatus` a statement or the deadlock check is: without
the check two accepts of one status wait for ever. No request has to arrive
and none has to be aborted.
`RefreshQueue`: every await is answered (20 s and 30 s timeouts of the client, local
storage); no request must be issued and no token must expire. `LoginToken`, in the run
`RefreshQueue_lost`, says that a fresh access token outlives the refresh, to show that the
loss does not depend on its expiry.
`RateLimiter`: a free mutex is granted, and
handlers return. `WsClient`: storage answers, timers fire, handshakes are answered
and closes arrive while the network is there, the server's goroutines run. Nothing makes
the app notice a cut connection: it sends no pings.

## What the violated runs show

- `Matching_lost_match`: two overlapping likes each miss the other.
- `LiveStatus_two_partners`: accept A rejects request r; r is re-joined at A's commit;
  accept B, whose snapshot is older than that commit, locks r as pending and goes on
  although the status is closed.
- `RefreshQueue_lost`: request 2 gets its 401 while request 1 is being repeated. The loop
  throws, the fresh tokens are deleted (the user is logged out), request 1 was
  completed before and is never passed on, request 2 never completed.

A fourth claim is broken, and by a theorem: `auth_service.go:49` answers "must be at least
18 years old", and `EveryLeapDayErrs` shows that on every 29 February those who turn 18
the day after get through. On 29 February 2024 that is whoever was born on 1 March 2006: the
app's limit is `DateTime(2006, 2, 29)`, which Dart takes for 1 March 2006, and the server
finds the 60th day of the year on both sides. The run `Accounts` contains this case;
`AdultsOnlyButOnLeapDays` says that there is no other.
The server's check alone breaks its rule more often: in the months after February it is a
day early or late for those born in the other kind of year (leap or common;
`AgeErrsByADay`), and east of Greenwich the date it is given is a day early as well. The
app stops those minors; adults the server takes for a day too young are turned away on
their 18th birthday (born on 1 March 2004, on 1 March 2022).

## Observations

What the code does, no comment denies, and the models contain; the properties are
stated so that they hold with it.

- Hub: the Unregister spawned for a full channel (`hub.go:58`) and the deferred one of
  a superseded connection (`connection.go:63`) name the user, and remove whichever
  connection is current by then.
- Blocks: a match committed between a block's DELETE and its commit survives the
  block; swipes and joins never read `user_blocks`, so blocked users can also match
  and join afterwards.
- Refresh interceptor: a repetition refused with 401 again waits for the loop that
  awaits it, and every later 401 queues up behind it until the app restarts.
- Tokens: two refreshes with one token both succeed, since nobody looks at how many
  rows the UPDATE revoked; tokens of the same second are equal, so a rotation within
  the second revokes the token it hands out, and two devices may share one.
- Age: the `birth_date` stored is a day early for those who register east of Greenwich.
- Quota: it is spent before attestation, match and callee are checked, is never given
  back, and an accept costs a call too. A refusal rolls back the cleared flag
  (`quota.go:69`, `quota.go:90`), which then outlives the paid time. A call whose commit
  is not acknowledged (`quota.go:110`) is counted and gets a 500.
- Billing: the receipt id is stored empty (`billing/service.go:96`), so one receipt sent
  twice extends premium twice.
- Calls: the other side's token goes by its flag, stale or not. Whoever asks becomes the
  caller, the accepter too; both tokens of an accept are in the answer to one side.
- Registration sets `last_call_reset_date`, so the first window opens on that day.
- Rate limiter: `visitors` is never cleaned; one handler at a time runs for all
  addresses; a request that is overtaken takes time out of its bucket.
- Middleware: the honeypot's route (`main.go:174`) has no access-token middleware in front
  of it, so the user id it looks for (`honeypot.go:24`) is never there.
- Chat page: after a failed handshake `onError` and `onDone` both schedule a reconnect,
  so attempts double while the server is out of reach, or refuses an expired or missing
  token ("dummy_token"); the connections that succeed in the end keep
  superseding each other at the hub. A page left while the token is read opens a
  connection nobody closes, and one left after a failure may leave a second channel
  behind `_channel`. A token read that throws ends the retries.
- The app-wide `WebSocketClient` sends its token as `access_token`; `ServeWS` reads
  `token`.

## Proofs

Every safety property the passing runs check, be it an invariant, an action property or a
refinement, is also a theorem, for all values of the constants. A proof has an inductive
invariant, one lemma per operation or kind of step, and theorems that follow by PTL. The
only assumptions are each module's named ASSUME.

- `Websocket_proofs`, the hub: `HubInv` is `TypeOK`, `NoPanic`, `OpenIffMapped`,
  `MappedIsServed` and "no channel before Register". `NoPanic` is not inductive: Register
  and Unregister close what the map holds, so the map must hold open channels; that needs
  every entry to lie under its own user; and that a fresh connection has no channel keeps
  Register from reopening one. `HubImplementsSessions` maps each step to one of
  `Sessions` or to none: a Register opens, an Unregister ends, a buffered message is a
  signal, a taken one a write.
- `Websocket_proofs`, the app's end: `NotifierInv` adds that `isConnected`, while the page
  is shown, means that `_channel` is alive. A timer may find the flag set and do nothing:
  that the notifier does not give up then needs this fact. `FlagFitsChannel` needs the
  count of attempts: only a second attempt could clear the flag of a live channel.
- `Matching_proofs`: `MatchInv` adds that a pair's row has one open writer, that whoever
  has inserted found no row and none has come since, and that who goes for a match
  has read a like once committed. A commit adds a row without looking, so
  `OneMatchPerPair` needs the first two, `MatchNeedsBothLikes` the third. `AloneInv` and
  `MutualInv` say that what a transaction has read is still so while nothing overlapped:
  then a block leaves no match, and mutual likes make one. The latter is the other side of
  the run `Matching_lost_match`: a lost match takes two open transactions.
- `LiveStatus_proofs`: `StatusInv` adds that no row is locked by two transactions; for each
  statement, what a transaction has locked and still has to do, and that what it has locked
  is pending until its commit; and, while nobody re-joined, that an accept whose request is
  pending has no accepted one beside it, and every pending one before it. Without that
  condition the latter fails: that is the finding. `TransactionsDecideAtOnce` also needs
  `ClosesInv`: the statuses a block closes are those of requests it rejects, and active while
  it holds them. Every statement before the commit is a stutter of `Decisions`, and
  the commit one decision, or none if the block found nothing.
- `RefreshQueue_proofs`: `RefreshInv` adds that revoked tokens are older than the newest
  pair, that the presented token is the stored one, that the stored one is revoked only
  while it is being replaced or cleared, and that the queue only grows under its loop.
  `NoReplay` needs the third: after the server's rotation the stored token IS revoked,
  and only the flag keeps others from presenting it.
- `Premium_proofs`: `PremiumInv` adds that the lock has one holder, that what the holder has
  read is still the row, that the clock was read at most `MaxDelay` days ago, and that
  each request is in a state of its own kind.
  `QuotaImplementsAllowance` then shows that each commit is one decision of
  `CallAllowance`, by the clock of the moment the row was locked. `WindowInv` (no call that
  was counted read the clock after its window's end, so a reset leaves all of them out of
  the new one) makes the count the number of calls; `MonthsInv` adds that what is counted
  is finite, so that a purchase adds just the days of its month.
- `Contact_proofs`: `ContactInv` is `TypeOK`, what blocks keep (`BlockInv`: one transaction
  deletes, and none while a message is being inserted; late requests have found
  nothing) and what premium keeps (`PaidInv`: who has paid has the flag; what a date
  request has not seen was unpaid at some moment of it). `FreeAreCounted` counts, per
  member, the unpaid calls that rang or may still ring: only the quota lets one in, and
  takes one of the allowance for it.
- `Accounts_proofs`: `AccountsInv` adds that a token about to be inserted has been minted, and
  is counted apart from every other mint of its second: a commit that brings back the
  token of a revoked row is then a twin of it. `TokensInv` follows each token from the
  request that minted it to the device that holds it: it is valid, or a twin, or was
  presented by a request given up. `Accounted` bounds the rows: some `w` covers the rows of
  each token and the claims on it (devices that hold it, requests given up that still present
  it), and sums to no more than the sign-ins and the requests given up. A bound on the rows
  alone is not inductive, since two rotations of one row insert two: the second has a claim
  of its own. The ages are arithmetic on two dates: `AgeErrsByADay` bounds the error of the
  server's check, `AppErrsOnLeapDays` that of the app's, both ways, `AdultsButOnLeapDays`
  concludes for whoever passes both, and `EveryLeapDayErrs` that they do err on those days.
- `RateLimiter_proofs`: `BucketInv` adds that clocks that were read are past, that unknown
  buckets are full, and conservation: for each moment t, what was spent since t and
  what remains came out of a full bucket at t and the time since. The bound over every
  window and the unspent burst follow from it.

The type invariants of these modules and three action properties (`ClosedOnlyDrains`,
`UnmatchedOnlyByBlock`, `PaidTimeKept`) are proved and are in no run.

Only model-checked: liveness (`ConnectionsEnd`, `RequestsEnd` of `Matching`, `LiveStatus` and
`RateLimiter`, `RefreshEnds`, `AnsweredUnlessLost`, `SettlesUnlessDoubled`, `LeavesTheHub`):
fairness and ENABLED are out of the prover's reach.

## Plan

1. `Location`: `UpdateLocation`'s read, check and update, should it get a caller;
   the behavioural limiter's window.
2. The app's call and discovery controllers, composed with `Contact` and `Matching`.
3. `Contact`'s quota as `CallAllowance`, and the server's end of `WsClient` as `Sessions`:
   refinements that are true by construction so far.

## Not modelled

Stateless filters, primitives of cryptography, screens and wiring; the identity webhook
and push tokens (one idempotent statement each); read-only queries; code without a
caller in `cmd/api`; the app-wide `WebSocketClient`, which connects once and does not
retry. The reasons are with each component in `PROJECT.json`.
