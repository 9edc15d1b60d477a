------------------------------ MODULE Accounts ------------------------------
(***************************************************************************)
(* Registering, logging in and rotating refresh tokens                     *)
(* (internal/service/auth_service.go, pkg/security/jwt.go), for the        *)
(* devices of one account.                                                 *)
(*                                                                         *)
(* A refresh token is a signature over its user and two times in whole     *)
(* seconds, so within an account the second it was minted in IS the token; *)
(* the table keeps its hash, not unique, and every statement finds rows by *)
(* that hash.  So the table is the number of unrevoked rows per second.    *)
(* A transaction's statements take effect with its commit; only Refresh    *)
(* reads before it.  Each answer travels to a device that may not be       *)
(* waiting for it any more.                                                *)
(*                                                                         *)
(* A registration passes two age checks: the app's (validators.dart), on   *)
(* the calendar of the device, and the server's, on its own calendar,      *)
(* of the birth date as the app has sent it.  The server's is written down *)
(* twice, in the validator birthdate18 and in the service, which come      *)
(* to the same.  Days of the server are those of UTC.                      *)
(***************************************************************************)
EXTENDS Integers, FiniteSets

CONSTANTS
  Devices, Requests,
  None,        \* "no request", "no device"
  Lifetime,    \* RefreshTokenTTL, in seconds
  LastSecond,  \* bound
  Births,      \* birth dates, and days on which devices register
  Todays

----------------------------------------------------------------------------
(* The calendar: a date is a year and the day of the year.                 *)

Leap(y) == y % 4 = 0 /\ (y % 100 # 0 \/ y % 400 = 0)
DaysIn(y) == IF Leap(y) THEN 366 ELSE 365

Dates == {d \in [year : Nat \ {0}, yearDay : 1..366] : d.yearDay <= DaysIn(d.year)}

DayAfter(d) ==
  IF d.yearDay < DaysIn(d.year) THEN [d EXCEPT !.yearDay = @ + 1]
  ELSE [year |-> d.year + 1, yearDay |-> 1]

DayBefore(d) ==
  IF d.yearDay > 1 THEN [d EXCEPT !.yearDay = @ - 1]
  ELSE [year |-> d.year - 1, yearDay |-> DaysIn(d.year - 1)]

NotAfter(d, e) == d.year < e.year \/ (d.year = e.year /\ d.yearDay <= e.yearDay)

\* The same day of the same month in year y; 29 February is 1 March where there is
\* none.  Both follow day 59, so from there on leap and common years differ by a day.
Anniversary(d, y) ==
  [year |-> y,
   yearDay |-> IF d.yearDay < 60 \/ (Leap(d.year) <=> Leap(y)) THEN d.yearDay
               ELSE IF Leap(y) THEN d.yearDay + 1
               ELSE IF d.yearDay = 60 THEN 60 ELSE d.yearDay - 1]

LeapDay(d) == Leap(d.year) /\ d.yearDay = 60

Adult(birth, today) == NotAfter(Anniversary(birth, birth.year + 18), today)

ASSUME AccountsConstants ==
  /\ None \notin Requests \cup Devices
  /\ Lifetime \in Nat \ {0} /\ LastSecond \in Nat \ {0}
  /\ Births \cup Todays \subseteq Dates

----------------------------------------------------------------------------

Seconds == 1..LastSecond

VARIABLES
  clock,
  account,  \* the rows of users and profiles are there
  live,     \* refresh_tokens: rows with revoked_at IS NULL, per token
  held,     \* the refresh token a device stores, 0 for none
  waits,    \* the request a device waits for
  pc, kind, \* where a request stands; "register", "login" or "refresh"
  by,       \* the device that sent it
  shown,    \* the refresh token it presented, 0 for none
  minted,   \* the refresh token made for it, 0 for none
  minors,   \* history: <<birth, day>> of those under 18 who passed both age checks
  mints,    \* history: how often each token was minted
  issued,   \* history: tokens whose row was committed
  signIns,  \* history: registrations and logins committed
  givenUp   \* history: refreshes whose device no longer waited for the answer

server  == <<account, live>>
client  == <<held, waits>>
request == <<pc, kind, by, shown, minted>>
history == <<mints, issued, signIns, givenUp>>
vars    == <<clock, server, client, request, minors, history>>

TypeOK ==
  /\ clock \in Seconds
  /\ account \in BOOLEAN
  /\ live \in [Seconds -> Nat]
  /\ held \in [Devices -> {0} \cup Seconds]
  /\ waits \in [Devices -> Requests \cup {None}]
  /\ pc \in [Requests -> {"new", "asked", "checked", "minted", "issued", "invalid", "failed"}]
  /\ kind \in [Requests -> {"none", "register", "login", "refresh"}]
  /\ by \in [Requests -> Devices \cup {None}]
  /\ shown \in [Requests -> {0} \cup Seconds]
  /\ minted \in [Requests -> {0} \cup Seconds]
  /\ minors \subseteq Births \X Todays
  /\ mints \in [Seconds -> Nat]
  /\ issued \subseteq Seconds
  /\ signIns \in Nat
  /\ givenUp \subseteq Requests

Init ==
  /\ clock = 1
  /\ account = FALSE
  /\ live = [s \in Seconds |-> 0]
  /\ held = [d \in Devices |-> 0]
  /\ waits = [d \in Devices |-> None]
  /\ pc = [r \in Requests |-> "new"]
  /\ kind = [r \in Requests |-> "none"]
  /\ by = [r \in Requests |-> None]
  /\ shown = [r \in Requests |-> 0]
  /\ minted = [r \in Requests |-> 0]
  /\ minors = {}
  /\ mints = [s \in Seconds |-> 0]
  /\ issued = {}
  /\ signIns = 0
  /\ givenUp = {}

----------------------------------------------------------------------------
(* The age checks of a registration.                                       *)

\* Mutation: the years alone.
isAtLeast18YearsOld_ByYear(date, now) == date.year <= now.year - 18

\* The app's: DateTime(now.year - 18, now.month, now.day) is the day before which, or
\* on which, one must be born.
isAtLeast18YearsOld(date, now) == NotAfter(date, Anniversary(now, now.year - 18))

\* The picked day begins at midnight of the device: in UTC that is the day before,
\* where clocks are ahead of UTC.
formatBirthDate(date, east) == IF east THEN DayBefore(date) ELSE date

\* The day of the server, while it is `here` where the device is.
ServerDays(here, east) == {here, IF east THEN DayBefore(here) ELSE DayAfter(here)}

\* The server's: now.Year() - birth.Year(), less one while now.YearDay() < birth.YearDay().
Age(today, birth) ==
  today.year - birth.year - IF today.yearDay < birth.yearDay THEN 1 ELSE 0

----------------------------------------------------------------------------
(* What a device asks for.                                                 *)

Ask(r, d, what) ==
  /\ pc[r] = "new"
  /\ waits[d] = None
  /\ waits' = [waits EXCEPT ![d] = r]
  /\ kind' = [kind EXCEPT ![r] = what]
  /\ by' = [by EXCEPT ![r] = d]
  /\ UNCHANGED <<clock, server, held, minted, history>>

\* The app's check, before anything is sent; then Handler.Register, to its check: who
\* is too young for it is refused at once.
AskRegister(r, d) ==
  /\ held[d] = 0
  /\ Ask(r, d, "register")
  /\ \E here \in Todays, birth \in Births, east \in BOOLEAN :
       /\ isAtLeast18YearsOld(birth, here)
       /\ \E today \in ServerDays(here, east) :
            LET admitted == Age(today, formatBirthDate(birth, east)) >= 18
            IN  /\ pc' = [pc EXCEPT ![r] = IF admitted THEN "checked" ELSE "failed"]
                /\ minors' = IF admitted /\ ~Adult(birth, here)
                               THEN minors \cup {<<birth, here>>} ELSE minors
  /\ UNCHANGED shown

\* Login, with the right password.
AskLogin(r, d) ==
  /\ held[d] = 0
  /\ Ask(r, d, "login")
  /\ pc' = [pc EXCEPT ![r] = IF account THEN "checked" ELSE "failed"]
  /\ UNCHANGED <<shown, minors>>

AskRefresh(r, d) ==
  /\ held[d] # 0
  /\ Ask(r, d, "refresh")
  /\ pc' = [pc EXCEPT ![r] = "asked"]
  /\ shown' = [shown EXCEPT ![r] = held[d]]
  /\ UNCHANGED minors

----------------------------------------------------------------------------
(* The service.                                                            *)

Serve == <<clock, client, kind, by, shown, minors>>
Expired(s) == clock >= s + Lifetime

\* ParseRefreshToken and the EXISTS, outside the transaction.
CheckToken(r) ==
  /\ pc[r] = "asked"
  /\ pc' = [pc EXCEPT ![r] =
       IF live[shown[r]] > 0 /\ ~Expired(shown[r]) THEN "checked" ELSE "invalid"]
  /\ UNCHANGED <<Serve, server, minted, history>>

\* GenerateRefreshToken: the token is the second.
GenerateRefreshToken(r) ==
  /\ pc[r] = "checked"
  /\ pc' = [pc EXCEPT ![r] = "minted"]
  /\ minted' = [minted EXCEPT ![r] = clock]
  /\ mints' = [mints EXCEPT ![clock] = @ + 1]
  /\ UNCHANGED <<Serve, server, issued, signIns, givenUp>>

Insert(tokens, s) == [tokens EXCEPT ![s] = @ + 1]

\* Mutation: the old row is left as it is.
Revoke_Forgotten(s) == live

\* Mutation: WHERE user_id = $1
Revoke_AllOfUser(s) == [t \in Seconds |-> 0]

\* UPDATE refresh_tokens SET revoked_at, by hash: every row of the token, or none.
Revoke(s) == [live EXCEPT ![s] = 0]

Rotated(r) == Insert(Revoke(shown[r]), minted[r])

Issue(r) ==
  /\ pc[r] = "minted"
  /\ pc' = [pc EXCEPT ![r] = "issued"]
  /\ issued' = issued \cup {minted[r]}
  /\ UNCHANGED <<Serve, minted, mints, givenUp>>

\* The three inserts of Register, unless the e-mail is taken.
CommitRegister(r) ==
  /\ kind[r] = "register"
  /\ ~account
  /\ Issue(r)
  /\ account' = TRUE
  /\ live' = Insert(live, minted[r])
  /\ signIns' = signIns + 1

CommitLogin(r) ==
  /\ kind[r] = "login"
  /\ Issue(r)
  /\ live' = Insert(live, minted[r])
  /\ signIns' = signIns + 1
  /\ UNCHANGED account

\* The rows the UPDATE changed are not counted: the new row is inserted anyway.
CommitRefresh(r) ==
  /\ kind[r] = "refresh"
  /\ Issue(r)
  /\ live' = Rotated(r)
  /\ UNCHANGED <<account, signIns>>

\* Mutation: no rollback, the old row is put back.
Fail_PutsBack(r) ==
  /\ pc[r] \in {"asked", "checked", "minted"}
  /\ pc' = [pc EXCEPT ![r] = "failed"]
  /\ live' = IF kind[r] = "refresh" THEN [live EXCEPT ![shown[r]] = 1] ELSE live
  /\ UNCHANGED <<Serve, account, minted, history>>

\* A statement fails (the e-mail is taken, the server dies): rollback.  A device
\* cannot tell a failed EXISTS from an invalid token.
Fail(r) ==
  /\ pc[r] \in {"asked", "checked", "minted"}
  /\ pc' = [pc EXCEPT ![r] = "failed"]
  /\ UNCHANGED <<Serve, server, minted, history>>

----------------------------------------------------------------------------
(* The devices again, and the clock.                                       *)

\* saveTokens, or clear after a refresh that failed.
Receive(d) ==
  /\ waits[d] # None
  /\ pc[waits[d]] \in {"issued", "invalid", "failed"}
  /\ held' = [held EXCEPT ![d] = IF pc[waits[d]] = "issued" THEN minted[waits[d]] ELSE 0]
  /\ waits' = [waits EXCEPT ![d] = None]
  /\ UNCHANGED <<clock, server, request, minors, history>>

\* The app is killed and keeps what it has stored, or times out and clears it.
Desert(d) ==
  /\ waits[d] # None
  /\ held' \in {held, [held EXCEPT ![d] = 0]}
  /\ waits' = [waits EXCEPT ![d] = None]
  /\ givenUp' = givenUp \cup {r \in {waits[d]} : kind[r] = "refresh"}
  /\ UNCHANGED <<clock, server, request, minors, mints, issued, signIns>>

Tick ==
  /\ clock < LastSecond
  /\ clock' = clock + 1
  /\ UNCHANGED <<server, client, request, minors, history>>

Next ==
  \/ \E r \in Requests, d \in Devices :
       AskRegister(r, d) \/ AskLogin(r, d) \/ AskRefresh(r, d)
  \/ \E r \in Requests :
       \/ CheckToken(r) \/ GenerateRefreshToken(r) \/ Fail(r)
       \/ CommitRegister(r) \/ CommitLogin(r) \/ CommitRefresh(r)
  \/ \E d \in Devices : Receive(d) \/ Desert(d)
  \/ Tick

Spec == Init /\ [][Next]_vars

----------------------------------------------------------------------------
(* Properties.                                                             *)

\* auth_service.go:49, "must be at least 18 years old".  Whatever the calendars and time
\* zones of the device and of the server make of a birth date, nobody younger passes both
\* checks, but on 29 February those who turn 18 the day after.  (The app takes 29
\* February eighteen years before, a day there was not, for 1 March, and for the server
\* both are the 60th day.)  On that day the code breaks its rule.
AdultsOnlyButOnLeapDays ==
  \A m \in minors : LeapDay(m[2]) /\ Adult(m[1], DayAfter(m[2]))

Twin(s) == mints[s] > 1

\* A refresh is refused only for a token that expired, that another sign-in or
\* refresh minted in the same second (both devices then hold the same token, and
\* the first to rotate it revokes the other's), or that the device had presented
\* before and given up on.
RefusedForAReason ==
  [][\A r \in Requests : pc[r] = "asked" /\ pc'[r] = "invalid" =>
       \/ Expired(shown[r]) \/ Twin(shown[r])
       \/ \E q \in givenUp : shown[q] = shown[r]]_vars

\* The unrevoked rows of the table: of each token, the first, the second, ...
Rows(tokens) == UNION {{s} \X (1..tokens[s]) : s \in Seconds}

\* Rotation is one for one, whatever refreshes overlap: a sign-in accounts for
\* one unrevoked row, and so does a refresh given up, at most.
OneRowPerSignIn == Cardinality(Rows(live)) <= signIns + Cardinality(givenUp)

\* A token that was revoked stays revoked, unless its second saw another mint.
RevokedStaysRevoked ==
  [][\A s \in issued : live[s] = 0 /\ ~Twin(s) => live'[s] = 0]_vars
=============================================================================
