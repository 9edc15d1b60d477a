------------------------------ MODULE WsClient ------------------------------
(***************************************************************************)
(* The chat page's socket of the mobile app (chat_ws_provider.dart, class   *)
(* ChatWsNotifier) and the server's end of its connections (hub.go,        *)
(* connection.go; Hub has that end in detail).                             *)
(*                                                                         *)
(* Each connect() reads the access token, opens a channel, and puts it in   *)
(* _channel over whatever was there: a channel that is replaced there lives  *)
(* on, and its onDone still schedules a reconnect.  A handshake that fails   *)
(* calls onError and onDone one after the other.  At the server a user has   *)
(* one current connection: a new one drops it, and one that ends removes    *)
(* whichever is current.  The state, steps and specification are named      *)
(* Client..., so that one proof module can extend this one and Hub.         *)
(***************************************************************************)
EXTENDS Naturals, FiniteSets

CONSTANTS
  Channels,     \* WebSocketChannels, used again once both ends are done
  NoChannel,    \* no channel, no entry in the hub
  MaxFailures,  \* bound: handshakes that fail
  MaxCuts       \* bound: connections lost, or dropped by the server

ASSUME WsClientConstants ==
  /\ IsFiniteSet(Channels)
  /\ NoChannel \notin Channels
  /\ MaxFailures \in Nat
  /\ MaxCuts \in Nat

VARIABLES
  disposed,     \* _isDisposed
  isConnected,  \* state.isConnected
  last,         \* _channel
  timers,       \* _reconnect: its Future.delayed of 3 s that have not fired
  reading,      \* connect: calls that wait for the access token
  side,         \* the app's end of a channel: opening, open, or reported done
  cut,          \* channels whose ends cannot hear each other any more
  peer,         \* the server's end: being served; dropped (its Send is closed);
                \* closed (its socket is); left (Unregister was called)
  current,      \* Hub.clients of the user
  failures,     \* handshakes that failed
  cuts,         \* connections lost or dropped so far
  stopped,      \* history: reading the token threw, once
  late          \* history: a disposed notifier opened a channel

client == <<disposed, isConnected, last, timers, reading, side>>
server == <<peer, current>>
faults == <<failures, cuts, stopped, late>>
clientVars == <<client, cut, server, faults>>

ClientTypeOK ==
  /\ disposed \in BOOLEAN /\ isConnected \in BOOLEAN /\ stopped \in BOOLEAN
  /\ late \in BOOLEAN
  /\ last \in Channels \cup {NoChannel}
  /\ current \in Channels \cup {NoChannel}
  /\ timers \in 0..(1 + MaxFailures) /\ reading \in 0..(1 + MaxFailures)
  /\ side \in [Channels -> {"none", "opening", "open"}]
  /\ peer \in [Channels -> {"none", "served", "dropped", "closed", "left"}]
  /\ cut \subseteq Channels
  /\ failures \in 0..MaxFailures /\ cuts \in 0..MaxCuts

\* The provider makes the notifier and calls connect() at once.
ClientInit ==
  /\ disposed = FALSE
  /\ isConnected = FALSE
  /\ last = NoChannel
  /\ timers = 0
  /\ reading = 1
  /\ side = [c \in Channels |-> "none"]
  /\ cut = {}
  /\ peer = [c \in Channels |-> "none"]
  /\ current = NoChannel
  /\ failures = 0
  /\ cuts = 0
  /\ stopped = FALSE
  /\ late = FALSE

Undone     == {c \in Channels : side[c] # "none"}
LastIsLive == last \in Undone

----------------------------------------------------------------------------
(* The app.                                                                *)

\* Both ends of a channel are done; which of these is used again makes no difference.
Free(c) == side[c] = "none" /\ peer[c] \in {"none", "left"}
NextFree == CHOOSE c \in Channels : Free(c)

\* The token is there: `_channel = WebSocketChannel.connect(uri)`.  In a disposed
\* notifier the assignment to state that follows throws: the channel is opened all
\* the same, and never listened to.
OpenChannel(c) ==
  /\ reading > 0
  /\ Free(c) /\ c = NextFree
  /\ reading' = reading - 1
  /\ last' = c
  /\ side' = [side EXCEPT ![c] = "opening"]
  /\ peer' = [peer EXCEPT ![c] = "none"]
  /\ cut' = cut \ {c}
  /\ isConnected' = (isConnected \/ ~disposed)
  /\ late' = (late \/ disposed)
  /\ UNCHANGED <<disposed, timers, current, failures, cuts, stopped>>

\* The secure storage throws: connect() has no try around the read, and ends.
ReadThrows ==
  /\ reading > 0
  /\ ~stopped
  /\ reading' = reading - 1
  /\ stopped' = TRUE
  /\ UNCHANGED <<disposed, isConnected, last, timers, side, cut, server, failures, cuts, late>>

\* Mutation: an end of the connection is shown and nothing is scheduled.
Reported_Shown(n) ==
  \/ disposed /\ UNCHANGED <<isConnected, timers>>
  \/ ~disposed /\ isConnected' = FALSE /\ UNCHANGED timers

\* Mutation: the state still says connected.
Reported_Hidden(n) ==
  \/ disposed /\ UNCHANGED <<isConnected, timers>>
  \/ ~disposed /\ timers' = timers + n /\ UNCHANGED isConnected

\* onError and onDone: nothing after dispose, else isConnected: false, _reconnect().
Reported(n) ==
  \/ disposed /\ UNCHANGED <<isConnected, timers>>
  \/ ~disposed /\ isConnected' = FALSE /\ timers' = timers + n

\* The server is out of reach or refuses the token, or its answer is lost: the
\* stream gives an error and ends, so both callbacks run.
Fail(c) ==
  /\ side[c] = "opening"
  /\ peer[c] = "none" \/ c \in cut
  /\ failures < MaxFailures
  /\ failures' = failures + 1
  /\ side' = [side EXCEPT ![c] = "none"]
  /\ Reported(2)
  /\ UNCHANGED <<disposed, last, reading, cut, server, cuts, stopped, late>>

\* The answer to the handshake arrives.
Opened(c) ==
  /\ side[c] = "opening"
  /\ peer[c] # "none"
  /\ c \notin cut
  /\ side' = [side EXCEPT ![c] = "open"]
  /\ UNCHANGED <<disposed, isConnected, last, timers, reading, cut, server, faults>>

\* onDone: the server closed its end, or the loss is noticed.
Done(c) ==
  /\ side[c] = "open"
  /\ c \in cut \/ peer[c] \in {"closed", "left"}
  /\ side' = [side EXCEPT ![c] = "none"]
  /\ Reported(1)
  /\ UNCHANGED <<disposed, last, reading, cut, server, faults>>

\* The server's socket is closed and its reader gone long before 3 s are over, but
\* for a connection that is cut, where a write may hang for writeWait.
HubIsQuiet == \A c \in Channels \ cut : peer[c] \notin {"dropped", "closed"}

\* Mutation: a periodic timer.
Fire_Periodic ==
  /\ timers > 0
  /\ HubIsQuiet
  /\ reading' = IF isConnected \/ disposed THEN reading ELSE reading + 1
  /\ UNCHANGED <<disposed, isConnected, last, timers, side, cut, server, faults>>

\* A delay is over: `if (!state.isConnected) connect()`, which does nothing in a
\* disposed notifier and otherwise starts to read the token.
Fire ==
  /\ timers > 0
  /\ HubIsQuiet
  /\ timers' = timers - 1
  /\ reading' = IF isConnected \/ disposed THEN reading ELSE reading + 1
  /\ UNCHANGED <<disposed, isConnected, last, side, cut, server, faults>>

\* Mutation: the socket is not closed.
Dispose_LeavesSocket ==
  /\ ~disposed
  /\ disposed' = TRUE
  /\ UNCHANGED <<isConnected, last, timers, reading, side, cut, server, faults>>

\* The page is left: `_subscription?.cancel(); _channel?.sink.close()`.
Dispose ==
  /\ ~disposed
  /\ disposed' = TRUE
  /\ cut' = cut \cup ({last} \cap Undone)
  /\ UNCHANGED <<isConnected, last, timers, reading, side, server, faults>>

----------------------------------------------------------------------------
(* The server and the network.                                             *)

\* ServeWS, Hub.Register: the current connection, if any, is dropped for c.
Upgrade(c) ==
  /\ side[c] = "opening"
  /\ peer[c] = "none"
  /\ current' = c
  /\ peer' = [x \in Channels |-> IF x = c THEN "served"
                                 ELSE IF x = current THEN "dropped" ELSE peer[x]]
  /\ UNCHANGED <<client, cut, faults>>

\* Mutation: writePump returns without conn.Close().
CloseSocket_Forgotten(c) ==
  /\ peer[c] = "dropped"
  /\ UNCHANGED clientVars

\* writePump of a connection whose Send is closed: a close message, conn.Close().
CloseSocket(c) ==
  /\ peer[c] = "dropped"
  /\ peer' = [peer EXCEPT ![c] = "closed"]
  /\ UNCHANGED <<client, cut, current, faults>>

\* readPump fails, and its deferred Unregister drops whichever is current now.
LeaveHub(c) ==
  /\ peer[c] = "closed" \/ (peer[c] \in {"served", "dropped"} /\ c \in cut)
  /\ current' = NoChannel
  /\ peer' = [x \in Channels |-> IF x = c THEN "left"
                                 ELSE IF x = current THEN "dropped" ELSE peer[x]]
  /\ UNCHANGED <<client, cut, faults>>

\* `go h.Unregister(userID)` of a full channel.
DropCurrent ==
  /\ current # NoChannel
  /\ cuts < MaxCuts
  /\ cuts' = cuts + 1
  /\ current' = NoChannel
  /\ peer' = [peer EXCEPT ![current] = "dropped"]
  /\ UNCHANGED <<client, cut, failures, stopped, late>>

\* The network between the two ends is gone.
Cut(c) ==
  /\ c \in Undone \ cut
  /\ cuts < MaxCuts
  /\ cuts' = cuts + 1
  /\ cut' = cut \cup {c}
  /\ UNCHANGED <<client, server, failures, stopped, late>>

ClientNext ==
  \/ ReadThrows \/ Fire \/ Dispose \/ DropCurrent
  \/ \E c \in Channels :
       \/ OpenChannel(c) \/ Fail(c) \/ Opened(c) \/ Done(c)
       \/ Upgrade(c) \/ CloseSocket(c) \/ LeaveHub(c) \/ Cut(c)

ClientSpec == ClientInit /\ [][ClientNext]_clientVars

\* The storage answers, timers fire, handshakes are answered and a close reaches the
\* app while the network is there, and the server's goroutines run (a reader waits
\* pongWait at most).  Nothing makes the app notice that a channel is cut: it sends
\* no pings.
ClientFairSpec ==
  /\ ClientSpec
  /\ WF_clientVars(Fire)
  /\ WF_clientVars(\E c \in Channels : OpenChannel(c))
  /\ \A c \in Channels :
       /\ WF_clientVars(Upgrade(c) \/ Opened(c))
       /\ WF_clientVars(c \notin cut /\ Done(c))
       /\ WF_clientVars(CloseSocket(c) \/ LeaveHub(c))

----------------------------------------------------------------------------
(* Properties.                                                             *)

\* The notifier never gives up: while the page is shown, it is connected by a
\* channel whose end it will hear of, or something is under way that connects,
\* whatever fails in whatever order (but for a token read that throws).
KeepsTrying ==
  disposed \/ stopped \/ timers + reading > 0 \/ (isConnected /\ LastIsLive)

\* Attempts never multiply but by a failed handshake, which adds one: timers, token
\* reads and channels together are one more than the failures at most.
AttemptsAccounted == timers + reading + Cardinality(Undone) <= 1 + failures

\* Until a handshake fails, isConnected tells whether _channel is alive, so that
\* sendMessage neither writes to a dead channel nor refuses a live one.
FlagFitsChannel == ~disposed /\ failures = 0 => (isConnected <=> LastIsLive)

\* Unless a handshake fails, the app and the hub come to rest on one connection
\* that both have (or that is cut unnoticed), however the departures of earlier
\* connections hit later ones.
Settled == isConnected /\ LastIsLive /\ (last \in cut \/ current = last)
SettlesUnlessDoubled == <>(disposed \/ stopped \/ failures > 0) \/ <>[]Settled

\* A page that is left takes its connection off the hub for good, unless a connect()
\* was reading the token (its channel is opened and forgotten) or a failed handshake
\* has left a second channel behind _channel.
LeavesTheHub ==
  [](disposed => <>(late \/ failures > 0) \/ <>[](current = NoChannel))
=============================================================================
