-------------------------------- MODULE Hub --------------------------------
(***************************************************************************)
(* The websocket hub of the API server and the two goroutines that serve   *)
(* each connection (internal/websocket/hub.go, connection.go).             *)
(*                                                                         *)
(* The hub maps a USER to its one current client.  Register, Unregister    *)
(* and SendToUser hold the hub's mutex for their whole body, so each is    *)
(* one atomic operation here.  A connection c has a reader goroutine (the  *)
(* HTTP handler: ServeWS, then readPump), a writer goroutine (writePump),  *)
(* a buffered channel Send between the hub and the writer, and a socket.   *)
(* A message is only counted: its text never changes what the hub does.    *)
(***************************************************************************)
EXTENDS Naturals

CONSTANTS
  Users,     \* user ids
  Conns,     \* connections, each one *Client, each used once
  NoConn,    \* "no entry in the map"
  Owner,     \* the user id in the access token a connection was opened with
  Capacity,  \* make(chan []byte, 256): the buffer of Send
  MaxDrops   \* bound: `go h.Unregister` goroutines not yet run, per full client

ASSUME HubConstants ==
  /\ NoConn \notin Conns
  /\ Owner \in [Conns -> Users]
  /\ Capacity \in Nat \ {0}
  /\ MaxDrops \in Nat

VARIABLES
  clients,   \* Hub.clients: the client each user is mapped to
  chan,      \* Client.Send: not made yet, open or closed
  buffered,  \* messages waiting in Client.Send
  reader,    \* where the reader goroutine of a connection stands
  writer,    \* where the writer goroutine of a connection stands
  sock,      \* the connection's socket
  drops,     \* `go h.Unregister(userID)` goroutines not yet run, by the client
             \* whose full channel spawned them
  panicked   \* a close or a send hit a closed channel: the Go runtime panics

vars == <<clients, chan, buffered, reader, writer, sock, drops, panicked>>
goroutines == <<reader, writer, sock>>

ReaderStates == {"none", "upgraded", "reading", "leaving", "closing", "done"}
WriterStates == {"none", "running", "writing", "closing", "done"}
\* "gone": the peer left, or was silent for pongWait; "closed": conn.Close() ran
SockStates   == {"none", "up", "gone", "closed"}

TypeOK ==
  /\ clients  \in [Users -> Conns \cup {NoConn}]
  /\ chan     \in [Conns -> {"none", "open", "closed"}]
  /\ buffered \in [Conns -> 0..Capacity]
  /\ reader   \in [Conns -> ReaderStates]
  /\ writer   \in [Conns -> WriterStates]
  /\ sock     \in [Conns -> SockStates]
  /\ drops    \in [Conns -> 0..MaxDrops]
  /\ panicked \in BOOLEAN

Init ==
  /\ clients  = [u \in Users |-> NoConn]
  /\ chan     = [c \in Conns |-> "none"]
  /\ buffered = [c \in Conns |-> 0]
  /\ reader   = [c \in Conns |-> "none"]
  /\ writer   = [c \in Conns |-> "none"]
  /\ sock     = [c \in Conns |-> "none"]
  /\ drops    = [c \in Conns |-> 0]
  /\ panicked = FALSE

----------------------------------------------------------------------------
(* The hub's operations.                                                   *)

\* close(ch) of the client mapped to u, if there is one.
CloseSend(u) == [c \in Conns |-> IF c = clients[u] THEN "closed" ELSE chan[c]]

\* A close of, or a send on, a channel that is closed already.
HitsClosed(u) == clients[u] \in Conns /\ chan[clients[u]] = "closed"

\* Mutation: the previous client keeps an open channel that nothing closes.
HubRegister_KeepsOld(c) ==
  /\ clients'  = [clients EXCEPT ![Owner[c]] = c]
  /\ chan'     = [chan EXCEPT ![c] = "open"]
  /\ UNCHANGED panicked

\* func (h *Hub) Register: the previous client of the user loses its channel.
HubRegister(c) ==
  /\ clients'  = [clients EXCEPT ![Owner[c]] = c]
  /\ chan'     = [CloseSend(Owner[c]) EXCEPT ![c] = "open"]
  /\ panicked' = (panicked \/ HitsClosed(Owner[c]))

\* Mutation: the channel is closed and the entry stays.
HubUnregister_KeepsEntry(u) ==
  /\ chan'     = CloseSend(u)
  /\ panicked' = (panicked \/ HitsClosed(u))
  /\ UNCHANGED clients

\* func (h *Hub) Unregister: by user id, whichever client that is now.
HubUnregister(u) ==
  /\ clients'  = [clients EXCEPT ![u] = NoConn]
  /\ chan'     = CloseSend(u)
  /\ panicked' = (panicked \/ HitsClosed(u))

\* func (h *Hub) SendToUser: a non-blocking send to the mapped client; when its
\* buffer is full a goroutine is spawned to unregister the USER.
Buffer(u) ==
  /\ buffered[clients[u]] < Capacity
  /\ buffered' = [buffered EXCEPT ![clients[u]] = @ + 1]
  /\ UNCHANGED drops

SpawnDrop(u) ==
  /\ buffered[clients[u]] = Capacity
  /\ drops[clients[u]] < MaxDrops
  /\ drops' = [drops EXCEPT ![clients[u]] = @ + 1]
  /\ UNCHANGED buffered

NotConnected(u) ==
  /\ clients[u] = NoConn
  /\ UNCHANGED <<buffered, drops>>

HubSendToUser(u) ==
  /\ \/ clients[u] \in Conns /\ (Buffer(u) \/ SpawnDrop(u))
     \/ NotConnected(u)
  /\ panicked' = (panicked \/ HitsClosed(u))
  /\ UNCHANGED <<clients, chan>>

----------------------------------------------------------------------------
(* The reader goroutine: ServeWS and readPump.                             *)

\* The token parses and the upgrade succeeds (a refusal changes no state).
Connect(c) ==
  /\ reader[c] = "none"
  /\ reader' = [reader EXCEPT ![c] = "upgraded"]
  /\ sock'   = [sock EXCEPT ![c] = "up"]
  /\ UNCHANGED <<clients, chan, buffered, writer, drops, panicked>>

\* hub.Register(client); go writePump(client, conn); readPump(client, conn)
Register(c) ==
  /\ reader[c] = "upgraded"
  /\ HubRegister(c)
  /\ reader' = [reader EXCEPT ![c] = "reading"]
  /\ writer' = [writer EXCEPT ![c] = "running"]
  /\ UNCHANGED <<buffered, sock, drops>>

\* A message arrives and is echoed to the user's current client.
Echo(c) ==
  /\ reader[c] = "reading"
  /\ sock[c] = "up"
  /\ HubSendToUser(Owner[c])
  /\ UNCHANGED goroutines

\* ReadMessage fails on a dead or closed socket...
ReadFails(c) ==
  /\ reader[c] = "reading"
  /\ sock[c] \in {"gone", "closed"}
  /\ reader' = [reader EXCEPT ![c] = "leaving"]
  /\ UNCHANGED <<clients, chan, buffered, writer, sock, drops, panicked>>

\* ... or on a frame it rejects (beyond maxMessageSize, not well formed).
ReadRejects(c) ==
  /\ reader[c] = "reading"
  /\ sock[c] = "up"
  /\ reader' = [reader EXCEPT ![c] = "leaving"]
  /\ UNCHANGED <<clients, chan, buffered, writer, sock, drops, panicked>>

\* Mutation: readPump forgets to unregister.
Leave_Silent(c) ==
  /\ reader[c] = "leaving"
  /\ reader' = [reader EXCEPT ![c] = "closing"]
  /\ UNCHANGED <<clients, chan, buffered, writer, sock, drops, panicked>>

\* The deferred c.Hub.Unregister(c.UserID) ...
Leave(c) ==
  /\ reader[c] = "leaving"
  /\ HubUnregister(Owner[c])
  /\ reader' = [reader EXCEPT ![c] = "closing"]
  /\ UNCHANGED <<buffered, writer, sock, drops>>

\* ... and then conn.Close().
ReaderCloses(c) ==
  /\ reader[c] = "closing"
  /\ reader' = [reader EXCEPT ![c] = "done"]
  /\ sock'   = [sock EXCEPT ![c] = "closed"]
  /\ UNCHANGED <<clients, chan, buffered, writer, drops, panicked>>

----------------------------------------------------------------------------
(* The writer goroutine: writePump.                                        *)

TakeMessage(c) ==
  /\ writer[c] = "running"
  /\ buffered[c] > 0
  /\ buffered' = [buffered EXCEPT ![c] = @ - 1]
  /\ writer'   = [writer EXCEPT ![c] = "writing"]
  /\ UNCHANGED <<clients, chan, reader, sock, drops, panicked>>

\* A write ends, within writeWait, well or badly.  The network may still take
\* bytes for a peer that is gone, and may refuse them for one that looks up.
WriteEnds(c) ==
  /\ writer[c] = "writing"
  /\ \/ sock[c] \in {"up", "gone"} /\ writer' = [writer EXCEPT ![c] = "running"]
     \/ writer' = [writer EXCEPT ![c] = "closing"]
  /\ UNCHANGED <<clients, chan, buffered, reader, sock, drops, panicked>>

\* A receive reports ok = FALSE only once the closed channel is drained.
SeeClosed(c) ==
  /\ writer[c] = "running"
  /\ chan[c] = "closed"
  /\ buffered[c] = 0
  /\ writer' = [writer EXCEPT ![c] = "closing"]
  /\ UNCHANGED <<clients, chan, buffered, reader, sock, drops, panicked>>

\* A ping (one per pingPeriod) cannot be written; a ping that can be written
\* changes nothing.
PingFails(c) ==
  /\ writer[c] = "running"
  /\ sock[c] \in {"gone", "closed"}
  /\ writer' = [writer EXCEPT ![c] = "closing"]
  /\ UNCHANGED <<clients, chan, buffered, reader, sock, drops, panicked>>

\* Mutation: writePump returns without closing the socket.
WriterCloses_LeavesSocket(c) ==
  /\ writer[c] = "closing"
  /\ writer' = [writer EXCEPT ![c] = "done"]
  /\ UNCHANGED <<clients, chan, buffered, reader, sock, drops, panicked>>

\* The deferred conn.Close(): this is what makes the reader's next read fail.
WriterCloses(c) ==
  /\ writer[c] = "closing"
  /\ writer' = [writer EXCEPT ![c] = "done"]
  /\ sock'   = [sock EXCEPT ![c] = "closed"]
  /\ UNCHANGED <<clients, chan, buffered, reader, drops, panicked>>

----------------------------------------------------------------------------
(* The rest of the server, the goroutines of full channels, the network.   *)

\* A call or live-status handler signals a user (SendToUser from any goroutine).
Notify(u) ==
  /\ HubSendToUser(u)
  /\ UNCHANGED goroutines

\* `go h.Unregister(userID)` gets to run, whatever happened in between.
Drop(c) ==
  /\ drops[c] > 0
  /\ HubUnregister(Owner[c])
  /\ drops' = [drops EXCEPT ![c] = @ - 1]
  /\ UNCHANGED <<buffered, reader, writer, sock>>

\* The peer closes its end, or nothing was heard of it for pongWait.
PeerLost(c) ==
  /\ sock[c] = "up"
  /\ sock' = [sock EXCEPT ![c] = "gone"]
  /\ UNCHANGED <<clients, chan, buffered, reader, writer, drops, panicked>>

ReaderNext(c) ==
  \/ Register(c) \/ Echo(c) \/ ReadFails(c) \/ ReadRejects(c)
  \/ Leave(c) \/ ReaderCloses(c)

WriterNext(c) ==
  \/ TakeMessage(c) \/ WriteEnds(c) \/ SeeClosed(c) \/ PingFails(c)
  \/ WriterCloses(c)

Next ==
  \/ \E c \in Conns :
       Connect(c) \/ PeerLost(c) \/ ReaderNext(c) \/ WriterNext(c) \/ Drop(c)
  \/ \E u \in Users : Notify(u)

Spec == Init /\ [][Next]_vars

\* Runnable goroutines run: the handler up to its first read and after a failed
\* one, a writer with something to do (its writes have a deadline), and a spawned
\* Unregister.  Nothing makes peers connect, talk, fail, or handlers notify.
Fairness ==
  \A c \in Conns :
    /\ WF_vars(Register(c) \/ ReadFails(c) \/ Leave(c) \/ ReaderCloses(c))
    /\ WF_vars(WriterNext(c))
    /\ WF_vars(Drop(c))

FairSpec == Spec /\ Fairness

----------------------------------------------------------------------------
(* Properties.                                                             *)

\* The hub never closes a channel twice and never sends on a closed one: with
\* three kinds of goroutine closing (a newer Register, readPump's deferred
\* Unregister, the spawned Unregister of a full channel) the runtime never panics.
NoPanic == ~panicked

\* A client's channel is open exactly while the hub maps its user to it: the map
\* never holds a dead channel, and no client dropped from the map keeps an open
\* channel, on which its writer would wait for ever.
OpenIffMapped == \A c \in Conns : chan[c] = "open" <=> clients[Owner[c]] = c

\* Whatever the map holds still has a reader that will run Unregister: no entry
\* outlives its connection, however departures, reconnects and drops interleave.
MappedIsServed ==
  \A u \in Users : clients[u] # NoConn =>
    /\ Owner[clients[u]] = u
    /\ reader[clients[u]] \in {"reading", "leaving"}

\* A closed channel never reopens and is only drained: what the hub accepts for a
\* user after a reconnect never lands in the channel of the old connection.
ClosedOnlyDrains ==
  [][\A c \in Conns : chan[c] = "closed" =>
       chan'[c] = "closed" /\ buffered'[c] <= buffered[c]]_vars

\* Both goroutines of a connection that was superseded, dropped, or lost its peer
\* end: the writer drains the closed channel and closes the socket, the reader
\* then fails and leaves (no leaked goroutine, whichever side noticed first).
ConnectionsEnd ==
  \A c \in Conns :
    (chan[c] = "closed" \/ sock[c] \in {"gone", "closed"})
      ~> (reader[c] = "done" /\ writer[c] = "done")

\* All its locks, channels and goroutines amount to one current connection per
\* user, each current once, and signals that go there or are lost.
Session == INSTANCE Sessions WITH
  current <- clients, ended <- {c \in Conns : chan[c] = "closed"}, queue <- buffered
SignalsTheCurrent == Session!Spec
=============================================================================
