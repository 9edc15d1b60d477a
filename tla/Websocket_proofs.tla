-------------------------- MODULE Websocket_proofs --------------------------
(***************************************************************************)
(* Both ends of the websocket.  The server's (Hub): its safety, for every  *)
(* set of users and connections, every assignment of users to connections  *)
(* and every channel capacity, and that it implements Sessions.  The app's *)
(* (WsClient): what the chat page's notifier keeps, for any channels and   *)
(* any number of failures, cuts and drops.                                 *)
(***************************************************************************)
EXTENDS Hub, WsClient, FiniteSetTheorems, TLAPS

\* A connection that has not been registered yet has no channel: ServeWS makes
\* the client and registers it in one go.
ChanMadeOnRegister ==
  \A c \in Conns : reader[c] \in {"none", "upgraded"} => chan[c] = "none"

\* The inductive invariant.  NoPanic alone is not inductive: it needs to know that
\* mapped channels are open, which needs every entry to sit under its own user.
HubInv == TypeOK /\ NoPanic /\ OpenIffMapped /\ MappedIsServed /\ ChanMadeOnRegister

LEMMA InitSafe == Init => HubInv
<1> SUFFICES ASSUME Init PROVE HubInv
  OBVIOUS
<1> USE HubConstants DEF HubConstants, Init
<1>1. TypeOK
  <2>1. buffered \in [Conns -> 0..Capacity] /\ drops \in [Conns -> 0..MaxDrops]
    OBVIOUS
  <2>2. /\ reader \in [Conns -> ReaderStates]
        /\ writer \in [Conns -> WriterStates]
        /\ sock \in [Conns -> SockStates]
    BY DEF ReaderStates, WriterStates, SockStates
  <2>3. panicked \in BOOLEAN
    OBVIOUS
  <2> QED BY <2>1, <2>2, <2>3 DEF TypeOK
<1>2. NoPanic /\ OpenIffMapped
  <2>1. NoPanic
    BY DEF NoPanic
  <2>2. OpenIffMapped
    BY DEF OpenIffMapped
  <2> QED BY <2>1, <2>2
<1>3. MappedIsServed /\ ChanMadeOnRegister
  BY DEF MappedIsServed, ChanMadeOnRegister
<1> QED BY <1>1, <1>2, <1>3 DEF HubInv

\* What HubUnregister does to the map and the channels, whoever calls it.
LEMMA UnregisterSafe ==
  ASSUME HubInv, NEW u \in Users, HubUnregister(u)
  PROVE  /\ clients' \in [Users -> Conns \cup {NoConn}]
         /\ chan' \in [Conns -> {"none", "open", "closed"}]
         /\ panicked' \in BOOLEAN
         /\ clients'[u] = NoConn
         /\ \A v \in Users : clients'[v] \in {clients[v], NoConn}
         /\ \A c \in Conns : chan'[c] = chan[c] \/ (chan[c] = "open" /\ chan'[c] = "closed")
         /\ NoPanic'
         /\ OpenIffMapped'
<1> USE HubConstants DEF HubConstants, HubInv, TypeOK, HubUnregister, CloseSend, HitsClosed
<1>1. \A v \in Users : clients[v] \in Conns => chan[clients[v]] = "open" /\ Owner[clients[v]] = v
  BY DEF OpenIffMapped, MappedIsServed
<1>2. /\ clients' \in [Users -> Conns \cup {NoConn}]
      /\ chan' \in [Conns -> {"none", "open", "closed"}]
      /\ panicked' \in BOOLEAN
      /\ clients'[u] = NoConn
      /\ \A v \in Users : clients'[v] \in {clients[v], NoConn}
  OBVIOUS
<1>3. \A c \in Conns : chan'[c] = chan[c] \/ (chan[c] = "open" /\ chan'[c] = "closed")
  BY <1>1
<1>4. NoPanic'
  BY <1>1 DEF NoPanic
<1>5. OpenIffMapped'
  BY <1>1 DEF OpenIffMapped
<1> QED BY <1>2, <1>3, <1>4, <1>5

\* What HubSendToUser does: one more message in an open channel, or a spawned drop.
LEMMA SendSafe ==
  ASSUME HubInv, NEW u \in Users, HubSendToUser(u)
  PROVE  /\ buffered' \in [Conns -> 0..Capacity]
         /\ drops' \in [Conns -> 0..MaxDrops]
         /\ panicked' \in BOOLEAN
         /\ UNCHANGED <<clients, chan>>
         /\ \A c \in Conns : chan[c] = "closed" => buffered'[c] = buffered[c]
         /\ NoPanic'
<1> USE HubConstants DEF HubConstants, HubInv, TypeOK, HubSendToUser, Buffer, SpawnDrop, NotConnected, HitsClosed
<1>1. clients[u] \in Conns => chan[clients[u]] = "open"
  BY DEF OpenIffMapped, MappedIsServed
<1>2. NoPanic'
  BY <1>1 DEF NoPanic
<1>3. /\ buffered' \in [Conns -> 0..Capacity]
      /\ drops' \in [Conns -> 0..MaxDrops]
      /\ panicked' \in BOOLEAN
  OBVIOUS
<1>4. \A c \in Conns : chan[c] = "closed" => buffered'[c] = buffered[c]
  BY <1>1
<1> QED BY <1>2, <1>3, <1>4

\* A step that touches neither the hub nor its panics, and moves readers only
\* between states that keep an entry served and an unregistered client new.
LEMMA GoroutineStep ==
  ASSUME HubInv, TypeOK', UNCHANGED <<clients, chan, panicked>>,
         \A d \in Conns :
           /\ reader[d] \in {"reading", "leaving"} /\ clients[Owner[d]] = d
                => reader'[d] \in {"reading", "leaving"}
           /\ reader'[d] \in {"none", "upgraded"} => reader[d] \in {"none", "upgraded"}
  PROVE  HubInv'
<1> USE HubConstants DEF HubConstants, HubInv
<1>1. NoPanic' /\ OpenIffMapped'
  BY DEF NoPanic, OpenIffMapped
<1>2. MappedIsServed'
  BY DEF MappedIsServed, TypeOK
<1>3. ChanMadeOnRegister'
  BY DEF ChanMadeOnRegister
<1> QED BY <1>1, <1>2, <1>3

\* Register supersedes the user's previous client.
LEMMA RegisterSafe ==
  ASSUME HubInv, NEW c \in Conns, Register(c)
  PROVE  HubInv'
<1> USE HubConstants DEF HubConstants, HubInv, TypeOK, Register, HubRegister, CloseSend, HitsClosed,
        ReaderStates, WriterStates, SockStates
<1>1. \A v \in Users : clients[v] \in Conns => chan[clients[v]] = "open" /\ Owner[clients[v]] = v
  BY DEF OpenIffMapped, MappedIsServed
<1>2. Owner[c] \in Users /\ chan[c] = "none" /\ clients[Owner[c]] # c
  BY <1>1 DEF ChanMadeOnRegister
<1>3. TypeOK'
  BY <1>2
<1>4. NoPanic'
  BY <1>1, <1>2 DEF NoPanic
<1>5. OpenIffMapped'
  BY <1>1, <1>2 DEF OpenIffMapped
<1>6. MappedIsServed'
  BY <1>1, <1>2 DEF MappedIsServed
<1>7. ChanMadeOnRegister'
  BY <1>1, <1>2 DEF ChanMadeOnRegister
<1> QED BY <1>3, <1>4, <1>5, <1>6, <1>7

LEMMA LeaveSafe ==
  ASSUME HubInv, NEW c \in Conns, Leave(c)
  PROVE  HubInv'
<1> USE HubConstants DEF HubConstants, Leave
<1>1. Owner[c] \in Users /\ HubUnregister(Owner[c])
  OBVIOUS
<1>2. TypeOK'
  BY <1>1, UnregisterSafe DEF TypeOK, HubInv, ReaderStates
<1>3. NoPanic' /\ OpenIffMapped'
  BY <1>1, UnregisterSafe
<1>4. MappedIsServed'
  BY <1>1, UnregisterSafe DEF HubInv, TypeOK, MappedIsServed
<1>5. ChanMadeOnRegister'
  BY <1>1, UnregisterSafe DEF HubInv, TypeOK, ChanMadeOnRegister
<1> QED BY <1>2, <1>3, <1>4, <1>5 DEF HubInv

LEMMA DropSafe ==
  ASSUME HubInv, NEW c \in Conns, Drop(c)
  PROVE  HubInv'
<1> USE HubConstants DEF HubConstants, Drop
<1>1. Owner[c] \in Users /\ HubUnregister(Owner[c])
  OBVIOUS
<1>2. TypeOK'
  BY <1>1, UnregisterSafe DEF TypeOK, HubInv
<1>3. NoPanic' /\ OpenIffMapped'
  BY <1>1, UnregisterSafe
<1>4. MappedIsServed'
  BY <1>1, UnregisterSafe DEF HubInv, TypeOK, MappedIsServed
<1>5. ChanMadeOnRegister'
  BY <1>1, UnregisterSafe DEF HubInv, TypeOK, ChanMadeOnRegister
<1> QED BY <1>2, <1>3, <1>4, <1>5 DEF HubInv

\* A message to a user's current client, from an echo or from a handler.
LEMMA SignalSafe ==
  ASSUME HubInv, NEW u \in Users, HubSendToUser(u), UNCHANGED goroutines
  PROVE  HubInv'
<1>1. TypeOK'
  BY SendSafe DEF HubInv, TypeOK, goroutines
<1>2. NoPanic' /\ OpenIffMapped'
  BY SendSafe DEF HubInv, OpenIffMapped
<1>3. MappedIsServed' /\ ChanMadeOnRegister'
  BY SendSafe DEF HubInv, MappedIsServed, ChanMadeOnRegister, goroutines
<1> QED BY <1>1, <1>2, <1>3 DEF HubInv

LEMMA StepSafe == HubInv /\ [Next]_vars => HubInv'
<1> SUFFICES ASSUME HubInv, [Next]_vars PROVE HubInv'
  OBVIOUS
<1> USE HubConstants DEF HubConstants
<1>1. CASE UNCHANGED vars
  BY <1>1, GoroutineStep DEF vars, HubInv, TypeOK
<1>2. ASSUME NEW u \in Users, Notify(u) PROVE HubInv'
  BY <1>2, SignalSafe DEF Notify
<1>3. ASSUME NEW c \in Conns, ReaderNext(c) PROVE HubInv'
  <2>1. CASE Register(c) BY <2>1, RegisterSafe
  <2>2. CASE Echo(c)     BY <2>2, SignalSafe DEF Echo
  <2>3. CASE Leave(c)    BY <2>3, LeaveSafe
  <2>4. CASE ReadFails(c) \/ ReadRejects(c)
    <3>1. TypeOK'
      BY <2>4 DEF HubInv, TypeOK, ReadFails, ReadRejects, ReaderStates
    <3> QED BY <2>4, <3>1, GoroutineStep DEF HubInv, TypeOK, ReadFails, ReadRejects
  <2>5. CASE ReaderCloses(c)
    <3>1. TypeOK'
      BY <2>5 DEF HubInv, TypeOK, ReaderCloses, ReaderStates, SockStates
    <3> QED BY <2>5, <3>1, GoroutineStep DEF HubInv, TypeOK, ReaderCloses
  <2> QED BY <1>3, <2>1, <2>2, <2>3, <2>4, <2>5 DEF ReaderNext
<1>4. ASSUME NEW c \in Conns, WriterNext(c) PROVE HubInv'
  <2> USE <1>4 DEF WriterNext, TakeMessage, WriteEnds, SeeClosed, PingFails, WriterCloses
  <2>1. TypeOK'
    BY DEF HubInv, TypeOK, WriterStates, SockStates
  <2>2. UNCHANGED <<clients, chan, panicked, reader>>
    OBVIOUS
  <2> QED BY <2>1, <2>2, GoroutineStep
<1>5. ASSUME NEW c \in Conns, Connect(c) \/ PeerLost(c) PROVE HubInv'
  <2>1. TypeOK'
    BY <1>5 DEF HubInv, TypeOK, Connect, PeerLost, ReaderStates, SockStates
  <2> QED BY <1>5, <2>1, GoroutineStep DEF HubInv, TypeOK, Connect, PeerLost
<1> QED BY <1>1, <1>2, <1>3, <1>4, <1>5, DropSafe DEF Next

LEMMA HubStaysSafe == Spec => []HubInv
  BY InitSafe, StepSafe, PTL DEF Spec

\* The hub's state is what its code declares.
THEOREM HubTypes == Spec => []TypeOK
  BY HubStaysSafe, PTL DEF HubInv

\* The hub never closes, and never sends on, a closed channel.
THEOREM HubNeverPanics == Spec => []NoPanic
  BY HubStaysSafe, PTL DEF HubInv

\* A channel is open exactly while the map holds its client.
THEOREM MapHoldsOpenChannels == Spec => []OpenIffMapped
  BY HubStaysSafe, PTL DEF HubInv

\* Every entry of the map has a reader that will remove it.
THEOREM EntriesAreServed == Spec => []MappedIsServed
  BY HubStaysSafe, PTL DEF HubInv

\* A channel the hub has closed stays closed and is only drained, in every step.
THEOREM ClosedChannelsDrain == Spec => ClosedOnlyDrains
<1> DEFINE Drains == \A c \in Conns : chan[c] = "closed" =>
                       chan'[c] = "closed" /\ buffered'[c] <= buffered[c]
<1>1. HubInv /\ [Next]_vars => Drains
  <2> SUFFICES ASSUME HubInv, [Next]_vars PROVE Drains
    OBVIOUS
  <2> USE HubConstants DEF HubConstants
  <2>0. \A c \in Conns : buffered[c] <= buffered[c]
    BY DEF HubInv, TypeOK
  <2>1. CASE UNCHANGED vars
    BY <2>0, <2>1 DEF vars
  <2>2. ASSUME NEW u \in Users, Notify(u) PROVE Drains
    BY <2>0, <2>2, SendSafe DEF Notify
  <2>3. ASSUME NEW d \in Conns, Echo(d) PROVE Drains
    BY <2>0, <2>3, SendSafe DEF Echo
  <2>4. ASSUME NEW d \in Conns, Leave(d) \/ Drop(d) PROVE Drains
    BY <2>0, <2>4, UnregisterSafe DEF Leave, Drop
  <2>5. ASSUME NEW d \in Conns, Register(d) PROVE Drains
    BY <2>0, <2>5 DEF Register, HubRegister, CloseSend, HubInv, TypeOK, ChanMadeOnRegister
  <2>6. ASSUME NEW d \in Conns, TakeMessage(d) PROVE Drains
    BY <2>6 DEF TakeMessage, HubInv, TypeOK
  <2>7. CASE UNCHANGED <<chan, buffered>>
    BY <2>0, <2>7
  <2> QED BY <2>1, <2>2, <2>3, <2>4, <2>5, <2>6, <2>7
          DEF Next, ReaderNext, WriterNext, Connect, PeerLost, ReadFails, ReadRejects,
              ReaderCloses, WriteEnds, SeeClosed, PingFails, WriterCloses
<1> QED BY <1>1, InitSafe, StepSafe, PTL DEF Spec, ClosedOnlyDrains

----------------------------------------------------------------------------
(* The hub implements Sessions.                                            *)

LEMMA UnregisterEnds ==
  ASSUME HubInv, NEW u \in Users, HubUnregister(u), UNCHANGED buffered
  PROVE  [Session!Next]_(Session!vars)
<1> USE HubConstants DEF HubConstants, HubInv, TypeOK, HubUnregister, CloseSend, Session!vars
<1>1. CASE clients[u] = NoConn
  <2>1. clients' = clients /\ chan' = chan
    BY <1>1
  <2> QED BY <2>1
<1>2. CASE clients[u] # NoConn
  <2>1. {c \in Conns : chan'[c] = "closed"} = {c \in Conns : chan[c] = "closed"} \cup {clients[u]}
    BY <1>2
  <2>2. Session!End(u)
    BY <1>2, <2>1 DEF Session!End
  <2> QED BY <2>2 DEF Session!Next
<1> QED BY <1>1, <1>2

LEMMA SendSignals ==
  ASSUME HubInv, NEW u \in Users, HubSendToUser(u)
  PROVE  [Session!Next]_(Session!vars)
<1> USE HubConstants DEF HubConstants, HubInv, TypeOK, HubSendToUser, Session!vars
<1>1. CASE clients[u] \in Conns /\ Buffer(u)
  BY <1>1 DEF Buffer, Session!Signal, Session!Next
<1>2. CASE UNCHANGED buffered
  BY <1>2
<1> QED BY <1>1, <1>2 DEF SpawnDrop, NotConnected

LEMMA RegisterOpens ==
  ASSUME HubInv, NEW c \in Conns, Register(c)
  PROVE  [Session!Next]_(Session!vars)
<1> USE HubConstants DEF HubConstants, HubInv, TypeOK, Register, HubRegister, CloseSend
<1>1. Owner[c] \in Users /\ chan[c] = "none" /\ clients[Owner[c]] # c
  BY DEF ChanMadeOnRegister, OpenIffMapped
<1>2. {d \in Conns : chan'[d] = "closed"}
        = {d \in Conns : chan[d] = "closed"} \cup ({clients[Owner[c]]} \ {NoConn})
  BY <1>1
<1>3. Session!Open(c)
  BY <1>1, <1>2 DEF Session!Open
<1> QED BY <1>3 DEF Session!Next

\* A user has one current connection, current once, to which signals go or are
\* lost: no step of the mutex, the channels or the goroutines shows otherwise.
THEOREM HubImplementsSessions == Spec => SignalsTheCurrent
<1>1. Init => Session!Init
  BY DEF Init, Session!Init
<1>2. HubInv /\ [Next]_vars => [Session!Next]_(Session!vars)
  <2> SUFFICES ASSUME HubInv, [Next]_vars PROVE [Session!Next]_(Session!vars)
    OBVIOUS
  <2> USE HubConstants DEF HubConstants
  <2>1. CASE UNCHANGED vars
    BY <2>1 DEF vars, Session!vars
  <2>2. ASSUME NEW u \in Users, Notify(u) PROVE [Session!Next]_(Session!vars)
    BY <2>2, SendSignals DEF Notify
  <2>3. ASSUME NEW c \in Conns, Echo(c) PROVE [Session!Next]_(Session!vars)
    BY <2>3, SendSignals DEF Echo
  <2>4. ASSUME NEW c \in Conns, Leave(c) \/ Drop(c) PROVE [Session!Next]_(Session!vars)
    BY <2>4, UnregisterEnds DEF Leave, Drop
  <2>5. ASSUME NEW c \in Conns, Register(c) PROVE [Session!Next]_(Session!vars)
    BY <2>5, RegisterOpens
  <2>6. ASSUME NEW c \in Conns, TakeMessage(c) PROVE [Session!Next]_(Session!vars)
    BY <2>6 DEF TakeMessage, Session!Write, Session!Next, HubInv, TypeOK
  <2>7. CASE UNCHANGED <<clients, chan, buffered>>
    BY <2>7 DEF Session!vars
  <2> QED BY <2>1, <2>2, <2>3, <2>4, <2>5, <2>6, <2>7
          DEF Next, ReaderNext, WriterNext, Connect, PeerLost, ReadFails, ReadRejects,
              ReaderCloses, WriteEnds, SeeClosed, PingFails, WriterCloses
<1> QED BY <1>1, <1>2, HubStaysSafe, PTL DEF Spec, SignalsTheCurrent, Session!Spec

----------------------------------------------------------------------------
(* The chat page's notifier.                                               *)

\* What isConnected is worth, whatever failed.
LiveWhenConnected == ~disposed /\ isConnected => LastIsLive

NotifierInv ==
  ClientTypeOK /\ AttemptsAccounted /\ LiveWhenConnected /\ KeepsTrying /\ FlagFitsChannel

\* The channels that are not done can be counted, and so can they after a step.
LEMMA UndoneIsFinite ==
  /\ IsFiniteSet(Undone) /\ Cardinality(Undone) \in Nat
  /\ IsFiniteSet(Undone') /\ Cardinality(Undone') \in Nat
<1>1. Undone \subseteq Channels /\ Undone' \subseteq Channels
  BY DEF Undone
<1>2. IsFiniteSet(Undone) /\ IsFiniteSet(Undone')
  BY <1>1, FS_Subset, WsClientConstants DEF WsClientConstants
<1> QED BY <1>2, FS_CardinalityType

\* Cardinality of the channels that are not done, before and after one is done.
LEMMA OneLess ==
  ASSUME NEW c \in Undone
  PROVE  /\ Cardinality(Undone \ {c}) = Cardinality(Undone) - 1
         /\ Cardinality(Undone) = 1 => Undone = {c}
<1>1. Cardinality(Undone \ {c}) = Cardinality(Undone) - 1 /\ IsFiniteSet(Undone \ {c})
  BY UndoneIsFinite, FS_RemoveElement
<1>2. Cardinality(Undone) = 1 => Undone \ {c} = {}
  BY <1>1, FS_EmptySet
<1> QED BY <1>1, <1>2

\* A step that touches neither the channels nor the attempts of the app keeps all.
LEMMA SameClient ==
  ASSUME NotifierInv, ClientTypeOK', UNCHANGED <<disposed, isConnected, last, timers, reading>>,
         UNCHANGED <<failures, stopped>>, Undone' = Undone
  PROVE  NotifierInv'
  BY DEF NotifierInv, AttemptsAccounted, LiveWhenConnected, KeepsTrying, FlagFitsChannel,
         LastIsLive

\* The initial connect() is the one attempt under way.
LEMMA InitNotifier == ClientInit => NotifierInv
<1> SUFFICES ASSUME ClientInit PROVE NotifierInv
  OBVIOUS
<1>1. ClientTypeOK
  <2>1. 0 \in 0..MaxFailures /\ 0 \in 0..MaxCuts /\ {0, 1} \subseteq 0..(1 + MaxFailures)
    BY WsClientConstants DEF WsClientConstants
  <2>2. /\ side \in [Channels -> {"none", "opening", "open"}]
        /\ peer \in [Channels -> {"none", "served", "dropped", "closed", "left"}]
    BY DEF ClientInit
  <2> QED BY <2>1, <2>2 DEF ClientInit, ClientTypeOK
<1>2. Undone = {}
  BY DEF ClientInit, Undone
<1>3. Cardinality(Undone) = 0
  BY <1>2, FS_EmptySet
<1>4. AttemptsAccounted
  BY <1>3 DEF ClientInit, AttemptsAccounted
<1>5. LiveWhenConnected /\ KeepsTrying
  BY DEF ClientInit, LiveWhenConnected, KeepsTrying
<1>6. FlagFitsChannel
  BY <1>2 DEF ClientInit, FlagFitsChannel, LastIsLive
<1> QED BY <1>1, <1>4, <1>5, <1>6 DEF NotifierInv

\* The attempts bound each of the app's counters, so these keep their types.
LEMMA CountersTyped ==
  ASSUME AttemptsAccounted', timers' \in Nat, reading' \in Nat,
         failures' \in 0..MaxFailures
  PROVE  timers' \in 0..(1 + MaxFailures) /\ reading' \in 0..(1 + MaxFailures)
<1>1. Cardinality(Undone') \in Nat /\ MaxFailures \in Nat
  BY UndoneIsFinite, WsClientConstants DEF WsClientConstants
<1>2. timers' + reading' + Cardinality(Undone') <= 1 + failures'
  BY DEF AttemptsAccounted
<1> QED BY <1>1, <1>2

\* A token becomes a channel: one attempt as before.
LEMMA ConnectKeeps ==
  ASSUME NotifierInv, NEW c \in Channels, OpenChannel(c)
  PROVE  NotifierInv'
<1> USE DEF NotifierInv
<1>1. Undone' = Undone \cup {c} /\ c \notin Undone
  BY DEF OpenChannel, Free, Undone, ClientTypeOK
<1>2. Cardinality(Undone') = Cardinality(Undone) + 1
  BY <1>1, UndoneIsFinite, FS_AddElement
<1>3. LastIsLive'
  BY <1>1 DEF OpenChannel, LastIsLive
<1>4. timers \in Nat /\ reading \in Nat /\ failures \in Nat
  BY WsClientConstants DEF WsClientConstants, ClientTypeOK
<1>5. AttemptsAccounted'
  BY <1>2, <1>4, UndoneIsFinite DEF OpenChannel, AttemptsAccounted
<1>6. LiveWhenConnected' /\ KeepsTrying' /\ FlagFitsChannel'
  BY <1>3 DEF OpenChannel, LiveWhenConnected, KeepsTrying, FlagFitsChannel, ClientTypeOK
<1>7. ClientTypeOK'
  <2>1. timers' \in 0..(1 + MaxFailures) /\ reading' \in 0..(1 + MaxFailures)
    BY <1>4, <1>5, CountersTyped DEF OpenChannel, ClientTypeOK
  <2> QED BY <2>1 DEF OpenChannel, ClientTypeOK
<1> QED BY <1>5, <1>6, <1>7

\* A channel is done and n attempts take its place, n - 1 of them for a failure.
LEMMA EndKeeps ==
  ASSUME NotifierInv, NEW c \in Undone, NEW n \in {1, 2}, Reported(n), ClientTypeOK
         /\ side' = [side EXCEPT ![c] = "none"]
         /\ failures' = failures + (n - 1) /\ failures' \in 0..MaxFailures
         /\ UNCHANGED <<disposed, last, reading, cut, server, cuts, stopped, late>>
  PROVE  NotifierInv'
<1> USE DEF NotifierInv
<1>1. Undone' = Undone \ {c}
  BY DEF Undone, ClientTypeOK
<1>2. Cardinality(Undone') = Cardinality(Undone) - 1
  BY <1>1, OneLess
<1>3. timers \in Nat /\ reading \in Nat /\ failures \in Nat
  BY WsClientConstants DEF WsClientConstants, ClientTypeOK
<1>4. timers' \in Nat /\ timers' <= timers + n
  BY <1>3 DEF Reported
<1>5. AttemptsAccounted'
  BY <1>2, <1>3, <1>4, UndoneIsFinite DEF AttemptsAccounted
<1>6. LiveWhenConnected' /\ KeepsTrying'
  BY <1>3 DEF Reported, LiveWhenConnected, KeepsTrying
<1>7. FlagFitsChannel'
  <2> SUFFICES ASSUME ~disposed, failures' = 0 PROVE ~isConnected' /\ ~LastIsLive'
    BY DEF FlagFitsChannel, Reported
  <2>1. Cardinality(Undone) <= 1
    BY <1>3, UndoneIsFinite DEF AttemptsAccounted
  <2>2. Cardinality(Undone) = 1
    BY <2>1, <1>2, UndoneIsFinite
  <2>3. Undone' = {}
    BY <2>2, <1>1, OneLess
  <2> QED BY <2>3 DEF Reported, LastIsLive
<1>8. ClientTypeOK'
  <2>1. timers' \in 0..(1 + MaxFailures)
    BY <1>3, <1>4, <1>5, CountersTyped
  <2>2. isConnected' \in BOOLEAN
    BY DEF Reported, ClientTypeOK
  <2> QED BY <2>1, <2>2 DEF ClientTypeOK, server, Undone
<1> QED BY <1>5, <1>6, <1>7, <1>8

\* A timer becomes a token read, or nothing when the flag already says connected.
LEMMA FireKeeps ==
  ASSUME NotifierInv, Fire
  PROVE  NotifierInv'
<1> USE DEF NotifierInv
<1>1. Undone' = Undone /\ LastIsLive' = LastIsLive
  BY DEF Fire, Undone, LastIsLive
<1>2. timers \in Nat /\ reading \in Nat /\ failures \in Nat
  BY WsClientConstants DEF WsClientConstants, ClientTypeOK
<1>3. timers' \in Nat /\ reading' \in Nat /\ timers' + reading' <= timers + reading
  BY <1>2 DEF Fire
<1>4. AttemptsAccounted'
  BY <1>1, <1>2, <1>3, UndoneIsFinite DEF Fire, faults, AttemptsAccounted
<1>5. LiveWhenConnected' /\ FlagFitsChannel'
  BY <1>1 DEF Fire, faults, LiveWhenConnected, FlagFitsChannel
<1>6. KeepsTrying'
  <2>1. CASE disposed \/ isConnected
    BY <2>1, <1>1 DEF Fire, KeepsTrying, LiveWhenConnected
  <2>2. CASE ~(disposed \/ isConnected)
    BY <2>2, <1>2, <1>3 DEF Fire, KeepsTrying
  <2> QED BY <2>1, <2>2
<1>7. ClientTypeOK'
  <2>1. timers' \in 0..(1 + MaxFailures) /\ reading' \in 0..(1 + MaxFailures)
    BY <1>3, <1>4, CountersTyped DEF Fire, faults, ClientTypeOK
  <2> QED BY <2>1 DEF Fire, ClientTypeOK, server, faults
<1> QED BY <1>4, <1>5, <1>6, <1>7

\* A token read that throws ends its attempt.
LEMMA ThrowKeeps ==
  ASSUME NotifierInv, ReadThrows
  PROVE  NotifierInv'
<1> USE DEF NotifierInv
<1>1. Undone' = Undone /\ LastIsLive' = LastIsLive
  BY DEF ReadThrows, Undone, LastIsLive
<1>2. timers \in Nat /\ reading \in Nat /\ failures \in Nat
  BY WsClientConstants DEF WsClientConstants, ClientTypeOK
<1>3. AttemptsAccounted'
  BY <1>1, <1>2, UndoneIsFinite DEF ReadThrows, AttemptsAccounted
<1>4. LiveWhenConnected' /\ FlagFitsChannel' /\ KeepsTrying'
  BY <1>1 DEF ReadThrows, LiveWhenConnected, FlagFitsChannel, KeepsTrying
<1>5. ClientTypeOK'
  <2>1. reading' \in 0..(1 + MaxFailures)
    BY <1>2, WsClientConstants DEF WsClientConstants, ReadThrows, ClientTypeOK
  <2> QED BY <2>1 DEF ReadThrows, ClientTypeOK, server
<1> QED BY <1>3, <1>4, <1>5

\* Once the page is left, only the types and the count of attempts are claimed.
LEMMA DisposeKeeps ==
  ASSUME NotifierInv, Dispose
  PROVE  NotifierInv'
<1>1. Undone' = Undone
  BY DEF Dispose, Undone
<1>2. AttemptsAccounted'
  BY <1>1 DEF NotifierInv, Dispose, faults, AttemptsAccounted
<1>3. LiveWhenConnected' /\ KeepsTrying' /\ FlagFitsChannel'
  BY DEF Dispose, LiveWhenConnected, KeepsTrying, FlagFitsChannel
<1>4. ClientTypeOK'
  BY DEF NotifierInv, Dispose, ClientTypeOK, server, faults, Undone
<1> QED BY <1>2, <1>3, <1>4 DEF NotifierInv

\* The answer to a handshake, the server and the network leave the attempts alone.
LEMMA OthersKeep ==
  ASSUME NotifierInv,
         DropCurrent \/ \E c \in Channels :
                   Opened(c) \/ Upgrade(c) \/ CloseSocket(c) \/ LeaveHub(c) \/ Cut(c)
  PROVE  NotifierInv'
<1> USE DEF NotifierInv
<1>1. CASE DropCurrent
  <2>1. ClientTypeOK' /\ Undone' = Undone
    BY <1>1, WsClientConstants DEF WsClientConstants, DropCurrent, ClientTypeOK, client, Undone
  <2> QED BY <1>1, <2>1, SameClient DEF DropCurrent, client
<1>2. ASSUME NEW c \in Channels, Opened(c) PROVE NotifierInv'
  <2>1. ClientTypeOK' /\ Undone' = Undone
    BY <1>2 DEF Opened, ClientTypeOK, server, faults, Undone
  <2> QED BY <1>2, <2>1, SameClient DEF Opened, faults
<1>3. ASSUME NEW c \in Channels, Upgrade(c) PROVE NotifierInv'
  <2>1. ClientTypeOK' /\ Undone' = Undone
    BY <1>3 DEF Upgrade, ClientTypeOK, client, faults, Undone
  <2> QED BY <1>3, <2>1, SameClient DEF Upgrade, client, faults
<1>4. ASSUME NEW c \in Channels, CloseSocket(c) PROVE NotifierInv'
  <2>1. ClientTypeOK' /\ Undone' = Undone
    BY <1>4 DEF CloseSocket, ClientTypeOK, client, faults, Undone
  <2> QED BY <1>4, <2>1, SameClient DEF CloseSocket, client, faults
<1>5. ASSUME NEW c \in Channels, LeaveHub(c) PROVE NotifierInv'
  <2>1. ClientTypeOK' /\ Undone' = Undone
    BY <1>5 DEF LeaveHub, ClientTypeOK, client, faults, Undone
  <2> QED BY <1>5, <2>1, SameClient DEF LeaveHub, client, faults
<1>6. ASSUME NEW c \in Channels, Cut(c) PROVE NotifierInv'
  <2>1. ClientTypeOK' /\ Undone' = Undone
    BY <1>6, WsClientConstants DEF WsClientConstants, Cut, ClientTypeOK, client, server, Undone
  <2> QED BY <1>6, <2>1, SameClient DEF Cut, client
<1> QED BY <1>1, <1>2, <1>3, <1>4, <1>5, <1>6

LEMMA NextNotifier == NotifierInv /\ [ClientNext]_clientVars => NotifierInv'
<1> SUFFICES ASSUME NotifierInv, [ClientNext]_clientVars PROVE NotifierInv'
  OBVIOUS
<1>1. CASE ReadThrows
  BY <1>1, ThrowKeeps
<1>2. CASE Fire
  BY <1>2, FireKeeps
<1>3. CASE Dispose
  BY <1>3, DisposeKeeps
<1>4. ASSUME NEW c \in Channels, OpenChannel(c) PROVE NotifierInv'
  BY <1>4, ConnectKeeps
<1>5. ASSUME NEW c \in Channels, Fail(c) PROVE NotifierInv'
  <2>1. c \in Undone /\ ClientTypeOK
    BY <1>5 DEF Fail, Undone, NotifierInv
  <2>2. failures' = failures + (2 - 1) /\ failures' \in 0..MaxFailures
    BY <1>5, <2>1, WsClientConstants DEF WsClientConstants, Fail, ClientTypeOK
  <2> QED BY <1>5, <2>1, <2>2, EndKeeps DEF Fail
<1>6. ASSUME NEW c \in Channels, Done(c) PROVE NotifierInv'
  <2>1. c \in Undone /\ ClientTypeOK
    BY <1>6 DEF Done, Undone, NotifierInv
  <2>2. failures' = failures + (1 - 1) /\ failures' \in 0..MaxFailures
    BY <1>6, <2>1, WsClientConstants DEF WsClientConstants, Done, ClientTypeOK, faults
  <2> QED BY <1>6, <2>1, <2>2, EndKeeps DEF Done, faults
<1>7. CASE DropCurrent \/ \E c \in Channels :
                     Opened(c) \/ Upgrade(c) \/ CloseSocket(c) \/ LeaveHub(c) \/ Cut(c)
  BY <1>7, OthersKeep
<1>8. CASE UNCHANGED clientVars
  <2>1. ClientTypeOK' /\ Undone' = Undone
    BY <1>8 DEF NotifierInv, clientVars, client, server, faults, ClientTypeOK, Undone
  <2> QED BY <1>8, <2>1, SameClient DEF clientVars, client, faults
<1> QED BY <1>1, <1>2, <1>3, <1>4, <1>5, <1>6, <1>7, <1>8 DEF ClientNext

THEOREM NotifierInvariant == ClientSpec => []NotifierInv
  BY InitNotifier, NextNotifier, PTL DEF ClientSpec

\* The counters of timers and token reads never exceed one more than the failures,
\* and flags, ends and channels keep their types.
THEOREM WsClientTypes == ClientSpec => []ClientTypeOK
  BY NotifierInvariant, PTL DEF NotifierInv

\* The notifier is connected or something under way will connect it, until the page
\* is left or a token read throws.
THEOREM NeverGivesUp == ClientSpec => []KeepsTrying
  BY NotifierInvariant, PTL DEF NotifierInv

\* Attempts multiply by failed handshakes only, one for each.
THEOREM AttemptsAreAccounted == ClientSpec => []AttemptsAccounted
  BY NotifierInvariant, PTL DEF NotifierInv

\* Until a handshake fails, isConnected and the channel in _channel agree.
THEOREM FlagIsRight == ClientSpec => []FlagFitsChannel
  BY NotifierInvariant, PTL DEF NotifierInv
=============================================================================
