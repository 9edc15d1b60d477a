------------------------------ MODULE Sessions ------------------------------
(***************************************************************************)
(* What the websocket hub promises the handlers that signal users: a user  *)
(* has at most one current connection; a connection is current once, and   *)
(* never again after it was replaced or dropped; a signal goes to the      *)
(* connection current at that moment, or is lost.                          *)
(***************************************************************************)
EXTENDS Naturals

CONSTANTS Users, Conns, NoConn, Owner, Capacity

VARIABLES
  current,  \* each user's connection
  ended,    \* connections that were current once
  queue     \* signals accepted for a connection and not written yet

vars == <<current, ended, queue>>

Init ==
  /\ current = [u \in Users |-> NoConn]
  /\ ended = {}
  /\ queue = [c \in Conns |-> 0]

\* c becomes the connection of its user and ends the one before it.
Open(c) ==
  /\ c \notin ended
  /\ current[Owner[c]] # c
  /\ current' = [current EXCEPT ![Owner[c]] = c]
  /\ ended' = ended \cup ({current[Owner[c]]} \ {NoConn})
  /\ UNCHANGED queue

End(u) ==
  /\ current[u] # NoConn
  /\ current' = [current EXCEPT ![u] = NoConn]
  /\ ended' = ended \cup {current[u]}
  /\ UNCHANGED queue

Signal(u) ==
  /\ current[u] # NoConn
  /\ queue[current[u]] < Capacity
  /\ queue' = [queue EXCEPT ![current[u]] = @ + 1]
  /\ UNCHANGED <<current, ended>>

Write(c) ==
  /\ queue[c] > 0
  /\ queue' = [queue EXCEPT ![c] = @ - 1]
  /\ UNCHANGED <<current, ended>>

Next ==
  \/ \E c \in Conns : Open(c) \/ Write(c)
  \/ \E u \in Users : End(u) \/ Signal(u)

Spec == Init /\ [][Next]_vars
=============================================================================
