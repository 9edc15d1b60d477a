\* One user who reconnects, a channel of two messages, under the scheduler's fairness.
CONSTANTS
  ann = ann
  c1 = c1
  c2 = c2
  Users = {ann}
  Conns = {c1, c2}
  NoConn = NoConn
  Owner <- Reconnect
  Capacity = 2
  MaxDrops = 1
SPECIFICATION FairSpec
INVARIANTS NoPanic OpenIffMapped MappedIsServed
PROPERTIES ConnectionsEnd SignalsTheCurrent
CHECK_DEADLOCK FALSE
