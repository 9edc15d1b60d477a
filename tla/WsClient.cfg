\* One failed handshake, two lost or dropped connections, channels to spare.
CONSTANTS
  Channels = {c1, c2, c3, c4}
  NoChannel = NoChannel
  MaxFailures = 1
  MaxCuts = 2
SPECIFICATION ClientFairSpec
INVARIANTS KeepsTrying AttemptsAccounted FlagFitsChannel
PROPERTIES SettlesUnlessDoubled LeavesTheHub
CHECK_DEADLOCK FALSE
