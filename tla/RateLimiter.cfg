SPECIFICATION FairSpec
CONSTANTS
  r1 = r1
  r2 = r2
  r3 = r3
  r4 = r4
  a1 = a1
  a2 = a2
  Requests = {r1, r2, r3, r4}
  Addresses = {a1, a2}
  AddressOf <- MCAddressOf
  Capacity = 4
  Cost = 2
  LastTime = 3
INVARIANTS WindowBound KeepsUnspentBurst
PROPERTIES RequestsEnd
CHECK_DEADLOCK FALSE
