SPECIFICATION Spec
CONSTANTS
  ann = ann
  bob = bob
  call = call
  accept = accept
  date = date
  block = block
  Members = {ann, bob}
  Requests = {call, accept, date, block}
  Kind <- MCKind
  Asker <- MCAsker
  NoBlock = NoBlock
  FreeCalls = 1
INVARIANTS MessagesHaveMatch BlockIsFinal AskerTokenFitsPremium QuotaCoversSignals UnpaidForAReason
