SPECIFICATION Spec
CONSTANTS
  Calls = {p1, p2, p3}
  Purchases = {b1, b2}
  NoCall = NoCall
  FreeCalls = 2
  Days <- MCDays
  MonthAfter <- MCMonthAfter
  TrialDays = 7
  RegisterDays <- MCRegisterDays
  MaxDelay = 1
INVARIANTS PaidTimeHasFlag CountIsCallsMade MonthsAddUp
PROPERTY DecidesOneAtATime
CHECK_DEADLOCK FALSE
