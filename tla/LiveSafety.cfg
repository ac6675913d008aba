SPECIFICATION Spec
CONSTANTS
  q1 = q1
  q2 = q2
  q3 = q3
  r1 = r1
  r2 = r2
  r3 = r3
  Workers = {w1, w2}
  Requests = {q1, q2, q3}
  Receipts = {r1, r2, r3}
  RequestOf <- MCRequestOf
  ValidAt <- Windows
  IntentOf <- SameIntent
  Buys = {q1, q2}
  Qty <- TwoUnits
  Held = 1
  MaxGross = 3
  MaxDaily = 2
  Capacity = 3
  DayLength = 1
  ClockSetBack = TRUE
  Figures = {"none", "good"}
  None = None
  MaxClock = 1
  MaxFaults = 1
SYMMETRY WorkerSymmetry
INVARIANTS
  TypeOK
  AccountWithinLimits
  TerminalIsFinal
PROPERTIES
  ObservationNeverRegresses
  ImplementsLiveAccount
