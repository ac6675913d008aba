SPECIFICATION Spec
CONSTANTS
  q1 = q1
  q2 = q2
  q3 = q3
  r1 = r1
  r2 = r2
  r3 = r3
  Workers = {w1, w2}
  Requests = {q1, q2, q3}
  Receipts = {r1, r2, r3}
  RequestOf <- MCRequestOf
  ValidAt <- Always
  IntentOf <- OwnIntent
  Buys = {q1, q2}
  Qty <- OneUnit
  Held = 1
  MaxGross = 4
  MaxDaily = 1
  Capacity = 3
  DayLength = 1
  ClockSetBack = FALSE
  Figures = {"good"}
  None = None
  MaxClock = 1
  MaxFaults = 0
SYMMETRY WorkerSymmetry
INVARIANTS
  DailyPostsBounded
