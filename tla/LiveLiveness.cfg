SPECIFICATION FairSpec
CONSTANTS
  q1 = q1
  q2 = q2
  q3 = q3
  r1 = r1
  r2 = r2
  r3 = r3
  Workers = {w1, w2}
  Requests = {q1, q2}
  Receipts = {r1, r2}
  RequestOf <- MCRequestOf
  ValidAt <- Always
  IntentOf <- SameIntent
  Buys = {q1}
  Qty <- TwoUnits
  Held = 1
  MaxGross = 3
  MaxDaily = 2
  Capacity = 3
  DayLength = 1
  ClockSetBack = FALSE
  Figures = {"none", "good"}
  None = None
  MaxClock = 0
  MaxFaults = 1
PROPERTIES
  OrderSettles
