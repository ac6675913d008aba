SPECIFICATION Spec
CONSTANTS
  Payments = {p1, p2, p3, p4}
  Requests = {r1}
  Bodies = {b1}
  Responses = {x1}
  Tokens = {t1, t2, t3, t4, t5}
  None = None
  Lease = 1
  Retention = 2
  MaxEntries = 2
  MaxIdentities = 3
  ClockMayJump = FALSE
SYMMETRY Identity
INVARIANTS
  JournalIsBounded
PROPERTIES
  OnlyDeadRowsAreDropped
