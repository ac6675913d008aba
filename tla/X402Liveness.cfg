SPECIFICATION FairSpec
CONSTANTS
  Payments = {p1}
  Requests = {r1, r2}
  Bodies = {b1}
  Responses = {x1}
  Tokens = {t1, t2, t3}
  None = None
  Lease = 2
  Retention = 1
  MaxEntries = 1
  MaxIdentities = 1
  ClockMayJump = FALSE
PROPERTIES
  EveryRequestEnds
  StrandedClaimIsRecovered
