SPECIFICATION Spec
CONSTANTS
  q1 = q1
  q2 = q2
  r1 = r1
  r2 = r2
  r3 = r3
  Hosts = {h1, h2}
  Requests = {q1}
  Receipts = {r1, r2}
  RequestOf <- MCRequestOf
  Expiry <- ShortExpiry
  None = None
  MaxEntries = 2
  MaxClock = 1
  MaxCrashes = 1
PROPERTIES
  OnlyTheBrokerKeepsALane
  StrandedClaimIsResolved
  OnceExpiredNeverClaimed
  AcceptedOrderBecomesKnown
