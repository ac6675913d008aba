SPECIFICATION Spec
CONSTANTS
  Payments = {p1, p2}
  Requests = {r1, r2}
  Bodies = {b1, b2}
  Responses = {x1, x2}
  Tokens = {t1, t2, t3, t4}
  None = None
  Lease = 1
  Retention = 1
  MaxEntries = 2
  MaxIdentities = 2
  ClockMayJump = TRUE
SYMMETRY Identity
INVARIANTS
  TypeOK
  AtMostOneSettleCall
  ChargedIdentityIsKept
  OnlyPaidGoodsDelivered
  RecordedSuccessIsNeverUnpaid
PROPERTIES
  OnlySettlerOrOperatorResolves
  ImplementsEntitlement
