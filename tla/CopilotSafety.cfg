SPECIFICATION Spec
CONSTANTS
  Bars = {b1}
  Proposals = {p1}
  Sells = {}
  Requests = {q1, q2, q3}
  Calls = {c1, c2}
  Runner = Runner
  None = None
  MaxDaily = 2
  ReservedExits = 1
  MaxDay = 1
  MaxFill = 1
  MaxCrashes = 2
SYMMETRY Symmetry
INVARIANTS
  TypeOK
  OneOpenOrder
  OneOrderPerIntent
  ExitsKept
  OutcomeIsTrue
PROPERTIES
  NothingGivenUp
