SPECIFICATION Spec
CONSTANTS
  None = None
  MaxTtl = 4
  EvidenceTtl = 3
  ObservationAge = 4
  MaxSkew = 1
  ScopedAge <- MCAges
  ScopedCaps <- MCHard
  Rungs <- MCRungs
  Bands <- MCBands
  Visitors = {v1}
  Signers = {s1}
  Threads = {t1, t2}
  Shapes <- MCShapes
  Policies <- MCPolicies
  Bindings <- MCBindings
  Envelope <- MCEnvelope
  HardEnvelope <- MCHard
  ContextWanted = TRUE
  RequestTtl = 3
  ReceiptTtl = 2
  ScopedTtl = 2
  Deadline = 2
  Burst = 1
  Rate = 1
  MaxInFlight = 1
  MaxEntries = 1
  Worlds <- MCWorlds
  Start = 2
  MaxNow = 4
  MaxSlips = 1
  MaxReceipts = 2
SYMMETRY Symmetry
INVARIANTS
  TypeOK
  SubmittedIsFresh
  ReceiptUsedOnce
CHECK_DEADLOCK FALSE
