SPECIFICATION Spec
CONSTANTS
  None = None
  plain = plain
  halted = halted
  enabled = enabled
  p1 = p1
  p2 = p2
  b1 = b1
  b2 = b2
  old = old
  new = new
  Settings <- MCSettings
  Disabled <- MCDisabled
  Halted <- MCHalted
  Initial = plain
  Plans <- MCPlans
  Runs <- MCRuns
  Releases <- MCReleases
  First = old
  MaxWrites = 1
  MaxMishaps = 3
INVARIANT PublishedIsWhole
PROPERTY HostComesBack
CHECK_DEADLOCK FALSE
