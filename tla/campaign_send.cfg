CONSTANTS
  None = None
  c1 = c1
  c2 = c2
  w1 = w1
  w2 = w2
  Contact = {c1}
  Fickle = {c1}
  Slot = {w1, w2}
  MaxStalls = 1
  Attempts <- MCAttempts
  Calls = {"campaign"}
  BatchSize = 1
  AudienceLimit = 2
  MaxDispatches = 2
  MaxFaults = 2
CHECK_DEADLOCK FALSE
SYMMETRY Symmetry
SPECIFICATION Spec
INVARIANTS
  TypeOK
  CopiesWithinAttempts
  UsageFollowsSends
  FailedIsParked
PROPERTY
  OptOutSilences
