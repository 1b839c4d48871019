CONSTANTS
  None = None
  c1 = c1
  c2 = c2
  w1 = w1
  w2 = w2
  Contact = {c1, c2}
  Fickle = {c1}
  Slot = {w1}
  MaxStalls = 1
  Attempts <- MCAttempts
  Calls = {"event", "broadcast"}
  BatchSize = 1
  AudienceLimit = 2
  MaxDispatches = 1
  MaxFaults = 1
CHECK_DEADLOCK FALSE
SPECIFICATION Spec
INVARIANTS
  RecipientTellsTruth
