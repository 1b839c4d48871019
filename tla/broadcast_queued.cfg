CONSTANTS
  None = None
  c1 = c1
  c2 = c2
  w1 = w1
  w2 = w2
  Contact = {c1, c2}
  Fickle = {}
  Slot = {w1}
  MaxStalls = 1
  Attempts <- MCAttempts
  Calls = {"broadcast"}
  BatchSize = 1
  AudienceLimit = 2
  MaxDispatches = 1
  MaxFaults = 0
CHECK_DEADLOCK FALSE
SPECIFICATION Spec
INVARIANT
  BroadcastIsProcessed
