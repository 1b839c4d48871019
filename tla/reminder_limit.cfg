CONSTANTS
  None = None
  r1 = r1
  r2 = r2
  p1 = p1
  p2 = p2
  b1 = b1
  b2 = b2
  w1 = w1
  w2 = w2
  Reminder = {r1, r2}
  Person = {p1}
  Booking = {b1, b2}
  Slot = {w1, w2}
  Limit = {1}
  MaxStalls = 1
  MaxFaults = 0
  Requests = {"optout"}
  BookingOf <- MCBookingOf
  Kind <- MCKind
  Audience <- MCAudience
  Attempts <- MCAttempts
CHECK_DEADLOCK FALSE
SYMMETRY Symmetry
SPECIFICATION Spec
INVARIANT
  UsageWithinLimit
PROPERTY
  OptOutStopsSends
