CONSTANTS
  None = None
  r1 = r1
  r2 = r2
  p1 = p1
  p2 = p2
  b1 = b1
  b2 = b2
  w1 = w1
  w2 = w2
  Reminder = {r1}
  Person = {p1}
  Booking = {b1}
  Slot = {w1}
  Limit = {}
  MaxStalls = 1
  MaxFaults = 0
  Requests = {}
  BookingOf <- MCBookingOf
  Kind <- MCKind
  Audience <- MCAudience
  Attempts <- MCAttempts
CHECK_DEADLOCK FALSE
SPECIFICATION Spec
INVARIANT
  FailedReachesDlq
