CONSTANTS
  None = None
  NoAppt = NoAppt
  NoMsg = NoMsg
  w1 = w1
  w2 = w2
  s1 = s1
  s2 = s2
  h1 = h1
  h2 = h2
  a1 = a1
  m1 = m1
  m2 = m2
  Event = {1, 2}
  Slot = {w1, w2}
  Scanner = {s1, s2}
  Automated = {1, 2}
  Locating = {1}
  Rewarding = {1}
  MaxStalls = 1
  RsvpAttempts = 3
  FlowAttempts = 3
  MaxJobs = 3
  Agendas <- MCAgendas
  Hook = {h1, h2}
  Appt = {a1}
  Time = {1, 2, 3}
  SlotsToOffer = 2
  MaxRows = 4
  Diaries <- MCDiaries
  Msg = {m1, m2}
  Mailbags <- MCMailbags
  f1 = f1
  f2 = f2
  Workflow = {f1, f2}
  ListensTo <- MCListensTo
  Actions <- MCActions
  Conditional = {f2}
  MaxExecutions = 1
  ActionAttempts = 3
  Edits = {0, 1}
CHECK_DEADLOCK FALSE
SYMMETRY Symmetry
SPECIFICATION MCSpec
INVARIANTS
  OneArrival
  FollowUpsPaidFor
  ExtrasPaidFor
  OneAnswerPerReply
  ConfirmedGetsWorkflow
  InboundTypeOK
  RemindersMatch
  TermiiHandled
  StopHonoured
PROPERTIES
  TwilioContract
