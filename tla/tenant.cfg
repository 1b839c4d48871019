CONSTANTS
  NoHook = NoHook
  k1 = k1
  k2 = k2
  s1 = s1
  s2 = s2
  r1 = r1
  r2 = r2
  p1 = p1
  p2 = p2
  l1 = l1
  l2 = l2
  Person = {p1, p2}
  Stranger = Stranger
  Line = {l1, l2}
  Reporting = {"SMS", "WHATSAPP"}
  Setups <- MCSetups
  c1 = c1
  c2 = c2
  g1 = g1
  g2 = g2
  g3 = g3
  t1 = t1
  e1 = e1
  e2 = e2
  q1 = q1
  q2 = q2
  Contact = {g1, g2, g3}
  Phone = {t1}
  Email = {e1, e2}
  Blank = Blank
  Request = {q1, q2}
  Beginnings <- MCBeginnings
  Hook = {k1, k2}
  Server = {s1, s2}
  Replica = {r1, r2}
  Caller = {c1, c2}
  CapOf <- MCCapOf
  TrialCap = 1
  Mail <- MCMail
  Budgets <- MCBudgets
CHECK_DEADLOCK FALSE
SPECIFICATION MCSpec
INVARIANTS
  TenantTypeOK
  AppliedOnce
  PaymentNotDropped
  SpendingWithinCap
  FailureIsAnswered
  EscalationEnds
  AnswerReaches
  BadgesScan
PROPERTIES
  KeepsEscalation
  ReadIsRespected
  ExpiredRightly
  NothingLost
  TrialsEnd
