SPECIFICATION Spec
CONSTANTS
  u1 = u1
  u2 = u2
  u3 = u3
  n1 = n1
  n2 = n2
  p1 = p1
  p2 = p2
  t1 = t1
  t2 = t2
  t3 = t3
  User = {u1, u2, u3}
  Name = {n1, n2, n3}
  Password = {p1, p2}
  Token = {t1, t2, t3}
  Slot = {s1, s2}
  MaxRequests = 3
  Weak <- MCWeak
  FirstUsers <- MCFirstUsers
  FirstSessions <- MCFirstSessions
CHECK_DEADLOCK FALSE
INVARIANTS AccountsTypeOK OldSessionsClosed
PROPERTY AdminLostOnlyByOverlap
