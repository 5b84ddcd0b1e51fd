CONSTANTS
  u1 = u1
  u2 = u2
  c1 = c1
  c2 = c2
  n1 = n1
  n2 = n2
  p1 = p1
  p2 = p2
  s1 = s1
  s2 = s2
  l1 = l1
  l2 = l2
  Users = {u1, u2}
  Contacts = {c1, c2}
  Names = {n1, n2}
  Passwords = {p1, p2}
  Candidates <- MCCandidates
  splitIdentifier <- MCSplit
  Dummy = Dummy
  LoginLimit = 1
  MaxHits = 1
  Setters = {s1, s2}
  Logins = {l1, l2}
  Changers = {g1}
  Renamers = {m1}
  Admins = {a1}
  Refreshers = {f1, f2, f3}
  Absent = Absent
  None = None
  Unusable = Unusable
SPECIFICATION MCSpec
INVARIANTS TypeOK AnsweredAtAMoment NameRaceOnly RefreshBound
PROPERTY WindowsEnd
CHECK_DEADLOCK FALSE
