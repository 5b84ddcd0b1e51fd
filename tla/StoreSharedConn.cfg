CONSTANTS
  c1 = c1
  c2 = c2
  c3 = c3
  s = s
  t = t
  n1 = n1
  n2 = n2
  n3 = n3
  Clients = {c1, c2, c3}
  Conns = {n1}
  ConnOf <- SharedConn
  Keys = {s, t}
  KeyOf <- TwoSessions
  Serial = TRUE
  Absent = Absent
SPECIFICATION Spec
INVARIANT StaysGone
CHECK_DEADLOCK FALSE
