CONSTANTS
  c1 = c1
  c2 = c2
  c3 = c3
  s = s
  t = t
  n1 = n1
  n2 = n2
  n3 = n3
  Clients = {c1, c2, c3}
  Conns = {n1, n2, n3}
  ConnOf <- OwnConn
  Keys = {s, t}
  KeyOf <- OneSession
  Serial = FALSE
  Absent = Absent
SPECIFICATION Spec
INVARIANT NoLostUpdate
PROPERTY ImplementsCas
CHECK_DEADLOCK FALSE
