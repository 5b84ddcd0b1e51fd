CONSTANTS
  c1 = c1
  c2 = c2
  c3 = c3
  t1 = t1
  u1 = u1
  u2 = u2
  e1 = e1
  e2 = e2
  Categories = {c1, c2, c3}
  Tags = {t1}
  Users = {u1, u2}
  Admins = {u1}
  Products = {p1}
  MaxAuthors = 1
  Edits <- MCEdits
  Callers = {m1}
  Removers = {r1}
  Walkers = {b1}
  Editors = {e1, e2}
  Root = Root
  None = None
SPECIFICATION MCSpec
INVARIANTS TypeOK AuthorsBounded
PROPERTIES CyclesComeFrom WalksEnd
CHECK_DEADLOCK FALSE
