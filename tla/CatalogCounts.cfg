CONSTANTS
  u1 = u1
  u2 = u2
  p1 = p1
  p9 = p9
  c1 = c1
  c2 = c2
  c3 = c3
  f1 = f1
  f2 = f2
  f3 = f3
  Users = {u1, u2}
  Products = {p1}
  Ids = {p1, p9}
  Calls = {c1, c2, c3}
  Flushes = {f1, f2}
  MaxPages = 2
  None = None
SPECIFICATION Spec
SYMMETRY Symmetry
INVARIANTS TypeOK LikesCounted TogglesAlternate DownloadsLedger
CHECK_DEADLOCK FALSE
