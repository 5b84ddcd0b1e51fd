CONSTANTS
  l1 = l1
  l2 = l2
  r1 = r1
  r2 = r2
  r3 = r3
  c1 = c1
  c2 = c2
  Logins = {l1}
  Refreshers = {r1, r2, r3}
  Callers = {c1, c2}
  Faults = TRUE
  None = None
SPECIFICATION Spec
SYMMETRY Symmetry
INVARIANTS TypeOK SingleUse OneHolder SignedInStays Findable TakenStaysOut
PROPERTIES KeepsFamily
CHECK_DEADLOCK FALSE
