CONSTANTS
  s1 = s1
  s2 = s2
  v1 = v1
  v2 = v2
  v3 = v3
  p1 = p1
  p2 = p2
  Senders = {s1, s2}
  Verifiers = {v1, v2}
  Setters = {p1, p2}
  MaxAttempts = 1
  ReqMax = 1
  VerMax = 1
  MaxHits <- Limits
  None = None
SPECIFICATION Spec
SYMMETRY Symmetry
INVARIANTS TypeOK WindowBound GuessesBounded SpentStaysSpent TicketOnce
CHECK_DEADLOCK FALSE
