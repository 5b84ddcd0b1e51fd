CONSTANTS
  Opener = init
  w0 = w0
  w1 = w1
  w1b = w1b
  wx = wx
  f1 = f1
  f2 = f2
  a1 = a1
  Writers = {w0}
  Finishers = {f1, f2}
  Aborters = {a1}
  ChunkOf <- MCChunkOf
  NumChunks = 1
  MaxTries = 1
  KeepTempOnError = FALSE
  SlowWork = TRUE
  WatchLost = FALSE
  Mortal = {}
  Absent = Absent
  NoFile = NoFile
  Free = Free
SPECIFICATION Spec
SYMMETRY Finisher2
INVARIANTS TypeOK AtMostOneRow
PROPERTIES Lifecycle NoResurrection AbortIsFinal KeepsContract
CHECK_DEADLOCK FALSE
