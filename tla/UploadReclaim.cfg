CONSTANTS
  Opener = init
  w0 = w0
  w1 = w1
  w1b = w1b
  wx = wx
  f1 = f1
  f2 = f2
  a1 = a1
  Writers = {w0, wx}
  Finishers = {f1}
  Aborters = {a1}
  ChunkOf <- MCChunkOf
  NumChunks = 1
  MaxTries = 2
  KeepTempOnError = TRUE
  SlowWork = FALSE
  WatchLost = TRUE
  Mortal = {init, w0, f1, a1}
  Absent = Absent
  NoFile = NoFile
  Free = Free
SPECIFICATION FairSpec
INVARIANTS FinishedIsStored RefusedNeverPublished
PROPERTY TempRemoved
CHECK_DEADLOCK FALSE
