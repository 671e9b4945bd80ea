SPECIFICATION FairSpec
CHECK_DEADLOCK FALSE
CONSTANTS
  r1 = r1
  w1 = w1
  x1 = x1
  Procs = {r1, w1}
  NoProc = NoProc
  NoFile = NoFile
  Opens <- OpensSplit
  Calls = {"read", "write"}
  Data = {0}
  Counts = {1, 2}
  InitLen = 3
  PLens = {}
  MaxLen = 3
  SizeMod = 256
  Proper = TRUE
  MayFail = FALSE
  MayFault = FALSE
  Signalled = {}
  CountMax = 2
PROPERTIES EofReleasesReader
