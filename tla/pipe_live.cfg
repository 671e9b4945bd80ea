SPECIFICATION FairSpec
CHECK_DEADLOCK FALSE
CONSTANTS
  r1 = r1
  w1 = w1
  x1 = x1
  Procs = {r1, w1, x1}
  NoProc = NoProc
  NoFile = NoFile
  Opens <- OpensPlain
  Calls = {"read", "write"}
  Data = {0}
  Counts = {1}
  InitLen = 2
  PLens = {}
  MaxLen = 2
  SizeMod = 256
  Proper = FALSE
  MayFail = FALSE
  MayFault = FALSE
  Signalled = {}
  CountMax = 2
PROPERTIES ReadProgress WriteProgress NonblockReturns
