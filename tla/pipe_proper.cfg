SPECIFICATION Spec
CHECK_DEADLOCK FALSE
CONSTANTS
  r1 = r1
  w1 = w1
  x1 = x1
  Procs = {r1, w1, x1}
  NoProc = NoProc
  NoFile = NoFile
  Opens <- OpensProper
  Calls = {"read", "write"}
  Data = {0}
  Counts = {1, 2}
  InitLen = 3
  PLens = {}
  MaxLen = 3
  SizeMod = 256
  Proper = TRUE
  MayFail = TRUE
  MayFault = FALSE
  Signalled = {r1, x1}
  CountMax = 2
INVARIANTS CountsCover WriterHasBuffer NoLostOpen
