SPECIFICATION Spec
CHECK_DEADLOCK FALSE
CONSTANTS
  r1 = r1
  w1 = w1
  x1 = x1
  Procs = {r1, w1, x1}
  NoProc = NoProc
  NoFile = NoFile
  Opens <- OpensPlain
  Calls = {"read", "write"}
  Data = {0}
  Counts = {2}
  InitLen = 3
  PLens = {0, 2}
  MaxLen = 3
  SizeMod = 256
  Proper = FALSE
  MayFail = FALSE
  MayFault = FALSE
  Signalled = {w1}
  CountMax = 2
INVARIANTS RingOK OpenHasBuffer NoLostSpace
