SPECIFICATION Spec
CHECK_DEADLOCK FALSE
CONSTANTS
  r1 = r1
  w1 = w1
  x1 = x1
  Procs = {r1, w1}
  NoProc = NoProc
  NoFile = NoFile
  Opens <- OpensPair
  Calls = {"read", "write", "poll", "fasync"}
  Data = {0, 1}
  Counts = {0, 2}
  InitLen = 3
  PLens = {}
  MaxLen = 3
  SizeMod = 256
  Proper = FALSE
  MayFail = TRUE
  MayFault = TRUE
  Signalled = {r1, w1}
  CountMax = 2
INVARIANTS NoLostData AsyncOnlyOpen
PROPERTIES FifoSpec
