SPECIFICATION FairSpec
CHECK_DEADLOCK FALSE
CONSTANTS
  a = a
  b = b
  c = c
  Procs = {a, b}
  Free = Free
  MsiSettings = {TRUE}
  MayLose = FALSE
  Signalled = {a}
  HwStatus = {"idle"}
  Removes = TRUE
PROPERTIES RemoveFinishes
