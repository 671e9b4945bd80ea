SPECIFICATION Spec
CHECK_DEADLOCK FALSE
CONSTANTS
  a = a
  b = b
  c = c
  Procs = {a, b}
  Free = Free
  MsiSettings = {TRUE}
  MayLose = FALSE
  Signalled = {}
  HwStatus = {"idle"}
  Removes = FALSE
PROPERTIES FailIsTimeout
