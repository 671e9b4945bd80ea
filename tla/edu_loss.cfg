SPECIFICATION Spec
CHECK_DEADLOCK FALSE
CONSTANTS
  a = a
  b = b
  c = c
  Procs = {a, b, c}
  Free = Free
  MsiSettings = {TRUE}
  MayLose = TRUE
  Signalled = {}
  HwStatus = {"idle", "busy"}
  Removes = TRUE
PROPERTIES BusyHasTest
