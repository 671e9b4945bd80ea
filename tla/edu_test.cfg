SPECIFICATION FairSpec
CHECK_DEADLOCK FALSE
CONSTANTS
  a = a
  b = b
  c = c
  Procs = {a, b}
  Free = Free
  MsiSettings = {TRUE, FALSE}
  MayLose = FALSE
  Signalled = {a}
  HwStatus = {"idle", "busy"}
  Removes = TRUE
INVARIANTS OneTest NoLostWakeup TestHasEnd GoneIsQuiet
PROPERTIES TestEnds Acknowledged
