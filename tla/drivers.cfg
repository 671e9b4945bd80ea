SPECIFICATION Spec
CONSTANTS
  t1 = t1
  t2 = t2
  t3 = t3
  t4 = t4
  JiqFile <- mc_files
  Overlaps <- mc_overlaps
  Turns <- mc_turns
  Idle = Idle
  PageSize = 5
  Header = 1
  LineLens = {1}
  LIMIT = 3
  MaxReads <- mc_max_reads
  Wrap = 8
  Delay = 3
  Late = 2
  JIT_ASYNC_LOOPS = 3
  EduUsers = {t1, t2}
  scull_nr_devs = 2
  scull_p_nr_devs = 2
  ProcReaders = {t1, t2}
INVARIANTS JiqQuiet JiqNoLostWake JitDelays JitWhole JitPrintsInRead ProbeNothingLeft AttributesHaveDevice OpenIsReady ProcSeesReady UnloadLeavesObjects QusReleased
PROPERTIES JiqWhole JiqReadEnds JitReadEnds ProbeEnds
