SPECIFICATION Spec
CONSTANTS
  a = a
  b = b
  c = c
  p1 = p1
  p2 = p2
  Procs = {p1}
  Objs = {a, b}
  Data = {0, 1}
  Junk = Junk
  NoData = NoData
  Null = Null
  NoOut = NoOut
  Positions = {0, 1, 3}
  MaxPosition = 3
  Counts = {0, 2}
  QuantumInit = 2
  QsetInit = 2
  SCULL_QUANTUM = 2
  SCULL_QSET = 1
  QArgs = {1}
  MaxQuantum = 2
  MaxQset = 2
  PrintMax = 2
  SizeMod = 256
  MayFail = TRUE
  MayFault = TRUE
SYMMETRY ObjSymmetry
INVARIANTS ArraysFit Owned NoOverrun ReadsDivide
PROPERTIES FileSpec ReadsAllocateNothing
