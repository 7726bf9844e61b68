SPECIFICATION Spec
CONSTANTS
    NumAgents = 2
    NumRegs = 2
    MaxIds = 3
    Waves = {w1}
    Heap = {p1, p2, p3}
    ShareKind <- MCShareKind
    w1 = w1
    p1 = p1
    p2 = p2
    p3 = p3
SYMMETRY HeapSymmetry
INVARIANTS
  TrapsCoverWatches
  WatchesAgree
  ReportedIsTriggered
CHECK_DEADLOCK FALSE
