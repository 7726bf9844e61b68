\* Waves of two queues, too few chunks, and a client that freezes and steps twice.
CONSTANTS
  w1 = w1
  w2 = w2
  w3 = w3
  q1 = q1
  q2 = q2
  i1 = i1
  i2 = i2
  i3 = i3
  NoId = NoId
  NoQueue = NoQueue
  Code <- Loop
  Size <- LoopSize
  Kind <- LoopKind
  Succ <- LoopSucc
  Entry = 0
  MemBase <- Bases
  Queues = {q1, q2}
  Waves = {w1, w2, w3}
  Ids = {i1, i2, i3}
  QueueOf <- TwoQueues
  Breakpoints = {0, 1, 3, 5}
  ChunkCount = 1
  ParkStopped = FALSE
  Restep = TRUE
  Destroyable = {q1}
  MayFreeze = TRUE
  MayExit = TRUE
SPECIFICATION Spec
SYMMETRY Alike
INVARIANTS
  BuffersAccounted
  DetachLeavesNone
\* The waves may end, and a fatal error stops the library.
CHECK_DEADLOCK FALSE
