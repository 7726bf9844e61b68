\* A queue that is destroyed while a wave of it is displaced.
CONSTANTS
  w1 = w1
  w2 = w2
  w3 = w3
  q1 = q1
  q2 = q2
  i1 = i1
  i2 = i2
  i3 = i3
  NoId = NoId
  NoQueue = NoQueue
  Code <- Loop
  Size <- LoopSize
  Kind <- LoopKind
  Succ <- LoopSucc
  Entry = 0
  MemBase <- Bases
  Queues = {q1}
  Waves = {w1}
  Ids = {i1}
  QueueOf <- OneQueue
  Breakpoints = {0, 1, 3, 5}
  ChunkCount = 3
  ParkStopped = TRUE
  Restep = FALSE
  Destroyable = {q1}
  MayFreeze = FALSE
  MayExit = FALSE
SPECIFICATION Spec
INVARIANTS
  DestroyedWhenInvalid
\* The waves may end, and a fatal error stops the library.
CHECK_DEADLOCK FALSE
