\* Three waves of a queue, and one chunk more than there are waves.
CONSTANTS
  w1 = w1
  w2 = w2
  w3 = w3
  q1 = q1
  q2 = q2
  i1 = i1
  i2 = i2
  i3 = i3
  NoId = NoId
  NoQueue = NoQueue
  Code <- Loop
  Size <- LoopSize
  Kind <- LoopKind
  Succ <- LoopSucc
  Entry = 0
  MemBase <- Bases
  Queues = {q1}
  Waves = {w1, w2, w3}
  Ids = {i1, i2, i3}
  QueueOf <- OneQueue
  Breakpoints = {0, 1, 3, 5}
  ChunkCount = 4
  ParkStopped = TRUE
  Restep = FALSE
  Destroyable = {q1}
  MayFreeze = FALSE
  MayExit = FALSE
SPECIFICATION Spec
SYMMETRY Alike
INVARIANTS
  BuffersSuffice
PROPERTIES
  StepsAreInline
\* The waves may end, and a fatal error stops the library.
CHECK_DEADLOCK FALSE
