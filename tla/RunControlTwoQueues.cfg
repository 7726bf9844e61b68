\* A wave in each of two queues, one of which may be destroyed.
CONSTANTS
  w1 = w1
  w2 = w2
  q1 = q1
  q2 = q2
  Queues = {q1, q2}
  Waves = {w1, w2}
  QueueOf <- TwoQueues
  Commands <- PlainCommands
  MaxDestroys = 1
  MayExit = FALSE
SPECIFICATION Spec
INVARIANTS
  ForwardProgress
\* A failed assertion stops the library, and the environment may be exhausted.
CHECK_DEADLOCK FALSE
