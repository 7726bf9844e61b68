\* See the finding on QueuePointersValid.
CONSTANTS
  w1 = w1
  w2 = w2
  q1 = q1
  q2 = q2
  Queues = {q1, q2}
  Waves = {w1, w2}
  QueueOf <- TwoQueues
  Commands <- PlainCommands
  MaxDestroys = 1
  MayExit = FALSE
SPECIFICATION Spec
INVARIANTS
  QueuePointersValid
\* A failed assertion stops the library, and the environment may be exhausted.
CHECK_DEADLOCK FALSE
