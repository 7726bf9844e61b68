\* See the finding on ResumeCountsInvalidQueues.
CONSTANTS
  w1 = w1
  w2 = w2
  q1 = q1
  q2 = q2
  Queues = {q1}
  Waves = {w1}
  QueueOf <- OneQueue
  Commands <- PlainCommands
  MaxDestroys = 1
  MayExit = FALSE
SPECIFICATION Spec
INVARIANTS
  ResumeCountsInvalidQueues
\* A failed assertion stops the library, and the environment may be exhausted.
CHECK_DEADLOCK FALSE
