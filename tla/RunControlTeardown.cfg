\* One wave, whose queue may be destroyed or whose process may exit at any time,
\* and a client that keeps asking for events.
CONSTANTS
  w1 = w1
  w2 = w2
  q1 = q1
  q2 = q2
  Queues = {q1}
  Waves = {w1}
  QueueOf <- OneQueue
  Commands <- AllCommands
  MaxDestroys = 1
  MayExit = TRUE
SPECIFICATION FairSpec
INVARIANTS
  TypeOK
  EventsInTurn
  AssertionsHold
PROPERTIES
  StepAnswered
  StopStaysVisible
  CallsReturn
  TrapReported
\* A failed assertion stops the library, and the environment may be exhausted.
CHECK_DEADLOCK FALSE
