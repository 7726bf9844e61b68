\* Two attaches, two loads of the runtime, two updates of the list, two watchpoints.
SPECIFICATION Spec
CONSTANTS
    Objects = {o1}
    Threads = {t1}
    Precise = TRUE
    MaxWatches = 2
    MaxAttaches = 2
    MaxLoads = 2
    MaxUpdates = 2
INVARIANTS
  DriverFollows
  ListReported
  AnswersMatch
PROPERTIES
  ThreadResumed
  RuntimeAnswered
CHECK_DEADLOCK FALSE
