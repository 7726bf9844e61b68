\* Two attaches, two loads of the runtime, two updates of the list, two threads.
SPECIFICATION Spec
CONSTANTS
    Objects = {o1, o2}
    Threads = {t1, t2}
    Precise = TRUE
    MaxWatches = 2
    MaxAttaches = 2
    MaxLoads = 2
    MaxUpdates = 2
CHECK_DEADLOCK FALSE
PROPERTIES RuntimeContinues
