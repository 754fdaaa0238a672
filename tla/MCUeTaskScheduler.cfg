\* Per-UE FIFO control loops: mutual exclusion, FIFO order, the task life
\* cycle, no stranded work, and every queued task eventually runs or is cancelled.
CONSTANTS
    u1 = u1
    u2 = u2
    t1 = t1
    t2 = t2
    t3 = t3
    t4 = t4
    UEs <- MCUEs
    Tasks <- MCTasks
    QueueCap = 2
    MaxSuspend = 1
SPECIFICATION Spec
INVARIANTS
    TypeOK
    MutualExclusion
    WorkConserving
    FifoOrder
PROPERTIES
    TaskLifeCycleProp
    QueuedTaskEventuallyHandled
\* The scheduler may become idle for good once no caller hands in work.
CHECK_DEADLOCK FALSE
