\* A task handed to a full queue: handle_ue_async_task discards the
\* rejection, so the task is neither run nor cancelled.
CONSTANTS
    u1 = u1
    u2 = u2
    t1 = t1
    t2 = t2
    t3 = t3
    t4 = t4
    UEs <- MCUEs
    Tasks <- MCTasks
    QueueCap = 2
    MaxSuspend = 1
SPECIFICATION Spec
PROPERTIES
    HandedTaskEventuallyHandled
CHECK_DEADLOCK FALSE
