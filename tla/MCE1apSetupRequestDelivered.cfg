\* The caller's message receives the translation.  Each call returns, so deadlock is not checked.
CONSTANTS
    Requests <- MCRequests
SPECIFICATION Spec
INVARIANTS RequestDelivered
CHECK_DEADLOCK FALSE
