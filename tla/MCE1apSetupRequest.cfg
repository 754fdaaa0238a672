\* Every optional field of the request is flagged in the built message, and every PDU session carried once.  Each call returns, so deadlock is not checked.
CONSTANTS
    Requests <- MCRequests
SPECIFICATION Spec
INVARIANTS TypeOK OptionalsEncoded
CHECK_DEADLOCK FALSE
