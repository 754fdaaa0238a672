\* Gateway with a bind address; close() may report failure.
CONSTANTS
    Fds <- MCFds
    NAddrs = 2
    HasBindAddress = TRUE
    NonBlocking = TRUE
    CloseMayFail = TRUE
    MaxCalls = 3
SPECIFICATION Spec
INVARIANTS
    TypeOK
    
\* After the last allowed call the gateway is left as it is.
CHECK_DEADLOCK FALSE
