\* Gateway with a bind address: the bound socket is overwritten by the connect loop.
CONSTANTS
    Fds <- MCFds
    NAddrs = 2
    HasBindAddress = TRUE
    NonBlocking = TRUE
    CloseMayFail = FALSE
    MaxCalls = 3
SPECIFICATION Spec
INVARIANTS
    NoFdLeak
\* After the last allowed call the gateway is left as it is.
CHECK_DEADLOCK FALSE
