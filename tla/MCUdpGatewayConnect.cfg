\* Connect-only gateway (no bind address); close() may report failure.
CONSTANTS
    Fds <- MCFds
    NAddrs = 2
    HasBindAddress = FALSE
    NonBlocking = TRUE
    CloseMayFail = TRUE
    MaxCalls = 3
SPECIFICATION Spec
INVARIANTS
    UsableWhenInitialized
\* After the last allowed call the gateway is left as it is.
CHECK_DEADLOCK FALSE
