\* A lossy network that reorders, and a server that goes away once.
CONSTANTS
    MaxRetry = 2
    reconnect_timeout = 0
    client_timeout = 1
    Reliable = FALSE
    MaxOutages = 1
SPECIFICATION Spec
PROPERTIES ServerFreed Reconnects
CHECK_DEADLOCK FALSE
