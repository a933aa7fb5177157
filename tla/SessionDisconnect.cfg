\* The same over a network that loses and reorders nothing.
CONSTANTS
    MaxRetry = 2
    reconnect_timeout = 0
    client_timeout = 1
    Reliable = TRUE
    MaxOutages = 0
SPECIFICATION Spec
INVARIANT StopDisconnects
CHECK_DEADLOCK FALSE
