\* stop() while the heartbeat thread shakes hands with a server that is gone.
CONSTANTS
    MaxRetry = 2
    reconnect_timeout = 0
    client_timeout = 1
    Reliable = TRUE
    MaxOutages = 1
SPECIFICATION Spec
PROPERTY StopReturns
CHECK_DEADLOCK FALSE
