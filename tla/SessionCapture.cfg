\* A reliable network, and a server that comes back with a capture engine that does not
\* start.
CONSTANTS
    MaxRetry = 2
    reconnect_timeout = 0
    client_timeout = 1
    Reliable = TRUE
    MaxOutages = 1
SPECIFICATION Spec
PROPERTY SilentServerLeft
CHECK_DEADLOCK FALSE
