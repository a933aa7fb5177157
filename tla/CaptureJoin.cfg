\* start() against stop().  ClientHeldAlways and NothingLeaks are asked in the same way.
SPECIFICATION Spec
INVARIANT ThreadJoined
CHECK_DEADLOCK FALSE
