\* close() against a write_frames() that has passed its is_open_ check.
CONSTANT kWriteFailuresBeforeReconnect = 3
SPECIFICATION Spec
INVARIANT ClosedHasNoStream
CHECK_DEADLOCK FALSE
