\* close() of a player whose daemon takes no more samples.
CONSTANT kWriteFailuresBeforeReconnect = 3
SPECIFICATION Spec
PROPERTY ClosePlayerUnblocksPlayback
CHECK_DEADLOCK FALSE
