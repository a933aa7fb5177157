\* close() against the playback thread.  NoBacklog is asked under the same constants.
CONSTANTS
    Nodes = 2
    LibNames = 2
    MaxStaging = 4
SPECIFICATION Spec
INVARIANT OpenDeviceUsed
CHECK_DEADLOCK FALSE
