\* The failure threshold of the code; two candidates in each loop of the ALSA open;
\* two faults of the phone, so that one can hit the recovery from the other.
CONSTANTS
    kWriteFailuresBeforeReconnect = 3
    Nodes = 2
    LibNames = 2
    MaxStaging = 4
    MaxFaults = 2
SPECIFICATION Spec
INVARIANTS NothingLeaks NoOrphanAgmplay
PROPERTIES CloseReturns CloseUnblocksWriter RestartSurvived PreemptionRecovered
CHECK_DEADLOCK FALSE
