\* An AAudio stream that gives up after it was installed.
CONSTANTS
    device_kind = "aaudio"
    pulse_worth_trying = FALSE
    kMaxPulseOpenAttempts = 1
    kMaxAaudioOpenAttempts = 1
    kMaxTermuxOpenAttempts = 1
    kMaxAgmOpenAttempts = 1
    kMaxNodeOpenAttempts = 1
    MaxSpawned = 2
SPECIFICATION FairSpec
CHECK_DEADLOCK FALSE
PROPERTY DeadBackendReplaced
