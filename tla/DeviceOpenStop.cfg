\* A device opened across stop().
CONSTANTS
    device_kind = "node"
    pulse_worth_trying = FALSE
    kMaxPulseOpenAttempts = 1
    kMaxAaudioOpenAttempts = 1
    kMaxTermuxOpenAttempts = 1
    kMaxAgmOpenAttempts = 1
    kMaxNodeOpenAttempts = 1
    MaxSpawned = 1
SPECIFICATION Spec
CHECK_DEADLOCK FALSE
INVARIANT StoppedClosesDevice
