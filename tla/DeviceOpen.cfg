\* PulseAudio, then AAudio; each open may hang, fail or succeed late.
CONSTANTS
    device_kind = "alsa"
    pulse_worth_trying = TRUE
    kMaxPulseOpenAttempts = 1
    kMaxAaudioOpenAttempts = 1
    kMaxTermuxOpenAttempts = 1
    kMaxAgmOpenAttempts = 1
    kMaxNodeOpenAttempts = 1
    MaxSpawned = 2
SPECIFICATION FairSpec
CHECK_DEADLOCK FALSE
INVARIANT OneBackend
PROPERTIES LiveBackendKept OpenedDeviceIsUsed StopReturns
