\* A reconnection under a playing client.  FreshAudio is asked under the same constants.
CONSTANTS
    MAX_SLOTS = 3
    SEQ_MOD = 12
    target_buffer_frames = 2
    startup_target_frames = 3
    kStableArrivalCount = 3
    frames_per_packet = 2
    FrameCounts = {1, 2}
    PopSizes = {2, 3}
    DrainMargin = 1
    LargeBacklog = 2
    kDrainChunkFrames = 2
    kDrainFastChunkFrames = 3
    kDrainInterval = 2
    kDrainFastInterval = 1
    kDrainStartGrace = 1
    MaxPackets = 12
    MaxConnects = 2
    MaxFaults = 1
    NetLimit = 2
    CaptureFrames = 3
SPECIFICATION PathSpec

PROPERTIES PlayedInOrder
