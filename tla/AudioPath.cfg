\* A ring of three slots whose numbers wrap after twelve packets.  Either the server sends
\* (two connections, a network of two packets that loses or reorders one), or anything may
\* arrive.  Every other bound is the smallest that lets a drain and both prefills happen.
CONSTANTS
    MAX_SLOTS = 3
    SEQ_MOD = 12
    target_buffer_frames = 2
    startup_target_frames = 3
    kStableArrivalCount = 3
    frames_per_packet = 2
    FrameCounts = {1, 2}
    PopSizes = {2, 3}
    DrainMargin = 1
    LargeBacklog = 2
    kDrainChunkFrames = 2
    kDrainFastChunkFrames = 3
    kDrainInterval = 2
    kDrainFastInterval = 1
    kDrainStartGrace = 1
    MaxPackets = 12
    MaxConnects = 2
    MaxFaults = 1
    NetLimit = 2
    CaptureFrames = 3
SPECIFICATION PathSpec
INVARIANTS WindowInv OffsetInv DrainKeepsTarget NewSessionHeard
PROPERTIES NoLiveOverwrite DryMeansEmpty PopReturns NeverPlayedBack
