\* Does the stability gate hold back a re-buffer?
CONSTANTS
    MAX_SLOTS = 4
    SEQ_MOD = 12
    target_buffer_frames = 2
    startup_target_frames = 3
    kStableArrivalCount = 3
    frames_per_packet = 2
    FrameCounts = {1}
    PopSizes = {1, 3}
    DrainMargin = 1
    LargeBacklog = 2
    kDrainChunkFrames = 2
    kDrainFastChunkFrames = 3
    kDrainInterval = 2
    kDrainFastInterval = 1
    kDrainStartGrace = 1
SPECIFICATION FairSpec
PROPERTY RebufferGate
