SPECIFICATION Spec
CONSTANTS
    FifoChunks = 1
    kStallRebuildThreshold = 2
    kMaxStallRebuilds = 3
    Platforms = {"deep"}
INVARIANT TeardownExcludesWrite
