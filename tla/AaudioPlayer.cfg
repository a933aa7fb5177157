SPECIFICATION Spec
CONSTANTS
    FifoChunks = 1
    kStallRebuildThreshold = 2
    kMaxStallRebuilds = 3
    Platforms = {"hostile", "reopens", "deep"}
INVARIANTS NoStreamLeak DeepDeviceKept
PROPERTIES CloseReturns ReopenableStreamGivenUp WriterReturns
