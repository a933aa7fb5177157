\* Commands that outlast two files of the code's pool.
SPECIFICATION Spec
CONSTANTS
    kPoolSize = 4
    Prefill = 1
    SegmentChunks = 2
    Reliability = {TRUE}
PROPERTY RingNeverCollides
