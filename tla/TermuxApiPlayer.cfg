\* The code's pool, with an app and a disk that do what they are told or fail at will.
SPECIFICATION Spec
CONSTANTS
    kPoolSize = 4
    Prefill = 1
    SegmentChunks = 2
    Reliability = {TRUE, FALSE}
INVARIANT HandoverNotMissed
PROPERTIES ReliableFilesIntact PlaybackRecovers
