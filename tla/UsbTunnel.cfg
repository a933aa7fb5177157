\* Two datagrams each way over a buffer with room for one frame and a part of the next.
CONSTANTS
    Payload <- BothWays
    ByteBase = 3
    kMaxFramePayload = 2
    Capacity = 7
    MaxBreaks = 1
SPECIFICATION Spec
INVARIANT NothingLostInside
PROPERTIES PcGetsOrderedDatagrams PhoneGetsOrderedDatagrams TunnelRecovers
CHECK_DEADLOCK FALSE
