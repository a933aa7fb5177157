\* Two frames in one recv() and nothing after them.
CONSTANTS
    Payload <- BothWays
    ByteBase = 3
    kMaxFramePayload = 2
    Capacity = 12
    MaxBreaks = 0
SPECIFICATION Spec
PROPERTY CompleteFrameDelivered
CHECK_DEADLOCK FALSE
