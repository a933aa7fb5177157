SPECIFICATION CaptureSpec
INVARIANT ClientHeldWhileUsed
PROPERTY ShutdownEnds
CHECK_DEADLOCK FALSE
