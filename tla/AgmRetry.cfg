\* A recovery that fails.  SoundComesBack, StreamSettles and ClosedHasNoFifo are asked under
\* the same constant.
CONSTANT MaxFaults = 2
SPECIFICATION Spec
PROPERTY RespawnRetried
CHECK_DEADLOCK FALSE
