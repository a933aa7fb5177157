SPECIFICATION Spec
PROPERTY LostDeviceReplaced
CHECK_DEADLOCK FALSE
