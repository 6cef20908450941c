SPECIFICATION Spec
CONSTANT MaxQueue = 1
PROPERTY NoConnectOnceDestroyed
CHECK_DEADLOCK FALSE
