SPECIFICATION LiveSpec
CHECK_DEADLOCK FALSE
CONSTANTS
    MaxQueueSize = 2
    MaxRedecode = 2
    MaxReaders = 4
INVARIANTS
    TypeOK
    OneReader
    FramesAreTheReaders
    RetryFindsItEnded
PROPERTIES
    StopReturns
