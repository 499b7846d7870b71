\* Two connections are enough for two threads.
SPECIFICATION Spec
CONSTANTS
    MaxChunks = 1
    MaxConns = 2
INVARIANT OneReader
CHECK_DEADLOCK FALSE
