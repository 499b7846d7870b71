\* Four chunks over three connections, either backend.
SPECIFICATION FairSpec
CONSTANTS
    MaxChunks = 4
    MaxConns = 3
INVARIANTS
    LossBounded
    EndIsLast
PROPERTIES
    
    EndIsSeen
\* The session is over once the end of the output is read, and the bounds stop the rest.
CHECK_DEADLOCK FALSE
