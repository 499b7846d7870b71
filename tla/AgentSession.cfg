SPECIFICATION FairSpec
CONSTANTS
    k1 = k1
    k2 = k2
    None = None
    Creds <- MCCreds
    MaxConns = 2
    MaxInputs = 2
    MaxFaults = 1
INVARIANTS
    SavedIsAuthentic
    
PROPERTIES
    HostsShell
    InputInOrder
    EndRecorded
    ExitEndsSession
\* The agent opens MaxConns connections and no more
CHECK_DEADLOCK FALSE
