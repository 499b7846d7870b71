SPECIFICATION Spec
CONSTANTS
    k1 = k1
    k2 = k2
    None = None
    Creds <- MCCreds
    MaxConns = 2
    MaxInputs = 2
    MaxFaults = 1
INVARIANTS
    NotStranded
\* The agent opens MaxConns connections and no more
CHECK_DEADLOCK FALSE
