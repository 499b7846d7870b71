SPECIFICATION FairSpec
CONSTANTS
    a1 = a1
    a2 = a2
    c1 = c1
    c2 = c2
    s1 = s1
    s2 = s2
    t1 = t1
    d1 = d1
    None = None
    Agents <- OneAgent
    Clients <- TwoClients
    Sids <- OneSid
    Tokens <- OneToken
    Devices <- OneDevice
    MaxFaults = 1
INVARIANTS
    TypeOK
    Exclusive
    
    RecordHasOwner
PROPERTIES
    AuthNotInherited
    FollowsLifecycle
    SessionFreed
    HandshakeEnds
\* A connection is accepted once: when all have ended, nothing is left to do
CHECK_DEADLOCK FALSE
