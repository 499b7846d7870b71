SPECIFICATION Spec
CONSTANTS
    a1 = a1
    a2 = a2
    c1 = c1
    c2 = c2
    d1 = d1
    None = None
    Agents <- TwoAgents
    Clients <- TwoClients
    Paired <- OneDevice
    MaxSeq = 5
SYMMETRY Symmetry
INVARIANTS
    PeerAgreed
    CompletionMeant
    HeardPeer
    ResumeByHolder
PROPERTIES
    KeepsAgreement
\* Connections end, and the bounds stop the rest.
CHECK_DEADLOCK FALSE
