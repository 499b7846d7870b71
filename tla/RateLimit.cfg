SPECIFICATION Spec
CONSTANTS
    Attempts = {a1, a2, a3, a4}
    Addresses = {i1}
    Tokens = {t1}
    Devices = {d1}
    None = None
    Window = 2
    IpMax = 3
    TokenTtl = 1
    TokenMax = 2
    MaxDelay = 1
    MaxTime = 4
SYMMETRY Symmetry
INVARIANTS
    TypeOK
    WindowCap
    RefusedForCause
    GuessCap
    LimitedForCause
    SingleUse
    AgentOutlivesToken
\* The clock stops at MaxTime and every attempt ends
CHECK_DEADLOCK FALSE
