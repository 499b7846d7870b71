SPECIFICATION Spec
CONSTANTS
    Conns = {c1, c2, c3, c4}
    Addresses = {i1, i2}
    MaxPerIp = 2
INVARIANTS
    CountExact
    CapHeld
CHECK_DEADLOCK FALSE
