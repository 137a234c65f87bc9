\* A client whose whole quorum colludes.
CONSTANTS
    Measurements = {a, b}
    Logs = {l1, l2}
    Witnesses = {w1}
    Colluding = {w1}
    Clients = {c1}
    Quorum = 1
    Trusted <- TrustAll
    Threshold <- SameThreshold
    MaxSize = 2
    FalseSizes = {}
    None = None
SPECIFICATION Spec
SYMMETRY Symmetry
CHECK_DEADLOCK FALSE
INVARIANT
    TrustsConsistentHeads
