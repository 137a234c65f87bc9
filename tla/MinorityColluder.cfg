\* Two of three witnesses convince, one of them colludes: 2 * 2 = 3 + 1.
CONSTANTS
    Measurements = {a, b}
    Logs = {l1, l2}
    Witnesses = {w1, w2, w3}
    Colluding = {w3}
    Clients = {c1, c2}
    Quorum = 2
    Trusted <- TrustAll
    Threshold <- SameThreshold
    MaxSize = 1
    FalseSizes = {}
    None = None
SPECIFICATION Spec
SYMMETRY Symmetry
CHECK_DEADLOCK FALSE
INVARIANT
    MinorityCannotSplit
