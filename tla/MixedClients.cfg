\* Clients of three policies whose quorums overlap in an honest witness.
CONSTANTS
    Measurements = {a, b}
    Logs = {l1, l2}
    w1 = w1
    w2 = w2
    w3 = w3
    w4 = w4
    three_of_four = three_of_four
    two_of_two = two_of_two
    zero = zero
    Witnesses <- AllWitnesses
    Colluding <- OneColluder
    Clients <- ThreeClients
    Trusted <- OwnWitnesses
    Threshold <- OwnThreshold
    MaxSize = 2
    FalseSizes = {}
    None = None
SPECIFICATION Spec
SYMMETRY Symmetry
CHECK_DEADLOCK FALSE
INVARIANTS
    HonestCosignsOneHistory
    LastDominates
    TrustNeedsQuorum
    NoSplitView
PROPERTIES
    ImplementsOneHistory
