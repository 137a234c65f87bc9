\* One pinned session; a threshold of 4 is published for a single witness.
CONSTANTS
    Measurements = {a, b}
    Logs = {l1, l2}
    h1 = h1
    h2 = h2
    x = x
    pinned = pinned
    scripted = scripted
    gossiping = gossiping
    Keys <- AllKeys
    Colluding <- OneColluder
    Pinned <- OnePinned
    Scripted = {}
    Gossiping = {}
    Own <- OwnPolicy
    Policies <- OperatorPolicies
    SampleWitnesses <- Sample
    MalformedKey = MalformedKey
    U32 = 3
    Usize = 6
    MaxList = 2
    MaxBundle = 2
    MaxSize = 1
    FalseSizes = {}
    None = None
SPECIFICATION Spec
SYMMETRY Symmetry
CHECK_DEADLOCK FALSE
INVARIANT
    WeakenedThresholdsAreDetected
