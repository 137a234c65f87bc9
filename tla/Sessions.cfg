\* One session of each kind.  A u32 overflows at 3, a usize at 6.
CONSTANTS
    Measurements = {a, b}
    Logs = {l1, l2}
    h1 = h1
    h2 = h2
    x = x
    pinned = pinned
    scripted = scripted
    gossiping = gossiping
    Keys <- AllKeys
    Colluding <- OneColluder
    Pinned <- OnePinned
    Scripted <- OneScripted
    Gossiping <- OneGossiping
    Own <- OwnPolicy
    Policies <- OperatorPolicies
    SampleWitnesses <- Sample
    MalformedKey = MalformedKey
    U32 = 3
    Usize = 6
    MaxList = 2
    MaxBundle = 2
    MaxSize = 2
    FalseSizes = {1}
    None = None
SPECIFICATION Spec
SYMMETRY Symmetry
CHECK_DEADLOCK FALSE
INVARIANTS
    TypeOK
    TrustIsGrounded
    SessionsShareOneHistory
    QuorumConvinces
    UsableInAnyOrder
    SamplesVerify
