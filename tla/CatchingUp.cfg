\* Two honest witnesses and two clients.  No symmetry: liveness is checked.
CONSTANTS
    Measurements = {a, b}
    Logs = {l1, l2}
    Witnesses = {w1, w2}
    Colluding = {}
    either = either
    both = both
    Clients <- TwoClients
    Trusted <- TrustAll
    Threshold <- OwnThreshold
    MaxSize = 2
    FalseSizes = {}
    None = None
SPECIFICATION FairSpec
CHECK_DEADLOCK FALSE
INVARIANTS
    TypeOK
    TablesAgree
    FollowersCanCatchUp
PROPERTIES
    AnchorsOnlyExtend
    WitnessesCatchUp
    OneLogConvinces
