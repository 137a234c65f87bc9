\* Two logs of up to two leaves published on one ledger.
CONSTANTS
    Measurements = {a, b}
    Logs = {l1, l2}
    Commitments = {p, q}
    MaxSize = 2
    FalseSizes = {2}
    None = None
SPECIFICATION Spec
SYMMETRY Symmetry
CHECK_DEADLOCK FALSE
INVARIANTS
    TypeOK
    ReliedHeadsStand
    AnswersStand
PROPERTIES
    EpochsAreWriteOnce
