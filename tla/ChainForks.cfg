\* The same; do clients of the chain see one history?
CONSTANTS
    Measurements = {a, b}
    Logs = {l1, l2}
    Commitments = {p}
    MaxSize = 2
    FalseSizes = {}
    None = None
SPECIFICATION Spec
SYMMETRY Symmetry
CHECK_DEADLOCK FALSE
INVARIANT
    ReliedOneHistory
