\* Two log objects of up to five leaves; 4-bit sizes, so that claimed sizes
\* reach beyond half the range, where the verifiers' shifts wrap.
CONSTANTS
    Measurements = {a, b}
    Logs = {l1, l2}
    MaxSize = 5
    Width = 4
SPECIFICATION Spec
SYMMETRY Symmetry
CHECK_DEADLOCK FALSE
INVARIANTS
    TypeOK
    ConsistencyComplete
    ConsistencySound
    InclusionComplete
    InclusionSound
    ProofsAreExtension
    EveryShapeVerifies
    ForgedPathsExtend
