\* Two authorities, two epochs, up to three transactions.
CONSTANTS
    Authorities = {x, y}
    Epochs = {e1, e2}
    Roots = {r, s}
    Commitments = {p, q}
    Txs = {t1, t2, t3}
    None = None
SPECIFICATION Spec
SYMMETRY Symmetry
CHECK_DEADLOCK FALSE
INVARIANTS
    TypeOK
    EntriesHaveOneAuthor
    WitnessSetsHaveOneAuthor
PROPERTIES
    EntriesAreWriteOnce
