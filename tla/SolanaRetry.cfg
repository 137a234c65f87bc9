\* One authority publishes one root and may send the call again.
CONSTANTS
    Authorities = {x}
    Epochs = {e1}
    Roots = {r}
    Commitments = {p}
    Txs = {t1, t2}
    None = None
SPECIFICATION Spec
CHECK_DEADLOCK FALSE
INVARIANT
    RefusedOnlyIfDifferent
