\* Two sessions served by one operator with two logs, beside somebody else's
\* log; one key release.
CONSTANTS
    Measurements = {a, b}
    Logs = {mine, mine_too, other}
    Operated = {mine, mine_too}
    Sessions = {s1, s2}
    Nonces = {s1, s2}
    NonceOf <- OwnNonce
    Malformed = Malformed
    FalseSizes = {2}
    None = None
    MaxSize = 2
    MaxLeaves = 3
    MaxQuotes = 1
    MaxIssued = 1
SPECIFICATION Spec
SYMMETRY Symmetry
CHECK_DEADLOCK FALSE
INVARIANTS
    TypeOK
    SessionsShareOneRecord
    OperatorIsAccountable
    QuotesAreNotReused
    KeysAreNotRetargeted
    IssuedReceiptsWork
