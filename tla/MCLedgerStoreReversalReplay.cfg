\* A reversal retried after its period hard-closed.
SPECIFICATION Spec
CONSTANTS
    s1 = s1
    s2 = s2
    s3 = s3
    b1 = b1
    b2 = b2
    i1 = i1
    i2 = i2
    k1 = k1
    k2 = k2
    k3 = k3
    k4 = k4
    h1 = h1
    h2 = h2
    Sessions = {s1}
    Books = {b1}
    Periods = {1}
    Ids = {i1, i2}
    Keys <- SomeKeys
    Hashes = {h1, h2}
    Amounts <- SmallAmounts
    Requests <- ReversalRequests
    InitiallyOpen = {1}
    MappedBooks = {b1}
    ClosingWriter = TRUE
    MaxCommands = 4
    NoRequest = NoRequest
    NoRef = NoRef
PROPERTIES ReversalReplayIsNotRefused
SYMMETRY SessionSymmetry
CHECK_DEADLOCK FALSE
