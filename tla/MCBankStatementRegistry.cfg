\* Registration, assignment and delivery by overlapping commands.
SPECIFICATION FairSpec
CONSTANTS
    a1 = a1
    a2 = a2
    e1 = e1
    e2 = e2
    b1 = b1
    c1 = c1
    c2 = c2
    k1 = k1
    k2 = k2
    n1 = n1
    n2 = n2
    p1 = p1
    p2 = p2
    p3 = p3
    first = first
    again = again
    changed = changed
    other = other
    s1 = s1
    s2 = s2
    Sessions = {s1, s2}
    Accounts = {a1, a2}
    Evidence = {e1, e2}
    Books = {b1}
    Charts = {c1, c2}
    Catalog <- SomeCatalog
    Keys = {k1, k2}
    Artifacts = {first, again, changed, other}
    Identities = {n1, n2}
    Payloads = {p1, p2, p3}
    Parsed <- SomeParsed
    Requests <- SomeRequests
    Registered <- FirstAccount
    StoreIsDurable = TRUE
    MaxCommands = 4
    NoRequest = NoRequest
    NoEnd = NoEnd
INVARIANTS TypeOK OnlyActiveBindingsCollide OneActiveBinding AnswersFitEvidence SameBytesSameStatement ReceiptHasBytes
PROPERTIES EveryCommandEnds
CHECK_DEADLOCK FALSE
