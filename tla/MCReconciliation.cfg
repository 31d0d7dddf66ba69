SPECIFICATION Spec
CONSTANTS
    p1 = p1
    x1 = x1
    a1 = a1
    s1 = s1
    s2 = s2
    NoReference = NoReference
    Statement <- MCStatement
    Populations <- MCPopulations
    Journals <- MCJournals
    Window = 1
    Bridges <- MCBridges
    Preceding <- MCPreceding
    Scopes = {s1, s2}
    MaxCandidates = 3
INVARIANTS
    MatchedEvidenceAgrees
    AllocationsConserve
    SuitableReviewIsComplete
PROPERTIES
    NewEvidenceNeverRedirects
