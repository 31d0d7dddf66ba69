SPECIFICATION IntakeSpec
CONSTANTS
  t1 = t1
  b1 = b1
  k1 = k1
  k2 = k2
  c1 = c1
  NoRef = NoRef
  NoProposal = NoProposal
  NoCursor = NoCursor
  NewCursor = NewCursor
  Tenants = {t1}
  Books = {b1}
  Dates = {1, 2}
  Ids = {"p1", "p2", "p3", "p4"}
  Roles <- MCRoles
  Amounts = {0, 1}
  Proposals <- MCProposals
  ReversalCommands <- MCReversals
  Policies <- MCPolicies
  Pages <- MCPages
  MaxPages = 2
  MaxCommands = 3
INVARIANTS
  CachesMatchJournals
  ReversedJournalsCancel
  OneEventPerJournal
  PullAccountsForEveryItem
  NoPageTwice
  AnswersAgree
  RefusalsAreFinal
PROPERTIES
  EveryPullEnds
CHECK_DEADLOCK FALSE
