SPECIFICATION Spec
CONSTANTS
    Periods <- MCPeriods
    Year <- MCYear
    EndDay <- MCEndDay
    Accounts <- MCAccounts
    Class <- MCClass
    RoleOf <- MCRoleOf
    Entries <- MCEntries
    NoSnapshot = NoSnapshot
    Filers = {f1, f2}
    FilingKeys = {k1}
    Evidence = {h1}
    ReversalKeys = {"none", "unapplied_cash_application", "invoice_draft"}
    ReportedPeriods = {3}
    MaxJournals = 3
    MaxWrites = 4
    MaxReported = 1
INVARIANTS
    PackageTiesOut
    RollforwardTiesOutInOrder
    WorkingPapersTieOut
    AgingIsOldestFirst
    CloseParksIncomeOnly
    FilingAnswersItsReceipt
SYMMETRY Symmetry
CHECK_DEADLOCK FALSE
