SPECIFICATION Spec
CONSTANTS
    a1 = a1
    a2 = a2
    a3 = a3
    Accounts <- MCAccounts
    Journals = {j1, j2, j3}
    Requests = {r1, r2}
    ThroughGateway = {r2}
    Drafts <- MCDrafts
INVARIANTS
    BooksBalance
    MismatchIsExplained
CHECK_DEADLOCK FALSE
