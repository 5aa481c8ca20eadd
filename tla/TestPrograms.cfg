SPECIFICATION FairSpec
CONSTANTS
    Clients = {c1, c2}
    NoClient = NoClient
    MAX_REQUESTS = 2
    Slow = {c1}
INVARIANTS
    NoFailures
    FreedOnlyAfterServer
    KilledOnlyInCompany
PROPERTIES
    TestEnds
