\* Two calls, interleaved at every await, over the ledger they change.
SPECIFICATION FairCallsSpec
CONSTANTS
    op = op
    d1 = d1
    d2 = d2
    s1 = s1
    f1 = f1
    f2 = f2
    None = None
    Operator = op
    Debtors = {d1, d2}
    Sellers = {s1}
    Financiers = {f1, f2}
    Invoices <- Bills
    Ephemerals = {1}
    StrayTags <- NoTags
    CertIds = {}
    Floors = {}
    PoolWidth = 1
    MaxTime = 2
    Requests <- AllRequests
    Beginnings <- NewAndUnderWay
    MaxCalls = 2
INVARIANTS
    OnlyOwnCallsInterfere
PROPERTIES
    EveryCallEnds
CHECK_DEADLOCK FALSE
