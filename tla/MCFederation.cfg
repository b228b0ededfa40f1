\* Lenders, the demonstration and the web panel over two registries.
SPECIFICATION ReadersSpec
CONSTANTS
    op = op
    op2 = op2
    d1 = d1
    s1 = s1
    fA = fA
    fB = fB
    None = None
    Operator = op
    PeerOperator = op2
    Debtors = {d1}
    Sellers = {s1}
    Financiers = {fA, fB}
    Invoices <- Offerings
    Ephemerals = {1}
    StrayTags <- NoTags
    CertIds = {}
    Floors = {}
    PoolWidth = 1
    MaxTime = 2
    Branch <- Branches
    subject <- Subject
    control <- Control
    clerk = fB
    Readers = {"lenders", "demo", "panel"}
    Orders = {"under"}
    Week = 1
    Ttl = 1
    Skews = {1}
    MaxPresses = 2
    PanelTime = 1
INVARIANTS
    AskedUnderOfferExclude
    EvidenceIsOnTheLedgers
PROPERTIES
    PanelAnswersHonestly
CHECK_DEADLOCK FALSE
