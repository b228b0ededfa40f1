\* Both tools, until a console run has been recorded to its end.
SPECIFICATION VerifySpec
CONSTANTS
    op = op
    d1 = d1
    s1 = s1
    fA = fA
    fB = fB
    k1 = k1
    k2 = k2
    k3 = k3
    None = None
    Operator = op
    Debtors = {d1}
    Sellers = {s1}
    Financiers = {fA, fB}
    Invoices <- AllInvoices
    Ephemerals = {1, 2, 3}
    StrayTags <- NoTags
    CertIds = {1}
    Floors = {2, 9}
    PoolWidth = 2
    MaxTime = 2
    lenderA = fA
    lenderB = fB
    main <- Main
    forged <- Forged
    inflated <- Inflated
    pool <- Pool
    certId = 1
    floor = 2
    overstatedFloor = 9
    validUntil = 2
    offerExpiry <- Expiries
    caseRef = caseRef
    insolvencyRef = insolvencyRef
    keyholder1 = k1
    keyholder2 = k2
    keyholder3 = k3
    CaseWidth = 2
    Unused = Unused
    NoShare = NoShare
    MaxVisits = 0
INVARIANTS
    ConsoleEvidenceVerifies
CHECK_DEADLOCK FALSE
