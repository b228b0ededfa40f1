\* Two reissues of one debt beside another debt, a stray tag, one ephemeral drawn again and
\* again, pools and certificates of up to two slots.
SPECIFICATION Spec
CONSTANTS
    op = op
    d1 = d1
    s1 = s1
    s2 = s2
    f1 = f1
    f2 = f2
    None = None
    Operator = op
    Debtors = {d1}
    Sellers = {s1, s2}
    Financiers = {f1, f2}
    Invoices <- ThreeInvoices
    Ephemerals = {1}
    StrayTags <- OddTags
    CertIds = {1}
    Floors = {0, 3}
    PoolWidth = 2
    MaxTime = 2
SYMMETRY FinancierSymmetry
INVARIANTS
    OneFinancingPerDebt
    PledgesAreAcknowledged
    LenderIsSecured
    ProceedsConserved
    RecordNamesHolder
    CertificateBacked
PROPERTIES
    EncumbranceStands
    ImplementsReceivables
