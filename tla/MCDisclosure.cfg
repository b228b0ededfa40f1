\* Requests and a case over two records, sealed under one scalar or two.
SPECIFICATION Spec
CONSTANTS
    n1 = n1
    n2 = n2
    e1 = e1
    e2 = e2
    m1 = m1
    c1 = c1
    k1 = k1
    k2 = k2
    k3 = k3
    Receivables = {n1, n2}
    Ephemerals = {e1, e2}
    Matters = {m1}
    CaseRefs <- Refs
    Keyholders = {k1, k2, k3}
    CaseWidth = 2
    MaxRecords = 2
    MaxCases = 1
    Unused = Unused
    NoShare = NoShare
SYMMETRY KeyholderSymmetry
INVARIANTS
    SharesMatchApprovals
    MasksUsedOnce
    EveryOpeningIsVisible
    ApprovedDisclosuresOpen
