SPECIFICATION Spec
CONSTANTS
    a = a
    b = b
    Q = 7
    Draws <- TwoDraws
    Tabs <- Pages
    MaxCeremonies = 2
    MaxFailures = 1
    NoFile = NoFile
INVARIANTS
    TwoOfThreeOpen
    AuditAgreesWithConstructor
    DealtKeysOpen
    SealedKeysWereOnFile
SYMMETRY PageSymmetry
CHECK_DEADLOCK FALSE
