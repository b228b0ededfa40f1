\* A deployment of three maintenance keys, with up to three failures.
SPECIFICATION FairSpec
CONSTANTS
    acceptBatch = acceptBatch
    release = release
    certifyBorrowingBase = certifyBorrowingBase
    Maintenance <- ThreeCircuits
    MaxFailures = 3
    MaxTroubles = 1
    NoTx = NoTx
    Void = Void
INVARIANTS
    OneRegistryUnlessLost
    RecordNamesInsertions
PROPERTIES
    ProgressIsKept
    EventuallyCompletes
