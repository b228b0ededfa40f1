\* One failure.
SPECIFICATION FairSpec
CONSTANTS
    acceptBatch = acceptBatch
    release = release
    certifyBorrowingBase = certifyBorrowingBase
    Maintenance <- ThreeCircuits
    MaxFailures = 1
    MaxTroubles = 1
    NoTx = NoTx
    Void = Void
INVARIANTS
    CompletedMeansEveryKey
