\* Three concurrent requests of two callers, room in the budget for two.
SPECIFICATION Spec
CONSTANTS
    r1 = r1
    r2 = r2
    r3 = r3
    None = None
    Requests = {r1, r2, r3}
    Connections <- Arrivals
    TrustedProxies = {"proxy"}
    Hops = 1
    MaxLives = 2
    Txs <- MixedTxs
    Contracts <- Registries
    Circuits <- Sponsored
    MaxActions = 2
    MaxFee = 2
    Budget = 5
    MaxRequests = 1
    Window = 1
    Fees = {2, 3}
    MaxTime = 1
SYMMETRY RequestSymmetry
INVARIANTS
    ExposureWithinBudget
    EveryLandingIsCounted
    AnswersAreTrue
    BucketsAreTheCallersOwn
