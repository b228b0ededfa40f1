\* Submissions over connections that may be lost at any time.
SPECIFICATION FairSpec
CONSTANTS
    Submissions = {1, 2}
    Couriers <- TwoAndOne
    MaxConnections = 3
    MaxDrops = 1
INVARIANTS
    OutcomesStand
PROPERTIES
    WatchedSubmissionsSettle
CHECK_DEADLOCK FALSE
