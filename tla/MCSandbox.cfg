SPECIFICATION FairSpec
CONSTANTS
    Nobody = Nobody
    MaxIncidents = 1
    NoLoop = NoLoop
    NoWorld = NoWorld
    NoCall = NoCall
    MaxPresses = 6
    DeskRefs = {"1001", "1002"}
    OfferTerms = {7, 80}
INVARIANTS
    ResultsAreTheScripts
    RewindIsExact
    WorkspacesAreHonest
PROPERTIES
    ReloadKeepsTheWorld
    RunReachesTheEnd
CHECK_DEADLOCK FALSE
