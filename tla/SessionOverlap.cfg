SPECIFICATION FairSpec
CONSTANTS
    Callers = {c1, c2}
    Games = {g1}
    MaxLaunches = 3
    MaxShots = 2
    Nobody = Nobody
    Settings <- OverlapSettings
PROPERTIES RemovedWhenStopped
CHECK_DEADLOCK FALSE
