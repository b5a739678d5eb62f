SPECIFICATION FairSpec
CONSTANTS
    Callers = {c1, c2}
    MaxCalls = 3
    Absent = Absent
    Torn = Torn
    Nobody = Nobody
    Environments <- LateEnvironments
PROPERTIES OnlyOtherIdsDiscarded
CHECK_DEADLOCK FALSE
