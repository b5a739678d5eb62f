SPECIFICATION FairSpec
CONSTANTS
    Settings <- AllSettings
INVARIANTS FailedLaunchLeavesNothing NothingOutlives
PROPERTIES StrangerSpared DoctorReturns
CHECK_DEADLOCK FALSE
