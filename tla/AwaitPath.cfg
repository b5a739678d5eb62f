SPECIFICATION Spec
CONSTANTS
    Timeout = 8
    Backstop = 3
    Poll = 1
    Settings <- AllSettings
INVARIANTS EndsOnTime NeverSleepsOnIt
CHECK_DEADLOCK FALSE
