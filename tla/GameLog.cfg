SPECIFICATION Spec
CONSTANTS
    MaxEntries = 4
    Sizes = {1, 2, 4, 5}
    Cap = 3
    LineMax = 4
    MaxRuns = 2
    MayFail = {"open", "rename"}
INVARIANTS InOrder KeepsRecent Bounded ReadsNeverFail
CHECK_DEADLOCK FALSE
