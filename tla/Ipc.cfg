SPECIFICATION Spec
CONSTANTS
    Callers = {c1, c2}
    MaxCalls = 3
    Absent = Absent
    Torn = Torn
    Nobody = Nobody
    Environments <- FailingEnvironments
SYMMETRY CallerSymmetry
INVARIANTS TypeOK NamedAnswerIsOwn ScreenshotIsOwn
PROPERTIES ImplementsRemoteCall
CHECK_DEADLOCK FALSE
