SPECIFICATION FairSpec
CONSTANTS
    Callers = {c1, c2}
    MaxCalls = 2
    Absent = Absent
    Torn = Torn
    Nobody = Nobody
    Environments <- LiveEnvironments
INVARIANTS AnswerIsOwn
PROPERTIES Answered Returns
CHECK_DEADLOCK FALSE
