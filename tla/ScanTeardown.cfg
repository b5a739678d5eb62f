SPECIFICATION Spec
CONSTANTS
    Beginnings <- MCBeginnings
    Alphabet <- MCAlphabet
INVARIANT TeardownReverses
CHECK_DEADLOCK FALSE
