SPECIFICATION Spec
CONSTANTS
    Beginnings <- MCBeginnings
    Alphabet <- MCAlphabet
INVARIANTS CCodeIsRight  IncludeIsCode  TeardownReversesMost
CHECK_DEADLOCK FALSE
