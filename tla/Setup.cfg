SPECIFICATION Spec
CONSTANTS
    CFiles <- MCCFiles
    Sources <- MCSources
    References <- MCReferences
    Games <- MCGames
    MaxVersion = 2
    MaxCalls = 3
    MaxEdits = 2
    NoFile = NoFile
INVARIANTS GameKept TeardownIsWhole WiredOrTold Resumable
PROPERTIES NothingDangling
CHECK_DEADLOCK FALSE
