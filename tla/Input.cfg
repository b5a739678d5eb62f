SPECIFICATION FairSpec
CONSTANTS
    Buttons = {a, b}
    Angles = {turned}
    Durations = {0, 1, 2}
    DefaultPress = 3
    FrameTimes = {1, 4}
    MaxCommands = 3
    Games <- AllGames
INVARIANTS TypeOK EdgesExplainLevel CallbacksSettle NoLeakWhileReleased NeverDeaf DockNeedsCrank
PROPERTIES TimedOverridesEnd
