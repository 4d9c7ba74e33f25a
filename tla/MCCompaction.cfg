SPECIFICATION CompactionSpec
CONSTANTS
    KeepRecent = 2
    MaxCollapse = 5
    MinGrowth = 2
    MaxRanges = 1
    ToolSets <- MCToolSets
    Limits <- MCLimits
INVARIANTS NothingForgotten PairsKept LiveIsRebuilt IdleTurnIsOwn
CHECK_DEADLOCK FALSE
