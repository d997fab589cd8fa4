SPECIFICATION Spec
CONSTANTS
    Blocks = 3
    Types = {"thinking", "text", "tool_use"}
    Sizes = {5}
    MaxDeltas = 1
    MaxTime = 2
    MaxLost = 1
    Interval = 1
    SampleChars = 4
INVARIANTS TypeOK ThinkingEndsOnce SummaryAddsUp LatenciesNest ProgressIsPaced GapMeasuredOnce
CHECK_DEADLOCK FALSE
