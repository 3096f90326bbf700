CONSTANTS
    Sessions = {u1, u2}
    Layouts = {"part", "image"}
    MaxCuts = 2
    Old = old
SPECIFICATION MCFairSpec
INVARIANTS CompletedOnNewSystem
PROPERTIES ReplacesByItsOwn StartsWholeSystems SuccessRuns CaptureEnds PausesEnd
CHECK_DEADLOCK FALSE
