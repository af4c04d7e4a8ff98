SPECIFICATION Spec
CONSTANTS
    Windows = {w1, w2}
    Items = {i1, i2}
    MaxJobs = 2
    MaxMoves = 1
    NoJob = NoJob
    NoWindow = NoWindow
    Nothing = Nothing
CHECK_DEADLOCK FALSE
INVARIANT StopEndsMacro
