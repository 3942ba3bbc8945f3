CONSTANTS
    Resolution = 2
    ScrapeOffset = 2
    MaxParallelism = 2
    NumProcessors = 1
    MaxLateness = 0
    MaxStart = 11
    MaxTime = 12
SPECIFICATION Spec
INVARIANTS Contiguous
CHECK_DEADLOCK FALSE
