CONSTANTS
    Resolution = 10
    ScrapeOffset = 1
    MaxParallelism = 2
    NumProcessors = 1
    MaxLateness = 1
    MaxStart = 42
    MaxTime = 48
SPECIFICATION FairSpec
INVARIANTS SemaphoreConserved WindowsAdvance Contiguous StopBounded
PROPERTIES StopReceived
CHECK_DEADLOCK FALSE
