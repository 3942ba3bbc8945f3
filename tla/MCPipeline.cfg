CONSTANTS
    Resolution = 7
    ScrapeOffset = 0
    MaxParallelism = 2
    NumProcessors = 1
    MaxLateness = 1
    MaxStart = 14
    MaxTime = 21
    Sinks = {s1}
    NoBatch = NoBatch
    ScrapeTimeout = 0
    ProcessTime = 0
    ExportTimeouts = {2, 5}
SPECIFICATION PipelineFairSpec
INVARIANTS RoundsApart
PROPERTIES RoundsEnd FansOut
CHECK_DEADLOCK FALSE
