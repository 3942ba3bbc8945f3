CONSTANTS
    Readers = {r1, r2}
    Concurrency = 2
    MaxChunks = 3
    MaxExports = 2
    MinInterval = 1
    ExtraWorkers = 1
    PerWorker = 2
    MaxRequests = 2
    MaxTimestamp = 2
SPECIFICATION MCSpec
INVARIANTS ClientBeforeUse ResetIsWhole RequestsAccounted
PROPERTIES ExportEnds WorkersCancelled
CHECK_DEADLOCK FALSE
