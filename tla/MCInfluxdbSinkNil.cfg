CONSTANTS
    Readers = {r1}
    Concurrency = 2
    MaxChunks = 2
    MaxExports = 1
SPECIFICATION Spec
INVARIANTS ClientRetriedOnUse
CHECK_DEADLOCK FALSE
