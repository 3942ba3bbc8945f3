CONSTANTS
    k1 = k1
    k2 = k2
    k3 = k3
    Drivers <- AllDrivers
    MaxBatch = 2
    AlertKeys = {k1, k2, k3}
    Ignored = {k3}
    MaxCalls = 6
    MaxPoints = 3
    Untitled = {k2}
    Robots = {r1, r2}
    MaxRecorder = 2
    Window = 2
    MaxClock = 3
    MaxHandled = 4
    Nobody = Nobody
    HkSets <- SomeSets
    HkTags = {"a", "b"}
    HkHidden = {"node"}
    HkByTenant = TRUE
    HkBatch = 1
    HkMetrics = 2
    CacheAge = 2
    MaxRun = 3
    SdSets <- SomeSdSets
    MaxSeries = 5
SPECIFICATION Spec
INVARIANTS HealthyExportComplete LossesContained MessagesSound NilClientUnused ServerPrepared AlertsThrottled CacheSound SeriesAcceptable
CHECK_DEADLOCK FALSE
