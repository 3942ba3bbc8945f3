CONSTANTS
    Pods <- ThePods
    Reportable <- TheReportable
    Declared <- TheDeclared
    Request <- TheRequest
    Usage <- TheUsage
    NamespaceStore = {"ns1"}
    Allocatable = {0, 8}
    RateKeys = {k1}
    Parallelism = 2
    MaxBatch = 4
    Absent = Absent
SPECIFICATION MCSpec
INVARIANTS UsageCountedOnce RequestsComplete RatedOnce RatesComplete
