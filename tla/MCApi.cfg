CONSTANTS
    ShortStoreDuration = 3
    LongStoreDuration = 5
    Resolution = 2
    LongMetrics <- SomeLong
    Batches <- SomeBatches
    MaxTime = 8
    Parts <- SomeParts
    Unsanitary <- Slashes
    Configs <- SomeConfigs
    ClusterPods <- SomePods
    ClusterNodes <- SomeNodes
    Paths <- SomePaths
    Split <- SomeSplit
    Queries <- SomeQueries
    Second = 3
    DurationBits = 4
SPECIFICATION MCSpec
INVARIANTS RetentionExact ListedIsAnswered  AggregatesAgree RepliesTrue NewestExported PodMetricsWhole
CHECK_DEADLOCK FALSE
