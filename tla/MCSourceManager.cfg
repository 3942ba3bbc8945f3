CONSTANTS
    Nodes <- AllNodes
    Clusters <- SomeClusters
    CustomNames <- CustomMetricNames
    Timeout = 3
    MaxLateness = 1
    MaxTime = 6
SPECIFICATION FairSpec
INVARIANTS AnswersAccounted ReturnsInTime DecodedSound NewestContainerKept
PROPERTIES NoLeak
CHECK_DEADLOCK FALSE
