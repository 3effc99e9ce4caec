SPECIFICATION Spec
CONSTANTS
    MaxOpenTime = 1
    Period = 1
    MaxLate = 0
    Cap = 4
    Types = {"info", "warning"}
    QueueBound = 3
    SpiResults <- MCSpiResults
INVARIANTS
    TypeOK
    QuietTellsDoor
PROPERTIES
    ImplementsDoor
    AlarmFollowsDoor
    ThreadsStart
