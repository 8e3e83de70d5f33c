\* Two connections opened in one step by two goroutines, two faults.
SPECIFICATION FairSpec
CONSTANTS
    ConnectionStep = 2
    MaxConnections = 2
    Concurrency = 2
    Attempts = 2
    Faults = 2
INVARIANTS NoNilFlow EchoesToldApart
PROPERTIES LoadEnds
CHECK_DEADLOCK FALSE
