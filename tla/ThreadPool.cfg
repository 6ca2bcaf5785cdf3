\* Three workers, and two callers that compete for two places.
SPECIFICATION FairSpec
CONSTANTS
    main = main
    other = other
    Workers = {w1, w2, w3}
    Callers = {main, other}
    Main = main
    Capacity = 2
    MaxAdds <- MCMaxAdds
INVARIANTS
    TypeOK
    EnoughAwake
    EnoughCallers
    StopperTasksRun
PROPERTIES
    ImplementsTaskPool
    QueuedTaskRuns
CHECK_DEADLOCK FALSE
