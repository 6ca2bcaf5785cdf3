\* A worker loop, whose constructor ran on the main thread.
SPECIFICATION FairSpec
CONSTANTS
    main = main
    worker = worker
    other = other
    Threads = {main, worker, other}
    Creator = main
    Owner = worker
    MaxPosts <- MCMaxPosts
INVARIANTS
    TypeOK
    NoLostWakeup
    SubmissionOrder
PROPERTIES
    ImplementsExecutor
    QueuedTaskRuns
    StopEndsRun
