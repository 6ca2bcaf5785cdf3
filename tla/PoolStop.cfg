\* One worker and no other caller: stop() races with the worker's last look at the queue.
SPECIFICATION FairSpec
CONSTANTS
    main = main
    other = other
    Workers = {w1}
    Callers = {main}
    Main = main
    Capacity = 2
    MaxAdds <- MCMaxAdds
PROPERTIES
    StopReturns
CHECK_DEADLOCK FALSE
