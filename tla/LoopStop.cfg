\* stop() on a worker loop, with the timeout of epoll_wait() firing when it must.
SPECIFICATION TimedSpec
CONSTANTS
    main = main
    worker = worker
    other = other
    Threads = {main, worker, other}
    Creator = main
    Owner = worker
    MaxPosts <- MCMaxPosts
PROPERTIES
    StopTakesEffect
