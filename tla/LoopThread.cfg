\* Who runs a task of a worker loop.
SPECIFICATION Spec
CONSTANTS
    main = main
    worker = worker
    other = other
    Threads = {main, worker, other}
    Creator = main
    Owner = worker
    MaxPosts <- MCMaxPosts
INVARIANTS
    OneThreadAtATime
