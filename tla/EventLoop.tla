----------------------------- MODULE EventLoop -----------------------------
(***************************************************************************)
(* One echo_server::EventLoop (src/src/event_loop.cpp): the thread that    *)
(* executes run(), and the other threads that call runInLoop() and stop()  *)
(* on it.  The task queue, the eventfd that interrupts epoll_wait, the     *)
(* quit_ flag and loop_thread_id_ are shared; every access to one of them  *)
(* that another thread can see is a step of its own.                       *)
(*                                                                         *)
(* Abstracted: what a task does, the file descriptors other than           *)
(* wakeup_fd_ (the loop may find any of them ready at any time), logging.  *)
(***************************************************************************)
EXTENDS Integers, Sequences

CONSTANTS
    Threads,    \* every thread that holds a pointer to the loop
    Creator,    \* the thread that constructed it
    Owner,      \* the thread that executes run()
    MaxPosts    \* BOUND: how many times each thread calls runInLoop()

ASSUME ThreadsAssumption == Creator \in Threads /\ Owner \in Threads
ASSUME MaxPostsAssumption == MaxPosts \in [Threads -> Nat]

VARIABLES
    pending,    \* pending_tasks_, guarded by tasks_mutex_
    tasks,      \* what is left of the vector doPendingTasks() swapped out
    wakeups,    \* the counter of the eventfd wakeup_fd_
    quit,       \* quit_
    loopThread, \* loop_thread_id_
    loop,       \* where Owner is in run()
    call,       \* where each other thread is in runInLoop() or stop()
    posted,     \* history: runInLoop() calls begun by each thread
    ran,        \* history: the tasks that have run, in order
    stoppers    \* history: the threads that have called stop()

vars == <<pending, tasks, wakeups, quit, loopThread, loop, call, posted, ran, stoppers>>

Callers == Threads \ {Owner}

\* The n-th task that a thread hands over.
Tasks == UNION {{t} \X (1 .. MaxPosts[t]) : t \in Threads}

Latest(t) == <<t, posted[t]>>

LoopPoints == {"unstarted", "entering", "test", "wait", "wakeup", "dispatch", "swap", "exec",
               "stopped"}
CallPoints == {"idle", "inline", "push", "wakeup", "stopping"}

TypeOK ==
    /\ pending \in Seq(Tasks)
    /\ tasks \in Seq(Tasks)
    /\ wakeups \in Nat
    /\ quit \in BOOLEAN
    /\ loopThread \in {Creator, Owner}
    /\ loop \in LoopPoints
    /\ call \in [Threads -> CallPoints]
    /\ posted \in [Threads -> Nat]
    /\ ran \in Seq(Tasks)
    /\ stoppers \subseteq Threads
    /\ loop = "exec" <=> tasks # <<>>
-----------------------------------------------------------------------------
(* The constructor: loop_thread_id_ is the thread that constructs the loop. *)
Init ==
    /\ pending = <<>>
    /\ tasks = <<>>
    /\ wakeups = 0
    /\ quit = FALSE
    /\ loopThread = Creator
    /\ loop = "unstarted"
    /\ call = [t \in Threads |-> "idle"]
    /\ posted = [t \in Threads |-> 0]
    /\ ran = <<>>
    /\ stoppers = {}

-----------------------------------------------------------------------------
(* Owner: run(), handleEvents(), doPendingTasks().                         *)

\* run(): "quit_ = false", whatever quit_ was.
RunReset ==
    /\ loop = "unstarted"
    /\ quit' = FALSE
    /\ loop' = "entering"
    /\ UNCHANGED <<pending, tasks, wakeups, loopThread, call, posted, ran, stoppers>>

\* run(): "loop_thread_id_ = std::this_thread::get_id()".
RunPublish ==
    /\ loop = "entering"
    /\ loopThread' = Owner
    /\ loop' = "test"
    /\ UNCHANGED <<pending, tasks, wakeups, quit, call, posted, ran, stoppers>>

\* run(): "while (!quit_)".
TestQuit ==
    /\ loop = "test"
    /\ loop' = IF quit THEN "stopped" ELSE "wait"
    /\ UNCHANGED <<pending, tasks, wakeups, quit, loopThread, call, posted, ran, stoppers>>

\* epoll_wait() returns a batch of events with wakeup_fd_ in it.
EpollWakeup ==
    /\ loop = "wait"
    /\ wakeups > 0
    /\ loop' = "wakeup"
    /\ UNCHANGED <<pending, tasks, wakeups, quit, loopThread, call, posted, ran, stoppers>>

\* epoll_wait() returns for another reason: other descriptors are ready, or the timeout of ten
\* seconds has passed.
EpollOther ==
    /\ loop = "wait"
    /\ wakeups = 0
    /\ loop' = "dispatch"
    /\ UNCHANGED <<pending, tasks, wakeups, quit, loopThread, call, posted, ran, stoppers>>

\* handleWakeup(): reading the eventfd resets its counter.
HandleWakeup ==
    /\ loop = "wakeup"
    /\ wakeups' = 0
    /\ loop' = "dispatch"
    /\ UNCHANGED <<pending, tasks, quit, loopThread, call, posted, ran, stoppers>>

\* handleEvents(): the handlers of the batch have run.
EndDispatch ==
    /\ loop = "dispatch"
    /\ loop' = "swap"
    /\ UNCHANGED <<pending, tasks, wakeups, quit, loopThread, call, posted, ran, stoppers>>

\* MUTANT of SwapPending: one task is taken out of the queue, the others wait for the next wakeup.
SwapOnlyOne ==
    /\ loop = "swap"
    /\ tasks' = IF pending = <<>> THEN <<>> ELSE <<Head(pending)>>
    /\ pending' = IF pending = <<>> THEN <<>> ELSE Tail(pending)
    /\ loop' = IF pending = <<>> THEN "test" ELSE "exec"
    /\ UNCHANGED <<wakeups, quit, loopThread, call, posted, ran, stoppers>>

\* MUTANT of SwapPending: the tasks are copied out of the queue and stay in it.
SwapKeepsTasks ==
    /\ loop = "swap"
    /\ tasks' = pending
    /\ loop' = IF pending = <<>> THEN "test" ELSE "exec"
    /\ UNCHANGED <<pending, wakeups, quit, loopThread, call, posted, ran, stoppers>>

\* MUTANT of SwapPending: nothing to run is not told from something to run.
SwapAlwaysExec ==
    /\ loop = "swap"
    /\ tasks' = pending
    /\ pending' = <<>>
    /\ loop' = "exec"
    /\ UNCHANGED <<wakeups, quit, loopThread, call, posted, ran, stoppers>>

\* doPendingTasks(): the swap under tasks_mutex_.
SwapPending ==
    /\ loop = "swap"
    /\ tasks' = pending
    /\ pending' = <<>>
    /\ loop' = IF pending = <<>> THEN "test" ELSE "exec"
    /\ UNCHANGED <<wakeups, quit, loopThread, call, posted, ran, stoppers>>

\* MUTANT of RunTask: the newest task first.
RunNewest ==
    /\ loop = "exec"
    /\ ran' = Append(ran, tasks[Len(tasks)])
    /\ tasks' = SubSeq(tasks, 1, Len(tasks) - 1)
    /\ loop' = IF Len(tasks) = 1 THEN "test" ELSE "exec"
    /\ UNCHANGED <<pending, wakeups, quit, loopThread, call, posted, stoppers>>

\* doPendingTasks(): one iteration of the loop over the tasks.
RunTask ==
    /\ loop = "exec"
    /\ ran' = Append(ran, Head(tasks))
    /\ tasks' = Tail(tasks)
    /\ loop' = IF Tail(tasks) = <<>> THEN "test" ELSE "exec"
    /\ UNCHANGED <<pending, wakeups, quit, loopThread, call, posted, stoppers>>

\* runInLoop() called by a handler or a task, or by Owner before run() when it constructed the
\* loop itself: isInLoopThread() holds and the task runs at once.
RunInLoopByOwner ==
    /\ loop \in {"unstarted", "dispatch", "exec"}
    /\ loopThread = Owner
    /\ posted[Owner] < MaxPosts[Owner]
    /\ posted' = [posted EXCEPT ![Owner] = @ + 1]
    /\ ran' = Append(ran, <<Owner, posted[Owner] + 1>>)
    /\ UNCHANGED <<pending, tasks, wakeups, quit, loopThread, loop, call, stoppers>>

\* stop() on Owner itself, from a handler, a task or a signal handler: no wakeup.  A signal that
\* arrives inside epoll_wait() makes it return (EINTR); one that arrives after the test of quit_
\* and before epoll_wait() does not.
StopByOwner ==
    /\ loop # "stopped"
    /\ loopThread = Owner
    /\ Owner \notin stoppers
    /\ quit' = TRUE
    /\ stoppers' = stoppers \cup {Owner}
    /\ \/ UNCHANGED loop
       \/ loop = "wait" /\ loop' = "dispatch"
    /\ UNCHANGED <<pending, tasks, wakeups, loopThread, call, posted, ran>>
-----------------------------------------------------------------------------
(* The other threads: runInLoop(), wakeup(), stop().                       *)

\* runInLoop(): the test isInLoopThread().
RunInLoop(t) ==
    /\ call[t] = "idle"
    /\ posted[t] < MaxPosts[t]
    /\ posted' = [posted EXCEPT ![t] = @ + 1]
    /\ call' = [call EXCEPT ![t] = IF loopThread = t THEN "inline" ELSE "push"]
    /\ UNCHANGED <<pending, tasks, wakeups, quit, loopThread, loop, ran, stoppers>>

\* runInLoop(): "task()" on the calling thread.
RunInline(t) ==
    /\ call[t] = "inline"
    /\ ran' = Append(ran, Latest(t))
    /\ call' = [call EXCEPT ![t] = "idle"]
    /\ UNCHANGED <<pending, tasks, wakeups, quit, loopThread, loop, posted, stoppers>>

\* MUTANT of PushTask: a loop that is not in epoll_wait() is not woken.
PushWakesSleeper(t) ==
    /\ call[t] = "push"
    /\ pending' = Append(pending, Latest(t))
    /\ call' = [call EXCEPT ![t] = IF loop = "wait" THEN "wakeup" ELSE "idle"]
    /\ UNCHANGED <<tasks, wakeups, quit, loopThread, loop, posted, ran, stoppers>>

\* runInLoop(): push_back() under tasks_mutex_.
PushTask(t) ==
    /\ call[t] = "push"
    /\ pending' = Append(pending, Latest(t))
    /\ call' = [call EXCEPT ![t] = "wakeup"]
    /\ UNCHANGED <<tasks, wakeups, quit, loopThread, loop, posted, ran, stoppers>>

\* wakeup(): the write to the eventfd.
Wakeup(t) ==
    /\ call[t] = "wakeup"
    /\ wakeups' = wakeups + 1
    /\ call' = [call EXCEPT ![t] = "idle"]
    /\ UNCHANGED <<pending, tasks, quit, loopThread, loop, posted, ran, stoppers>>

\* stop(): "quit_ = true".
Stop(t) ==
    /\ call[t] = "idle"
    /\ t \notin stoppers
    /\ quit' = TRUE
    /\ stoppers' = stoppers \cup {t}
    /\ call' = [call EXCEPT ![t] = "stopping"]
    /\ UNCHANGED <<pending, tasks, wakeups, loopThread, loop, posted, ran>>

\* MUTANT of StopTest: stop() never wakes the loop.
StopSilently(t) ==
    /\ call[t] = "stopping"
    /\ call' = [call EXCEPT ![t] = "idle"]
    /\ UNCHANGED <<pending, tasks, wakeups, quit, loopThread, loop, posted, ran, stoppers>>

\* stop(): the test isInLoopThread() that decides whether to wake the loop.
StopTest(t) ==
    /\ call[t] = "stopping"
    /\ call' = [call EXCEPT ![t] = IF loopThread = t THEN "idle" ELSE "wakeup"]
    /\ UNCHANGED <<pending, tasks, wakeups, quit, loopThread, loop, posted, ran, stoppers>>
-----------------------------------------------------------------------------
\* run() has returned and no call is under way: nothing is left to do.
Finished ==
    /\ loop = "stopped"
    /\ \A t \in Threads : call[t] = "idle"
    /\ UNCHANGED vars

LoopStep ==
    \/ RunReset \/ RunPublish \/ TestQuit
    \/ EpollWakeup \/ HandleWakeup \/ EndDispatch
    \/ SwapPending \/ RunTask

CallStep(t) == RunInline(t) \/ PushTask(t) \/ Wakeup(t) \/ StopTest(t)

Next ==
    \/ LoopStep \/ EpollOther \/ RunInLoopByOwner \/ StopByOwner
    \/ \E t \in Callers : RunInLoop(t) \/ Stop(t) \/ CallStep(t)
    \/ Finished

Spec == Init /\ [][Next]_vars

(* The operating system runs every thread.  Nobody has to call runInLoop() *)
(* or stop(); epoll_wait() need not return before something wakes it.      *)
Fairness ==
    /\ WF_vars(LoopStep)
    /\ \A t \in Callers : WF_vars(CallStep(t))

FairSpec == Spec /\ Fairness

\* epoll_wait() is called with a timeout of ten seconds, so it does return.
TimedSpec == FairSpec /\ WF_vars(EpollOther)
-----------------------------------------------------------------------------
(* Safety.                                                                 *)

\* A call is on its way to the write to wakeup_fd_.
WakeupDue == wakeups > 0 \/ \E t \in Threads : call[t] = "wakeup"

\* No lost wakeup: a queued task is about to be swapped out, or the eventfd is readable, or the
\* thread that pushed it has the write to the eventfd still to do.  It is the reason why
\* handleWakeup() must reset the eventfd before doPendingTasks() empties the queue.
NoLostWakeup == pending # <<>> => WakeupDue \/ loop \in {"dispatch", "swap"}

\* A loop that another thread has stopped does not go to sleep: while it is in epoll_wait() with
\* quit_ set, a wakeup is there or on its way.  False for a stop() called by Owner itself.
StopWakesLoop ==
    quit /\ loop = "wait" /\ Owner \notin stoppers =>
        WakeupDue \/ \E t \in Threads : call[t] = "stopping"

\* The tasks that one thread hands over run in the order in which it handed them over, whether
\* they were queued or run at once: no task run inline overtakes a queued one of its thread.
SubmissionOrder ==
    \A i, j \in DOMAIN ran : i < j /\ ran[i][1] = ran[j][1] => ran[i][2] < ran[j][2]

\* What the loop promises, for the tasks of this module.
Executor == INSTANCE SerialExecutor WITH queue <- tasks \o pending, done <- ran

\* Every step of the loop and of its callers is a step of the abstract executor, or none: each
\* task is queued at most once, and the queued ones run once each in the order of push_back().
ImplementsExecutor == Executor!Spec

\* "Execute the task in the event loop" (event_loop.h): a handler or a task that the loop runs
\* and a task run by another thread never overlap.  False: see the README.
OneThreadAtATime ==
    loop \in {"wakeup", "dispatch", "exec"} => \A t \in Callers : call[t] # "inline"
-----------------------------------------------------------------------------
(* Liveness.                                                               *)

\* A queued task runs, unless the loop ends first.
QueuedTaskRuns ==
    \A k \in Tasks : (\E i \in DOMAIN pending : pending[i] = k)
                         ~> loop = "stopped" \/ \E i \in DOMAIN ran : ran[i] = k

\* A loop that has passed the reset of quit_ and is stopped by another thread returns from
\* run(), without help from the timeout of epoll_wait().
StopEndsRun == quit /\ loop # "unstarted" /\ Owner \notin stoppers ~> loop = "stopped"

\* "Stop the event loop" (event_loop.h): after stop(), run() returns.  False when stop() comes
\* before run() has reset quit_: see the README.
StopTakesEffect == stoppers # {} ~> loop = "stopped"
=============================================================================
