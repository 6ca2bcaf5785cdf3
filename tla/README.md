# A TLA+ model of echoserver

This directory holds a verification development for `echoserver`: TLA+ modules
translated from the C++ source, TLC configurations that check them on small
instances, and theorems about them that TLAPS checks. Paths below are relative
to the repository.

## The system

`src/*.cpp` and `include/*.h` are a multi-threaded echo server in the
one-loop-per-thread style. `wd_reactor_server/` holds four stages of an
earlier exercise (Reactor_v1 to v4) with one I/O thread and, in v4, a thread pool.

| Component | State | Operations | Talks to |
|---|---|---|---|
| `EventLoop` (`event_loop.cpp`) | `pending_tasks_` under `tasks_mutex_`, the eventfd `wakeup_fd_`, `quit_`, `loop_thread_id_`, `handlers_`, the epoll set | `run`, `stop`, `runInLoop`, `addHandler`, `updateHandler`, `removeHandler` | its own thread; any thread through `runInLoop` and `stop` |
| `EventHandler` | `fd_`, `events_`, four callbacks | `handleEvents`, `enable*`, `disable*` | called by the loop, calls the connection |
| `Connection` (`connection.cpp`) | `state_` (atomic), `handler_`, input and output buffer | `establishConnection`, `destroyConnection`, `send`, `shutdown`, `forceClose`, `handleRead/Write/Close/Error` | its loop; callbacks of the server; other threads through `send`, `shutdown`, `forceClose` |
| `EchoServer` (`echo_server.cpp`) | `connections_` under `connections_mutex_`, main loop, worker loops and threads, `next_loop_index_`, `next_conn_id_`, `started_` | `start`, `stop`, `handleNewConnection`, `removeConnection` | accepts on the main loop, posts to worker loops, workers post removals back |
| `Buffer` (`buffer.cpp`) | a vector and two indices | `append`, `retrieve`, `prepend`, `makeSpace`, `shrink`, `readFd` | used by the connection on its loop's thread |
| `Socket` | a descriptor | system calls | used by connections and the acceptor |
| `Logger` (`logger.cpp`) | a stream under `mutex_` | `log` | called by every thread, and by the signal handler |
| `main` (`main.cpp`) | `g_server` | `main`, `signalHandler` | starts the server; the handler calls `stop()` on the thread to which the signal is delivered, in the middle of whatever runs there |
| `Reactor_v4` | `TaskQueue` (bounded, two conditions), `ThreadPool`, `EventLoop` with pending functors, `TcpConnection` | `push`, `pop`, `wakeup`; `start`, `stop`; `loop`, `unloop`, `runInLoop` | the I/O thread pushes tasks, pool threads post replies back |

What is hard in it: the wakeup protocol between posting threads and a loop in
`epoll_wait`; the interval between the construction of a loop and `run()`;
check-then-act on `state_`; connections whose last `shared_ptr` goes while a
task or a callback with a bare `this` is outstanding; descriptors that the
kernel reuses while `handlers_` still names them; level-triggered events of a
closed connection; a backlog that must stay in step with the interest in
`EPOLLOUT`; and stopping, by a signal handler that
takes locks, on any thread. `PROJECT.json` lists these hazards at their lines.

What makes each component correct:

- EventLoop: a queued task is never left asleep, tasks run once and in order,
  `stop()` ends `run()`.
- Connection: bytes keep their order and none is lost while the connection is
  up; a backlog drains; our FIN follows the backlog; an ended peer is noticed.
- EchoServer: a live connection has its own handler and is in the map until its
  destruction is on the way; no connection is used after it is gone; connections
  are spread evenly; `stop()` does its work once, ends the process, and leaves no thread behind.
- Buffer: it is a byte queue, whatever its indices do.
- Reactor_v4: no pool thread sleeps through `stop()`, tasks are taken once; every
  line is answered, and a closed connection goes away with its last task.

## Modules

| Module | What it is |
|---|---|
| `SerialExecutor` | abstract: a queue of tasks, run once each in order, or run at once |
| `EventLoop` | one loop, the thread of `run()` and its callers; every access that another thread can see is a step. Implements `SerialExecutor` |
| `MCEventLoop` | instance for TLC |
| `EventLoopProofs` | theorems about `EventLoop` |
| `EchoPipe` | abstract: bytes of several sources, taken in order and delivered in order until the connection ends |
| `Connection` | one connection on its loop with peer, kernel and application threads. Implements `EchoPipe` |
| `ConnectionProofs` | theorems about `Connection`: types, backlog, FIN, closed connections |
| `StreamProofs` | theorems about its bytes: none is lost, and they make an `EchoPipe` |
| `EchoServer` | main loop and workers, and the life of the connections between them |
| `EchoServerProofs` | theorems about `EchoServer` |
| `ServerStop` | `main()` and the signal handlers, start and stop of the server, worker threads, and the mutexes they meet |
| `MCServerStop` | instances for TLC |
| `ServerStopProofs` | theorems about `ServerStop` |
| `Buffer` | the vector with its two indices, beside the queue of bytes that it stands for |
| `MCBuffer` | instance for TLC |
| `BufferProofs` | theorems about `Buffer` |
| `TaskPool` | abstract: a bounded queue of tasks, each taken in turn by one thread and done once |
| `ThreadPool` | the pool and the bounded queue of Reactor_v4. Implements `TaskPool` |
| `MCThreadPool` | instance for TLC |
| `ThreadPoolProofs` | theorems about `ThreadPool` |
| `ReactorV4` | the echo server of Reactor_v4: I/O thread, pool, peers. Its pool is a `TaskPool` too |
| `ReactorV4Proofs` | theorems about `ReactorV4` |

Operators marked `MUTANT of X` are not part of the specifications: each is `X`
with a plausible bug, kept to see that the properties notice it.

### EventLoop

State: `pending` is `pending_tasks_`, `tasks` what is left of the vector that
`doPendingTasks()` swapped out, `wakeups` the eventfd's counter, `loop` the
program counter of `run()`, `call` that of each other thread in `runInLoop()` or
`stop()`. `posted`, `ran` and `stoppers` are history. `RunReset` and `RunPublish`
are the two assignments at the head of `run()`; `EpollWakeup`, `HandleWakeup`,
`EndDispatch`, `SwapPending` and `RunTask` are one turn of the loop. `RunInLoop`
is the test `isInLoopThread()`, followed by `RunInline`, or by `PushTask` and
`Wakeup`. `Stop` is the assignment and `StopTest` the test after it.
`loop_thread_id_` is a plain `std::thread::id` that other threads read while
`run()` writes it; a reader gets the old value or the new one.

Abstracted: what tasks do, and which descriptors besides the eventfd are ready
(`EpollOther` may happen whenever the eventfd is not readable; a readable
eventfd is always in the batch, since it is level-triggered).

### Connection

A turn of the loop is `Poll`, the callbacks of the event in the order of
`EventHandler::handleEvents()`, `SwapPending`, and the tasks. That the loop
behaves so is what `EventLoop` shows. `HandleRead` contains the message callback
of the server (`retrieveAllAsString()` and `send()`), so the input buffer is empty
between steps. The socket is `rcv`, `snd` (bounded by `SndCap`, so that writes are
partial and refused), `eof`, `reset`, `sockErr` and `fin`; readiness (`Ready`) follows
Linux: the end of the stream and a reset are readable, a reset or a shutdown of
both sides is `HUP`. Application threads make the calls in their real steps: the
test of `state_`, its assignment, the post. A byte is a pair of its source and its
position, which is all that the order of a stream needs.

`Pipe` maps this state to `EchoPipe`: what is `given` is `sent`, what is in `transit` is the
kernel's send buffer followed by `output_buffer_`, and the `phase` is "closed" once
`close_callback_` has been called, "draining" after `shutdown()`, and "open" before.
The abstract specification has a next-state relation, by which nothing changes places,
is repeated or left out, and two conditions of progress: what has been handed over is
taken, and what has been taken is delivered, unless the connection ends. So
`ImplementsPipe` holds for safety and liveness at once.

`handleClose()` clears `events_`, and neither calls `updateHandler()` nor takes the handler out
of `handlers_`. epoll keeps the old mask and goes on reporting the end of the stream, and
`handleRead()` and `handleClose()` run again on every turn of the loop until the descriptor is
closed. The model has these turns (`closed` with `epoll` unchanged), and `ClosedIsSilent` says
that nothing is sent in them.

The lifetime of the object is left to `EchoServer`: here somebody holds a
`shared_ptr`. `write_complete_callback_` is empty in `EchoServer` and left out.

### EchoServer

`Alive(c)` says that a `shared_ptr` to connection c is left: in `connections_`, in
`handleNewConnection()`, or in a removal task that is queued or in the vector
that the main loop is working through (the vector is destroyed only when all of
it has run, hence `DropRemovals`). Descriptors of connections that are gone are
free, and `accept()` takes the lowest. `handlers` maps a descriptor to the
connection whose handler is there, dead or alive. A callback or a task on a
connection that is gone is `UseAfterFree`; behaviour after it is undefined, so
the model ends there, and every other property speaks of executions up to it.
While a worker has not published its thread, `establishConnection()` runs on the
main thread, here in one step (the overlap is the subject of `LoopThread.cfg`).

### ServerStop

`main()` installs `signalHandler()` for the whole process (`main.cpp:118-121`), and no thread blocks SIGINT or
SIGTERM. To which thread a signal is delivered is left to the kernel, here to `Signal(t)` for any
t: Linux prefers the main thread, but a second Ctrl-C while that is still in the handler of the first,
where SIGINT is blocked, goes to a worker. A *frame* is a thread or a handler; `on` says which thread a handler has
interrupted, which goes on only when it returns, and `OnTop` that a frame is not interrupted. Two handlers at most
are on one thread (`MaxNesting`), since each signal is blocked in its own handler. `at` is where each frame is:
`main()` with `start()` and the main loop's `run()` in it, a worker with its `run()`, or a handler. `Signal` may come
between any two steps, and ends `epoll_wait()` with `EINTR`. `holder` says which frame holds each
mutex; a step that takes one is `Lock`, then the critical section, which unlocks, and a frame that needs
a mutex held by a frame it has interrupted waits for ever, as in the code. `Log` is `Logger::log()`, wherever a
frame calls it at INFO.

`Assign` to `PushThread` are `main()` and `start()`, in which `create()`, `bind()` and `listen()` may fail;
`Reset` to `RunTask` (`LoopStep`) a turn of a loop, on the main thread or on a worker; `Accept` to `Destroy`
`handleNewConnection()`, `handleClose()` and `removeConnectionInLoop()`. `Handler` to `Leave` (`StopStep`) are the handler and `stop()`,
called by it or by `~EchoServer()`. `isInLoopThread()` is `InLoop`: until `run()` has published its thread
(`Publish`) the constructing thread counts as the loop's. The loops' queues and wakeups are those of
`EventLoop`, a step each. `getNextLoop()` is modelled
with its widths: `next_loop_index_` wraps at `IntMax`, the largest int, and is converted to a size_t, which
has `SizeMax + 1` values, before the remainder is taken. Connections only begin, end with their client and are closed by `stop()`.
A handler on a worker may read `loops_` and `threads_` while `start()` appends to them. Both have their capacity
reserved, and the model takes what is there at that step (`StopLoops`, `BeginJoin`).

How a stop goes wrong is part of the model:

- A signal before `start()` is ignored, and one before `Reset` is undone by it and leaves `started_` false, so that no
  later signal stops the server. One that comes before a worker's reset waits in `join()`
  for a worker that never returns; one that interrupts the holder of a mutex that a
  worker needs waits in `join()` as well. `StopEndsServer` speaks of the others: of a `stop()` that has
  interrupted the main loop where no mutex was held, when each worker had got past its reset
  (`StopsUndisturbed`), whatever other signals come and on whatever threads.
- Two ways to get stuck remain even so, and are named in its conclusion. A handler, which logs, waits for
  `Logger::mutex_` held by what it has interrupted, on the main thread or on a worker for which `join()` then
  waits (`StuckInLog`). Without workers `stop()` runs `removeConnectionInLoop()` itself, which
  waits for the `connections_mutex_` that `stop()` holds (`StuckInClose`; run `stop_without_workers`).
- A `stop()` on a worker stops the main loop, whose thread then leaves `main()`: its own `stop()` in the
  destructor finds `started_` false and returns, and `~EchoServer()` destroys threads that are joinable. The worker, if
  it is sooner, comes to its own `join()`, which throws, and the process is aborted (`JoinSelf`). `ExitJoinsAll` says that this is the only way
  in which the process can exit with a worker running; run `signal_on_worker` shows that it happens.
- With workers the tasks of `forceClose()` go to loops that have ended. They are in `pending` at the exit:
  the connections are destroyed with the map, and what they had still to send is lost, although
  the README promises to wait for all connections (`src/README.md:283`).

`StopsOnce` says that, of all these callers on all these threads, one at most is behind `started_.exchange(false)`.

`SpreadEvenly` needs a number of workers that divides the number of values of an int (`IntSpan`, 2^32), and
so is a power of two: otherwise the turn is broken once, where the converted index goes from 2^64 - 1 to 0.

### Buffer

A buffer is a record `mem`, `size`, `read`, `write`: `buffer_` and its length, `read_index_`
and `write_index_`. Each method is an operator from buffers to buffers, because
`shrink()` builds a second one, and each action applies one of them to `buf`.
`queue` is history: the bytes that the users have put in and not taken out, which
`HoldsQueue` compares with the readable bytes. The contents of the vector outside
of the readable bytes are kept too (moved and shrunk buffers leave old bytes
behind), since a wrong index shows by exposing them. `unwrite()` and `hasWritten()`
trust their callers; so does the model. `prepend()` that does not fit changes nothing.

### ThreadPool

`que`, `flag` and `isExit` are `m_que`, `m_flag` and `m_isExit`. What happens under `m_mtx`
is one step, as nobody else can see the middle of it, except in `pop()`: the worker
has tested `empty() && m_flag` (`FindEmpty`) and holds the mutex until it waits
(`WaitNotEmpty`), while `wakeup()` changes `m_flag` and notifies without the mutex
(`ClearFlag`, `NotifyAll`). A sleeper is at `asleep`, one that was notified is back at
`pop` or `push` and tests again. The waits may end for no reason (`Spurious`). The main
thread creates the workers one at a time, adds tasks, and may call `stop()`.
`stop()` and the workers read `m_que.size()`, `m_flag` and `m_isExit` without a lock while
others write them; a reader gets the old value or the new one.

`Pool` maps this state to `TaskPool`: `que` is what waits, the values of `running` are in hand, and `ran` is
done. Mutex, conditions, `start()` and `stop()` are not seen there. Tasks that `stop()` leaves in the queue just stay
waiting: `TaskPool` promises no progress, `QueuedTaskRuns` does.

### ReactorV4

One I/O thread: `Poll` is `epoll_wait()`, and each event of `batch` is handled by
`HandleNewConnection`, `HandleClose` or `HandleMessage` (the two branches of
`handleMessage()`), or by `HandleRead` and `SwapFunctors`, after which `RunFunctor` runs the
functors one by one. `HandleMessage` goes on in `readline()` (`ReadLine`, `ReadPart`) and
in `addTask()`, which waits for a place in `queue`. A pool thread takes a task, pushes
the functor (`Post`), writes the eventfd (`Wakeup`) and drops the task (`Release`). Two
tasks of one connection may overlap, so replies can change places. How the pool's
own mutex and conditions behave is the subject of `ThreadPool`; here its queue is
bounded and first in, first out. That this is the pool which `ThreadPool` implements is `ImplementsTaskPool`, for
which `Pool` maps this state to `TaskPool` as well: a line is done when it has been handed over and is
neither in `queue` nor in `task`, so that a task that was dropped would show as one that is done without
having been in hand. The pool has no `stop()` here: `main()` never calls it.

`Alive(c)` is a `shared_ptr` in `_conns`, in the queue or in a task that runs. A functor
has none (`sendInLoop()` binds `this`), and `RunFunctor` on a connection that is gone ends
the I/O thread at `crashed`: what follows is undefined. TLC reaches it, by a peer that
finishes after its line (`ReplyLifetime.cfg`). A line that a peer does not complete keeps the thread in
`readline()`, which reads on even after the end of the stream; the two liveness
properties therefore suppose that it is not held there for ever. So does a peer that does
not read its replies (`unread`, `ReadReply`): the socket is blocking, and `writen()` waits.
`EachLineOnce` follows each line from the socket through the queue, a pool thread and the
functors back to the socket.

## Runs

| Run | Result | What it shows |
|---|---|---|
| `event_loop` | holds | `NoLostWakeup`, `SubmissionOrder`; `ImplementsExecutor` (refinement); `QueuedTaskRuns` and `StopEndsRun` without any help from the ten second timeout |
| `loop_stop` | violated | `StopTakesEffect`: a `stop()` before `run()` has reset `quit_` is lost, even with the timeout; `EchoServer::stop()` then hangs in `join()` |
| `connection` | holds | `ImplementsPipe` (refinement, with progress); `ConnectedKeepsAll`, `WriteArmed`, `FinAfterDrain`; `ClosedIsSilent`; `ShutdownSendsFin`, `PeerEndCloses` |
| `echo_server` | holds | `EventsReachTheirConnection`, `ConnectedHasHandler`, `ConnectedIsTracked`; `ClosedLeavesMap` |
| `use_after_free` | violated | `NoUseAfterFree`: an ordinary close races with the task of `destroyConnection()` |
| `buffer` | holds | `HoldsQueue`, `GrowsOnlyWhenFull` |
| `thread_pool` | holds | `ImplementsTaskPool` (refinement); `EnoughAwake`, `EnoughCallers`, `StopperTasksRun`; `QueuedTaskRuns` |
| `pool_stop` | violated | `StopReturns`: a worker between its test and its wait misses `wakeup()`, and `join()` waits for it |
| `reactor_v4` | holds | `RepliesSignalled`, `WatchedIsMapped`, `EachLineOnce`; `ImplementsTaskPool` (refinement); `LineAnswered`, `ClosedIsDestroyed` |
| `server_stop` | holds | `ExitJoinsAll`, `StopsOnce`, `SpreadEvenly`; `StopEndsServer` |
| `signal_on_worker` | violated | `WorkersEndFirst`: a signal delivered to a worker runs `stop()` there, and the process exits without waiting for it |
| `stop_without_workers` | violated | `StopClosesAll`: on a server without workers `stop()` locks `connections_mutex_` twice when there is a connection |

Four more configurations, each of one property that the code violates, are kept beside these:

| Configuration | Module | What TLC shows |
|---|---|---|
| `LoopThread.cfg` | `MCEventLoop` | `OneThreadAtATime` (`event_loop.h:179`, "in the event loop"): the constructing thread passes `isInLoopThread()`, the worker starts, and both are in `handlers_` |
| `GracefulShutdown.cfg` | `Connection` | `GracefulShutdown` (`src/README.md:260`): `send()`, `shutdown()` on another thread sends the FIN without the data |
| `SignalInLog.cfg` | `MCServerStop` | `HandlerGoesOn` (`main.cpp:14`, "shutting down server"): a signal inside `Logger::log()` waits for the mutex that its own thread holds |
| `ReplyLifetime.cfg` | `ReactorV4` | `SendsOnLiveConnection` (`TestTcpServer.cc:39`): the reply of a pool thread reaches the I/O thread when its connection has been destroyed |

Bounds:

- `event_loop`: three threads (constructor, owner, another), two tasks of the
  constructor and one of each other, one `stop()` per thread. Two tasks show an
  order; three threads let two calls overlap each other and the loop.
- `connection`: two bytes from the peer, two calls of one application thread, a
  send buffer of one byte: every write can be partial or refused, the backlog can
  hold bytes of both sources, and `send()` can be followed by either way to close.
- `echo_server`: two connections on one worker, so that the second can get the
  descriptor and the loop of the first; two queued removals, so that a
  connection that is closed twice is removed twice. The bound on removals stops
  the loop from reporting a closed connection for ever.
- `buffer`: two values of a byte, a reserve of two, three more in the first
  vector, a stack buffer of two, chunks of one to three bytes, a vector of at most
  eight: every branch of `makeSpace()` and `readFd()` is taken with the indices on,
  before and behind each boundary.
- `thread_pool`: three workers, two places in the queue, two callers with three and two
  tasks: the queue gets full with both callers asleep, and empty with all workers
  asleep. `pool_stop` needs one worker only.
- `reactor_v4`: two connections (the second may get the descriptor of the first), two
  lines in all, which may be of one connection or of both, each in one part or in
  two, two pool threads, one place in the queue and room for one reply in a peer's
  sockets: the I/O thread waits in `addTask()` and in `writen()`, and both threads post while
  it takes functors.
- `server_stop`: no worker, one or two. Both signals come on a server with no worker and up to two
  connections, or with one worker and one connection: the second in `main()`, in the handler
  of the first, on the other thread, or in the destructor; two connections come on a server with two workers, whose
  numbers are given by an int of two values (and a size_t of four), so that the second sees the index
  wrap. One of the connections may end by itself, the other is left to `stop()`. `Loads` lists these combinations: two workers
  with a signal would show no new step, and `ThreadsAreJoined` and `StopRunsOnce` are proved for any number.
  `signal_on_worker` and `stop_without_workers` need one signal and one thread or two.

`Connection`, `EchoServer`, `ThreadPool`, `ReactorV4` and `ServerStop` are checked without the deadlock
check: once the peers have sent everything and all calls have returned, or the process has
exited, the system really stops. That `ServerStop` stops in no other way is `StopEndsServer`.

## Fairness

Every thread that can take a step inside the code takes one (weak fairness of
`LoopStep`, of `CallStep` or `UserStep` per thread; of `MainStep`, and of `WorkerStep` per worker): the operating
system schedules all threads, and no handler blocks.
So it is in `ThreadPool`, whose tasks return (`WorkerStep` of each worker, the steps of a
caller inside `push()`, of `start()` and of `stop()`); a spurious wakeup is never owed.
`ReactorV4` has `IoStep` and the `WorkerStep` of each thread. Its peers owe nothing, so that
its sends and `readline()` may wait for ever; its liveness properties have `[]<>~Held` for a
premise, which is about the peers and not about the server.
`ServerStop` has each thread, the frames on it together, since only the top one runs (`ThreadStep`). Here
the timeout of the main loop's `epoll_wait()` is relied upon: a signal that
comes between the test of `quit_` and the call is seen only when ten seconds are over. The
workers are woken by `stop()`, and their `Timeout` is owed to nobody. Neither are clients and signals.
Nobody is obliged to call `addTask()`, `runInLoop()`, `send()`, `shutdown()`, `forceClose()` or `stop()`,
and the peer is not obliged to send, finish or reset. `EpollOther` is not fair in
`FairSpec`, so that nothing that is shown relies on the timeout; `TimedSpec` adds it, and
`StopTakesEffect` fails even so. In `Connection` the peer reads what it is sent
(`PeerReceives`): against a peer that never reads, no backlog drains.

## Proofs

`EventLoopProofs` proves, for every set of threads, every creator and owner and
every number of calls:

- `TypeCorrect`: `TypeOK`, strengthened by `PostedOK` (a call that has still to hand
  its task over has been counted), which makes the task being handed over one of
  `Tasks`.
- `WakeupNotLost` and `StopIsNoticed`: `NoLostWakeup` and `StopWakesLoop` with
  `OwnerPublished` (after the head of `run()`, `loop_thread_id_` is the owner's). Without
  that conjunct the induction fails at `StopTest`: a caller that took itself for
  the loop's thread would skip the wakeup.
- `LoopImplementsExecutor`: the refinement of `SerialExecutor`, with
  `queue <- tasks \o pending`. The invariant behind it is `FreshInv`: no task has been
  handed over that its thread has not got to yet, so that what is pushed or run
  at once is new. `StepSimulation` maps each action to a step or a stutter.
- `TasksRunInOrder`: `SubmissionOrder`. What has run and what is queued are each in
  order for every thread, and what has run comes before what is queued (`Orders`). A task that
  runs at once would overtake the queued ones of its thread; `InlineFirst` says that
  there are none: before `run()` publishes its thread the creator queues nothing, and
  afterwards it runs nothing at once.

`BufferProofs` proves, for every set of bytes, every `kCheapPrepend`, initial size and
set of chunks:

- `BufferTypeCorrect`, `BufferIsAQueue` and `MakeSpaceMovesForward`, all from the invariant
  `Holds(buf, queue)`: the record is a buffer, and its readable bytes are those of the
  queue. It is inductive because `IsBuffer` says that the reserve lies inside the
  vector: without that `retrieveAll()` could put the indices behind its end. One
  lemma for each operation says what becomes of the bytes held (`AppendHolds`,
  `ReadFdHolds`, ...). `RoomAfterMove` is the arithmetic behind both the legality of
  the overlapping copy and the room for what is appended after it.
- `BufferGrowsOnlyWhenFull`: an action property; `AppendGrowth` and `ReadFdGrowth` compare the size
  after `makeSpace()` with the free places of both ends, for `append()` and for the
  second half of `readFd()`.

`ConnectionProofs` and `StreamProofs` prove, for every set of users and every number of bytes, calls and
places in the send buffer:

- `ConnectionTypeCorrect`, `BacklogIsArmed` and `FinFollowsBacklog` (`TypeOK`, `WriteArmed`, `FinAfterDrain`) from `Inv`.
  It adds `InCall`: a user that is inside a call has found the connection established,
  so that a task of its own cannot come before `establishConnection()`'s. `Armed` is `WriteArmed` with
  what it needs before the connection is established.
- `ClosedWritesNothing`: `ClosedIsSilent`, from `SilentInv`. A connection whose `close_callback_` has been called has no
  event of interest and is not CONNECTED, and cannot become so again: the task of
  `establishConnection()` is the first of all and there is only one (`EstablishedFirst`).
- `ShutdownNotForgotten`: `ShutdownIsPending`, the safety part of `ShutdownSendsFin`. It is inductive
  together with `Inv` and `SilentInv`: when `handleWrite()` takes the last of the backlog (`Drained`) it sends the FIN,
  and the task of `shutdown()` sends it or leaves a backlog.
- `NothingIsLost`: `ConnectedKeepsAll`. The invariant (`StreamInv`) gives each byte its place: the
  receive buffer has the last bytes of the peer, and the numbers in the queued tasks of a user, which
  are increasing, are exactly those after what has been taken of it (`Queued`). It holds while the
  connection is `Up`, from which there is no way back; `FinLate` says that no FIN
  refuses a write before that. The equation between numbers of bytes then comes of a
  bijection between the tasks and an interval (`TasksCounted`).
- `ConnectionIsAPipe`: the safety part of `ImplementsPipe`. `PipeStep` maps each action to a step
  of `EchoPipe` or to a stutter, from the same invariants: `HandleRead` takes the next bytes of the
  peer, a task of `send()` the next one of its user, `HandleWrite` stutters, and so on.

`EchoServerProofs` proves, for every number of connections and workers, `ServerTypeCorrect`, `EventsAreNotMisdirected`,
`HandlerInstalled` and `ConnectedTracked` (`TypeOK`, `EventsReachTheirConnection`, `ConnectedHasHandler`, `ConnectedIsTracked`).
`ServerInv` says besides that no two live connections have one descriptor (`FdUnique`); that a
connection that is up or watched by epoll has its handler in `handlers_` (`Installed`), where others put theirs only for
descriptors of their own, and only while that loop has no events in hand; and that
a connection that has been accepted is untouched until its one `establishConnection()` (`TrackInv`),
and from then on in the map, until a removal has queued its destruction. `ClosedAreRemoved` adds `ClosedAwaitsRemoval`, the
safety part of `ClosedLeavesMap`: a removal is queued in the step that closes a connection, and counts
until the main loop begins it, which takes the connection out.

`ThreadPoolProofs` proves, for every finite set of workers and callers, every capacity and
every number of tasks:

- `PoolTypeCorrect`: `TypeOK`, with what a caller inside `push()` has still to hand over.
- `SleepersAreSpare` and `SleepingCallersAreSpare` (`EnoughAwake`, `EnoughCallers`): each of the notifications wakes one
  sleeper or finds none, so that the number of those on their way keeps up with the
  tasks, or with the free places. `TestedEmpty` is what the mutex gives a worker between
  its test and its wait.
- `StopFinishesOwnTasks` (`StopperTasksRun`): a task that its thread has added is queued, in a
  worker's hands or done (`MainPlaced`); once `stop()` has seen the queue empty it holds none of that
  thread (`Drained`), and once it has joined no worker has one (`Joined`).
- `PoolImplementsQueue`: the refinement of `TaskPool` (`ImplementsTaskPool`). Its invariant, `PlaceInv`, says that a task is at one place in
  the queue, or with one worker, or done (`OncePlaced`), and that a caller inside `push()` has a task that is at none
  (`OthersAreNew`): without these a step of `pop()` could take a task out of the abstract queue that
  is there twice. `PoolSimulation` maps `Push`, `TakeTask` and `RunTask` to steps of `TaskPool` and the others to stutters.

`ReactorV4Proofs` proves, for every set of pool threads, every capacity and every number of
connections and lines, `ReactorTypeCorrect`, `ReactorWatchesMapped`, `RepliesAreSignalled` and `LinesAreKept` (`TypeOK`,
`WatchedIsMapped`, `RepliesSignalled`, `EachLineOnce`). `InHand` strengthens the first: the descriptors of a batch are
mapped, since only the event of a connection itself takes it out of `_conns`. That no peer sends more
lines than there may be is a count of the lines sent (`MaySendBound`). For the last, `OnceInv` says that
each line that was read has one holder and any other line none, and that there are no functors
but while they run; a step that hands a line over maps the holders before it to those after it
(`OnceMoves`). `ServerPoolIsTaskPool` (`ImplementsTaskPool`) is the refinement of `TaskPool`, and so joins this module to
`ThreadPool`; it needs `OneHolder`: a line is at one place in the queue or in the hand of one thread, and
only when the I/O thread has handed it over.

`ServerStopProofs` proves, for every number of workers, connections and signals:

- `ThreadsAreJoined` (`ExitJoinsAll`): when the process exits no worker runs, unless a `stop()` is on one. In `ExitInv`,
  `Placed` keeps each frame in its own code; `ThreadsMade` says that threads are made only by `start()`, and that all
  of them are made before the main loop begins; `Joined`, that the main loop has `quit_` set only when every
  thread has ended, or while a `stop()` that has still to join them is at work: on the main thread, which cannot get
  past it, or on a worker, which is the exception. main() gets to its end in no other way, or before
  the first thread is made.
- `ServerStopTypeCorrect` (`TypeOK`), from `TypeInv`: `ExitInv`, `TypeOK`, and what is in hand (`InHand`): a frame has
  a connection while it works on one, and a thread that runs tasks has tasks. `next_loop_index_` keeps
  to the range of an int through its wrap.
- `StopWakesWorkers` (`StoppedWorkerWakes`), from `WakeInv`: a worker enters `epoll_wait()` only when it has
  seen `quit_` unset; `StopLoops` writes the eventfd of every worker that has published its thread, and no other can be
  waiting; only the worker itself, awake, reads it. The
  exception is a worker that a signal has reached: the `stop()` that it runs itself does not wake it, and may have
  interrupted it between its test and the call.
- `StopRunsOnce` (`StopsOnce`), from `OnceInv`: while `started_` is set, and before it has been, no frame is behind the
  `exchange(false)`. `start()` sets it once, from a point to which main() does not return.
- `ConnectionsAreSpread` (`SpreadEvenly`), from `InTurn`: the c-th connection goes to a worker whose number is congruent to c, and
  `next_loop_index_` to the number of connections, modulo the number of workers; when that number divides 2^32, as the property supposes, neither the wrap of the int nor
  the conversion to a size_t changes a remainder (`WidthsAreMultiples`). The connections of one worker
  but for its newest then map one to one into those of another by a shift (`FS_Injection`).

The assumptions are those of the constants, all named where the constants are: threads and their
numbers of tasks (`ThreadsAssumption`, `MaxPostsAssumption`), the sizes of a buffer (`ZeroAssumption`,
`SizesAssumption`, `ChunksAssumption`), the peer that is no user (`PeerAssumption`), finite sets of
workers and callers (`WorkersAssumption`, `CallersAssumption`), capacities and widths (`CapacityAssumption`, `MaxAddsAssumption`,
`WidthAssumption`), and bounds that are natural numbers (`BoundsAssumption`, `NConnsAssumption`, `NWorkersAssumption`,
`MaxRemovalsAssumption`, `ThreadNumsAssumption`). What a module takes for granted of its environment is part
of its actions, and the theorems are about those.

Model-checked only: all liveness, with the progress in `ImplementsPipe`. Fairness and `ENABLED` are out of the
prover's reach. Every invariant, every refinement without its progress and every action property that a
run checks is a theorem.

Proved only: `StopWakesLoop`, `ShutdownIsPending`, `ClosedAwaitsRemoval`, `StoppedWorkerWakes` and
`MovesTowardsFront` are stated in their modules and in no configuration. All but the last, which is the legality of one copy, are the
safety part of a liveness property that a run checks (`StopEndsRun`, `ShutdownSendsFin`,
`ClosedLeavesMap`, `StopEndsServer`).

## Not modelled

- The text, level and file of `Logger` (its mutex is in `ServerStop`), option parsing in
  `main.cpp`, socket options and addresses: no state that the rest depends on.
- `setThreadNum()`, which nobody calls.
- The order of static destruction: `Logger`, created in `main()`, is destroyed before `g_server`, whose
  destructor logs. `ServerStop` models these calls as if the logger were still there.
- `examples/client.cpp`: a client; its effect on the server is the peer of `Connection`.
- Reactor_v1 to v3: single-threaded stages of what Reactor_v4 contains.
- A handler that runs for ever or blocks; allocation failure; `EMFILE`.

## Plan

In this order, the most important first:

1. Done: `SerialExecutor`, `EventLoop`, `EchoPipe`, `Connection`, `EchoServer`, `ServerStop`, `Buffer`, `TaskPool`, `ThreadPool`,
   `ReactorV4`, and the modules with theorems about them.
2. Done: runs and configurations for what `stop()`, signals and the replies of Reactor_v4 do wrong.
3. Proofs: the safety parts of `PeerEndCloses`, `ClosedIsDestroyed` and `StopEndsServer`, as invariants that say what each
   is waiting for (as `ShutdownIsPending` and `ClosedAwaitsRemoval` do).
