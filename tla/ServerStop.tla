------------------------------ MODULE ServerStop -----------------------------
(***************************************************************************)
(* The start and the end of the echo server: main() and its signal handler *)
(* (main.cpp), EchoServer::start(), stop() and the destructor              *)
(* (echo_server.cpp), the worker threads, and the mutexes that are held    *)
(* when a signal arrives.  No thread blocks SIGINT or SIGTERM, so that the *)
(* handler runs on the main thread or on a worker, between any two of its  *)
(* steps, and calls stop() there; what it has interrupted goes on when it  *)
(* returns.                                                                *)
(*                                                                         *)
(* A loop is what EventLoop shows it to be: stop() and runInLoop() of      *)
(* another thread's loop are a step each here, with the wakeup.            *)
(*                                                                         *)
(* Abstracted: data, errors of connections, what is logged below INFO, the *)
(* lifetime of connections (EchoServer is about it).                       *)
(***************************************************************************)
EXTENDS Integers, Sequences, FiniteSets

CONSTANTS
    ThreadNums, \* the values that thread_num_ may have
    IntMax,     \* the largest int, which is 2^31 - 1
    SizeMax,    \* the largest size_t, which is 2^64 - 1
    NConns,     \* BOUND: connections that are ever accepted
    Leaving,    \* BOUND: those whose client may close its side
    MaxSignals, \* BOUND: signals that are ever delivered
    Loads       \* BOUND: how many workers, connections and signals there may be together

ASSUME ThreadNumsAssumption == ThreadNums \subseteq Nat /\ ThreadNums # {}

\* How many values an int has, and a size_t: powers of two, the second not less than the first.
IntSpan == 2 * (IntMax + 1)
SizeSpan == SizeMax + 1

ASSUME WidthAssumption == IntMax \in Nat /\ SizeMax \in Nat /\ SizeSpan % IntSpan = 0
ASSUME BoundsAssumption == NConns \in Nat /\ Leaving \subseteq 1 .. NConns /\ MaxSignals \in Nat

Workers == UNION {1 .. n : n \in ThreadNums}
Conns == 1 .. NConns

\* The threads, which have the numbers of the loops that they run.
Main == 0
MainLoop == Main
Threads == {Main} \cup Workers
Loops == Threads

\* A thread, or the handler of a signal that has interrupted one: that of the s-th signal is -s, so
\* that the newer of two handlers is the lower.
Handlers == -MaxSignals .. -1
Frames == Threads \cup Handlers
Nobody == -MaxSignals - 1

\* How many handlers can be nested on a thread: SIGINT and SIGTERM are each blocked in their own.
MaxNesting == 2

\* The mutexes: tasks_mutex_ of each loop, connections_mutex_, and Logger::mutex_.
TasksOf(l) == l
ConnsMutex == -1
LogMutex == -2
Mutexes == Loops \cup {ConnsMutex, LogMutex}
NoMutex == -3

VARIABLES
    gServer,    \* g_server points to the server
    threadNum,  \* thread_num_
    started,    \* started_
    nLoops,     \* the length of loops_
    nThreads,   \* the length of threads_
    at,         \* where each thread and each handler is
    on,         \* the thread that each handler has interrupted
    signals,    \* how many signals have been delivered
    holder,     \* who holds each mutex
    cur,        \* the connection that each has in hand, 0 for none
    back,       \* where it goes on when it is done with that
    quit,       \* quit_ of each loop
    wakeup,     \* the eventfd of each worker's loop is readable
    pending,    \* pending_tasks_ of each loop
    tasks,      \* what is left of the vector that each loop has swapped out
    connections,\* connections_
    accepted,   \* how many connections have been accepted
    nextIndex,  \* next_loop_index_
    home,       \* loop_ of each connection
    state,      \* state_ of each connection
    ended,      \* the peers that have closed their side
    joining,    \* the threads that stop() joins
    closing     \* the connections that it has still to close

serverVars == <<gServer, threadNum, started, nLoops, nThreads>>
signalVars == <<on, signals>>
callVars == <<cur, back>>
loopVars == <<quit, wakeup, pending, tasks>>
acceptVars == <<accepted, nextIndex, home>>
connVars == <<connections, acceptVars, state, ended>>
stopVars == <<joining, closing>>
vars == <<serverVars, at, signalVars, holder, callVars, loopVars, connVars, stopVars>>
-----------------------------------------------------------------------------
(* Points of the code.                                                     *)

\* Calls of Logger::log(), and where f goes on.
AfterLog(f) ==
    [created |-> "assign", config |-> "start", failed |-> "complete", bound |-> "listen",
     listening |-> IF threadNum = 0 THEN "started" ELSE "spawn", started |-> "reset",
     threadStarted |-> "reset", looping |-> "test",
     loopStopped |-> IF f = Main THEN "complete" ELSE "threadStopped", threadStopped |-> "ended",
     established |-> back[f], new |-> "dispatch", closed |-> "remove", removed |-> back[f],
     complete |-> "stop", destroyed |-> "exited",
     received |-> "handler", stopping |-> "stopMain", stopped |-> "leave"]

LogPoints ==
    {"created", "config", "failed", "bound", "listening", "started", "threadStarted", "looping",
     "loopStopped", "threadStopped", "established", "new", "closed", "removed", "complete", "destroyed",
     "received", "stopping", "stopped"}

Points ==
    LogPoints \cup
    {"assign", "start", "create", "bind", "listen", "spawn", "pushLoop", "pushThread",
     "reset", "publish", "test", "poll", "wait", "dispatch", "swap", "run",
     "insert", "establish", "remove", "erase", "relock", "destroy",
     "handler", "stop", "stopMain", "stopLoops", "beginJoin", "join", "lockConns", "forceClose",
     "forced", "leave", "none", "ended", "exited", "off", "aborted"}

Kinds == {"establish", "destroy", "forceClose", "remove"}
Task(kind, c) == [kind |-> kind, conn |-> c]

Open == {"CONNECTED", "DISCONNECTING"}

TypeOK ==
    /\ {gServer, started} \subseteq BOOLEAN
    /\ threadNum \in ThreadNums /\ nLoops \in 0 .. threadNum /\ nThreads \in 0 .. nLoops
    /\ at \in [Frames -> Points]
    /\ on \in [Handlers -> Threads]
    /\ signals \in 0 .. MaxSignals
    /\ \A h \in Handlers : -h > signals => at[h] = "off" /\ on[h] = Main
    /\ holder \in [Mutexes -> Frames \cup {Nobody}]
    /\ cur \in [Frames -> {0} \cup Conns]
    /\ back \in [Frames -> {"dispatch", "run", "new", "forceClose"}]
    /\ quit \in [Loops -> BOOLEAN] /\ wakeup \in [Workers -> BOOLEAN]
    /\ pending \in [Loops -> Seq([kind : Kinds, conn : Conns])]
    /\ tasks \in [Loops -> Seq([kind : Kinds, conn : Conns])]
    /\ connections \subseteq 1 .. accepted /\ accepted \in 0 .. NConns
    /\ nextIndex \in -IntMax - 1 .. IntMax
    /\ home \in [1 .. accepted -> IF threadNum = 0 THEN {MainLoop} ELSE 1 .. threadNum]
    /\ state \in [1 .. accepted -> {"CONNECTING", "CONNECTED", "DISCONNECTING", "DISCONNECTED"}]
    /\ ended \subseteq 1 .. accepted
    /\ joining \subseteq Workers /\ closing \subseteq Conns

\* main() has installed the handlers, and constructs the server.
Init ==
    /\ gServer = FALSE /\ started = FALSE /\ threadNum \in ThreadNums
    /\ nLoops = 0 /\ nThreads = 0
    /\ at = [f \in Frames |-> IF f = Main THEN "created" ELSE IF f \in Workers THEN "none" ELSE "off"]
    /\ on = [h \in Handlers |-> Main] /\ signals = 0
    /\ holder = [m \in Mutexes |-> Nobody]
    /\ cur = [f \in Frames |-> 0] /\ back = [f \in Frames |-> "run"]
    /\ quit = [l \in Loops |-> FALSE] /\ wakeup = [w \in Workers |-> FALSE]
    /\ pending = [l \in Loops |-> <<>>] /\ tasks = [l \in Loops |-> <<>>]
    /\ connections = {} /\ accepted = 0 /\ nextIndex = 0
    /\ home = <<>> /\ state = <<>> /\ ended = {}
    /\ joining = {} /\ closing = {}
-----------------------------------------------------------------------------
(* Frames, mutexes and queues.                                             *)

\* The thread on which f runs.
ThreadOf(f) == IF f \in Handlers THEN on[f] ELSE f

\* No newer handler has interrupted f.
OnTop(f) == \A h \in Handlers : h < f /\ on[h] = ThreadOf(f) => at[h] = "off"

At(f, p) == at[f] = p /\ OnTop(f)

Go(f, p) == at' = [at EXCEPT ![f] = p] /\ UNCHANGED signalVars

\* f takes a connection in hand, from which it goes back to a point; and it is done with it.
Takes(f, c, p) == cur' = [cur EXCEPT ![f] = c] /\ back' = [back EXCEPT ![f] = p]
Returns(f) == Takes(f, 0, "run")

\* loop_thread_id_ of l: the constructing thread, until run() has published its own.
LoopThread(l) ==
    IF l # MainLoop /\ at[l] \in {"none", "threadStarted", "reset", "publish"} THEN Main ELSE l

\* isInLoopThread() of l, called by f.
InLoop(f, l) == LoopThread(l) = ThreadOf(f)

\* The loop whose runInLoop() f calls.
Target(f) == IF at[f] = "remove" THEN MainLoop ELSE home[cur[f]]

\* The mutex that is locked at f's point.
Needs(f) ==
    CASE at[f] \in LogPoints -> LogMutex
      [] at[f] \in {"insert", "erase", "relock", "lockConns"} -> ConnsMutex
      [] at[f] = "swap" -> TasksOf(f)
      [] at[f] \in {"establish", "remove", "destroy", "forced"} ->
            IF InLoop(f, Target(f)) THEN NoMutex ELSE TasksOf(Target(f))
      [] OTHER -> NoMutex

\* std::lock_guard: lock.  A frame that finds the mutex locked by one that it has interrupted
\* waits for ever.
Lock(f) ==
    /\ OnTop(f)
    /\ Needs(f) # NoMutex
    /\ holder[Needs(f)] = Nobody
    /\ holder' = [holder EXCEPT ![Needs(f)] = f]
    /\ UNCHANGED <<serverVars, at, signalVars, callVars, loopVars, connVars, stopVars>>

\* A step that f takes with the lock it needs, if any, and that unlocks it.
Unlocking(f) ==
    LET m == Needs(f) IN
    IF m = NoMutex
    THEN UNCHANGED holder
    ELSE holder[m] = f /\ holder' = [holder EXCEPT ![m] = Nobody]

\* Logger::log(): a line is written.
Log(f) ==
    /\ at[f] \in LogPoints /\ OnTop(f)
    /\ Unlocking(f)
    /\ Go(f, AfterLog(f)[at[f]])
    /\ IF at[f] \in {"established", "removed"} THEN Returns(f) ELSE UNCHANGED callVars
    /\ UNCHANGED <<serverVars, loopVars, connVars, stopVars>>

\* A task joins the queue of a loop, and the loop is woken.
Post(l, task) ==
    /\ pending' = [pending EXCEPT ![l] = Append(@, task)]
    /\ wakeup' = [w \in Workers |-> wakeup[w] \/ w = l]
    /\ UNCHANGED <<quit, tasks>>
-----------------------------------------------------------------------------
(* main() and start().                                                     *)

\* main(): "g_server = ...".
Assign ==
    /\ At(Main, "assign")
    /\ gServer' = TRUE
    /\ Go(Main, "config")
    /\ UNCHANGED <<threadNum, started, nLoops, nThreads, holder, callVars, loopVars, connVars, stopVars>>

\* start(): "started_.exchange(true)".
Start ==
    /\ At(Main, "start")
    /\ started' = TRUE
    /\ Go(Main, "create")
    /\ UNCHANGED <<gServer, threadNum, nLoops, nThreads, holder, callVars, loopVars, connVars, stopVars>>

\* start(): a call on the acceptor's socket succeeds, or start() returns.
SetUp(from, to) ==
    /\ At(Main, from)
    /\ \E p \in {to, "failed"} : Go(Main, p)
    /\ UNCHANGED <<serverVars, holder, callVars, loopVars, connVars, stopVars>>

Create == SetUp("create", "bind")
Bind == SetUp("bind", "bound")
Listen == SetUp("listen", "listening")

\* start(): a loop and its thread ...
Spawn ==
    /\ At(Main, "spawn")
    /\ at' = [at EXCEPT ![nLoops + 1] = "threadStarted", ![Main] = "pushLoop"]
    /\ UNCHANGED <<serverVars, signalVars, holder, callVars, loopVars, connVars, stopVars>>

\* ... "loops_.push_back(...)" ...
PushLoop ==
    /\ At(Main, "pushLoop")
    /\ nLoops' = nLoops + 1
    /\ Go(Main, "pushThread")
    /\ UNCHANGED <<gServer, threadNum, started, nThreads, holder, callVars, loopVars, connVars, stopVars>>

\* MUTANT of PushThread: the loop goes round once too often.
PushThreadOneMore ==
    /\ At(Main, "pushThread")
    /\ nThreads' = nThreads + 1
    /\ Go(Main, IF nThreads' <= threadNum THEN "spawn" ELSE "started")
    /\ UNCHANGED <<gServer, threadNum, started, nLoops, holder, callVars, loopVars, connVars, stopVars>>

\* ... "threads_.push_back(...)"; after the last, the acceptor is registered with the main loop.
PushThread ==
    /\ At(Main, "pushThread")
    /\ nThreads' = nThreads + 1
    /\ Go(Main, IF nThreads' < threadNum THEN "spawn" ELSE "started")
    /\ UNCHANGED <<gServer, threadNum, started, nLoops, holder, callVars, loopVars, connVars, stopVars>>

MainStep == Assign \/ Start \/ Create \/ Bind \/ Listen \/ Spawn \/ PushLoop \/ PushThread
-----------------------------------------------------------------------------
(* EventLoop::run() on thread t, and the callbacks of its loop.            *)

\* run(): "quit_ = false", whatever it was.
Reset(t) ==
    /\ At(t, "reset")
    /\ quit' = [quit EXCEPT ![t] = FALSE]
    /\ Go(t, "publish")
    /\ UNCHANGED <<serverVars, holder, callVars, wakeup, pending, tasks, connVars, stopVars>>

\* A step that only moves on.
Moves(t, from, to) ==
    /\ At(t, from)
    /\ Go(t, to)
    /\ UNCHANGED <<serverVars, holder, callVars, loopVars, connVars, stopVars>>

\* run(): loop_thread_id_ is assigned.
Publish(t) == Moves(t, "publish", "looping")

\* run(): "while (!quit_)".
Test(t) == Moves(t, "test", IF quit[t] THEN "loopStopped" ELSE "poll")

\* handleEvents(): the thread enters epoll_wait().
EnterWait(t) == Moves(t, "poll", "wait")

\* handleEvents(): there is nothing (more) to do, or accept() fails.
Dispatched(t) == Moves(t, "dispatch", "swap")

\* epoll_wait() returns after ten seconds.
Timeout(t) == Moves(t, "wait", "swap")

\* A connection on l with something to read: the end of its stream.
HasEnded(l) == {c \in connections \cap ended : home[c] = l /\ state[c] \in Open}

\* epoll_wait() returns: a wakeup, or a connection of this loop; on the main loop a client, or any of these.
Wake(t) ==
    /\ At(t, "wait")
    /\ t # MainLoop => wakeup[t] \/ HasEnded(t) # {}
    /\ wakeup' = [w \in Workers |-> wakeup[w] /\ w # t]
    /\ Go(t, "dispatch")
    /\ UNCHANGED <<serverVars, holder, callVars, quit, pending, tasks, connVars, stopVars>>

\* handleRead() finds the end of the stream, and calls handleClose().
HandleClose(t) ==
    /\ At(t, "dispatch")
    /\ \E c \in HasEnded(t) : Takes(t, c, "dispatch")
    /\ Go(t, "closed")
    /\ UNCHANGED <<serverVars, holder, loopVars, connVars, stopVars>>

\* doPendingTasks(): the swap.
Swap(t) ==
    /\ At(t, "swap")
    /\ Unlocking(t)
    /\ tasks' = [tasks EXCEPT ![t] = pending[t]]
    /\ pending' = [pending EXCEPT ![t] = <<>>]
    /\ Go(t, "run")
    /\ UNCHANGED <<serverVars, callVars, quit, wakeup, connVars, stopVars>>

\* doPendingTasks(): all tasks have run ...
NoTask(t) ==
    /\ tasks[t] = <<>>
    /\ Moves(t, "run", "test")

\* ... or the next one does: establishConnection(), forceCloseInLoop() or removeConnectionInLoop(); or
\* that of destroyConnection(), which finds the connection closed.
RunTask(t) ==
    /\ At(t, "run")
    /\ tasks[t] # <<>>
    /\ tasks' = [tasks EXCEPT ![t] = Tail(@)]
    /\ LET task == Head(tasks[t]) c == task.conn IN
        CASE task.kind = "establish" ->
                /\ state' = [state EXCEPT ![c] = "CONNECTED"]
                /\ Go(t, "established") /\ Takes(t, c, "run")
          [] task.kind = "forceClose" /\ state[c] \in Open ->
                Go(t, "closed") /\ Takes(t, c, "run") /\ UNCHANGED state
          [] task.kind = "remove" ->
                Go(t, "erase") /\ Takes(t, c, "run") /\ UNCHANGED state
          [] OTHER -> UNCHANGED <<at, signalVars, callVars, state>>
    /\ UNCHANGED <<serverVars, holder, quit, wakeup, pending, connections, acceptVars, ended, stopVars>>

LoopStep(t) ==
    \/ Reset(t) \/ Publish(t) \/ Test(t) \/ EnterWait(t) \/ Wake(t) \/ Dispatched(t)
    \/ HandleClose(t) \/ Swap(t) \/ NoTask(t) \/ RunTask(t)
-----------------------------------------------------------------------------
(* Connections come and go.                                                *)

\* fetch_add(1) on an int, which wraps.
Incremented(i) == IF i = IntMax THEN -IntMax - 1 ELSE i + 1

\* The value of an int as a size_t.
Unsigned(i) == IF i < 0 THEN i + SizeSpan ELSE i

\* MUTANT of NextLoop: a negative index stands for the first loop.
NextLoopClamped ==
    IF nLoops = 0 THEN MainLoop ELSE IF nextIndex < 0 THEN 1 ELSE 1 + (nextIndex % nLoops)

\* getNextLoop(): the int becomes a size_t, and then the remainder is taken.
NextLoop == IF nLoops = 0 THEN MainLoop ELSE 1 + (Unsigned(nextIndex) % nLoops)

\* handleNewConnection(), up to the insertion.
Accept ==
    /\ At(Main, "dispatch")
    /\ accepted < NConns /\ <<threadNum, accepted + 1, signals>> \in Loads
    /\ accepted' = accepted + 1
    /\ Takes(Main, accepted', "new")
    /\ home' = Append(home, NextLoop)
    /\ nextIndex' = IF nLoops = 0 THEN nextIndex ELSE Incremented(nextIndex)
    /\ state' = Append(state, "CONNECTING")
    /\ Go(Main, "insert")
    /\ UNCHANGED <<serverVars, holder, loopVars, connections, ended, stopVars>>

\* handleNewConnection(): connections_[conn_name] = conn.
Insert ==
    /\ At(Main, "insert")
    /\ Unlocking(Main)
    /\ connections' = connections \cup {cur[Main]}
    /\ Go(Main, "establish")
    /\ UNCHANGED <<serverVars, callVars, loopVars, acceptVars, state, ended, stopVars>>

\* establishConnection(): at once, or by the loop of the connection.
Establish ==
    /\ At(Main, "establish")
    /\ Unlocking(Main)
    /\ IF InLoop(Main, home[cur[Main]])
       THEN /\ state' = [state EXCEPT ![cur[Main]] = "CONNECTED"]
            /\ Go(Main, "established")
            /\ UNCHANGED <<callVars, loopVars>>
       ELSE /\ Post(home[cur[Main]], Task("establish", cur[Main]))
            /\ Go(Main, "new") /\ Returns(Main)
            /\ UNCHANGED state
    /\ UNCHANGED <<serverVars, connections, acceptVars, ended, stopVars>>

\* handleClose(): the state, and removeConnection().  On the main loop removeConnectionInLoop() follows at
\* once: it locks connections_mutex_, also when that is locked already by the stop() it is called from.
Remove(f) ==
    /\ At(f, "remove")
    /\ Unlocking(f)
    /\ state' = [state EXCEPT ![cur[f]] = "DISCONNECTED"]
    /\ IF InLoop(f, MainLoop)
       THEN Go(f, IF holder[ConnsMutex] = f THEN "relock" ELSE "erase") /\ UNCHANGED <<callVars, loopVars>>
       ELSE Post(MainLoop, Task("remove", cur[f])) /\ Go(f, back[f]) /\ Returns(f)
    /\ UNCHANGED <<serverVars, connections, acceptVars, ended, stopVars>>

\* removeConnectionInLoop(): connections_.erase().
Erase ==
    /\ At(Main, "erase")
    /\ Unlocking(Main)
    /\ connections' = connections \ {cur[Main]}
    /\ Go(Main, "destroy")
    /\ UNCHANGED <<serverVars, callVars, loopVars, acceptVars, state, ended, stopVars>>

\* removeConnectionInLoop(): destroyConnection(), whose task finds the connection closed.
Destroy ==
    /\ At(Main, "destroy")
    /\ Unlocking(Main)
    /\ IF InLoop(Main, home[cur[Main]])
       THEN UNCHANGED loopVars
       ELSE Post(home[cur[Main]], Task("destroy", cur[Main]))
    /\ Go(Main, "removed")
    /\ UNCHANGED <<serverVars, callVars, connVars, stopVars>>

\* A client closes its side.
PeerEnds(c) ==
    /\ c <= accepted /\ c \notin ended
    /\ ended' = ended \cup {c}
    /\ UNCHANGED <<serverVars, at, signalVars, holder, callVars, loopVars, connections, acceptVars, state, stopVars>>
-----------------------------------------------------------------------------
(* A signal, its handler, and stop(), which the handler calls, and main()  *)
(* when ~EchoServer() runs at the exit.                                    *)

\* The handlers that run on t, or that others have interrupted there.
Active(t) == {h \in Handlers : at[h] # "off" /\ on[h] = t}

\* The kernel delivers a signal to any thread that does not block it; epoll_wait() ends with EINTR.
Signal(t) ==
    /\ signals < MaxSignals /\ <<threadNum, accepted, signals + 1>> \in Loads
    /\ at[t] \notin {"none", "ended"} /\ Cardinality(Active(t)) < MaxNesting
    /\ signals' = signals + 1
    /\ on' = [on EXCEPT ![-signals'] = t]
    /\ at' = [at EXCEPT ![-signals'] = "received", ![t] = IF @ = "wait" THEN "swap" ELSE @]
    /\ UNCHANGED <<serverVars, holder, callVars, loopVars, connVars, stopVars>>

\* signalHandler(): "if (g_server)".
Handler(f) == Moves(f, "handler", IF gServer THEN "stop" ELSE "leave")

\* MUTANT of Stop: started_ is tested and stays set.
StopUnguarded(f) ==
    /\ At(f, "stop")
    /\ Go(f, IF started THEN "stopping" ELSE "leave")
    /\ UNCHANGED <<serverVars, holder, callVars, loopVars, connVars, stopVars>>

\* stop(): "started_.exchange(false)".
Stop(f) ==
    /\ At(f, "stop")
    /\ started' = FALSE
    /\ Go(f, IF started THEN "stopping" ELSE "leave")
    /\ UNCHANGED <<gServer, threadNum, nLoops, nThreads, holder, callVars, loopVars, connVars, stopVars>>

\* stop(): main_loop_->stop().
StopMain(f) ==
    /\ At(f, "stopMain")
    /\ quit' = [quit EXCEPT ![MainLoop] = TRUE]
    /\ Go(f, "stopLoops")
    /\ UNCHANGED <<serverVars, holder, callVars, wakeup, pending, tasks, connVars, stopVars>>

\* MUTANT of StopLoops: the loops are not woken.
StopLoopsUnwoken(f) ==
    /\ At(f, "stopLoops")
    /\ quit' = [l \in Loops |-> quit[l] \/ l \in 1 .. nLoops]
    /\ Go(f, "beginJoin")
    /\ UNCHANGED <<serverVars, holder, callVars, wakeup, pending, tasks, connVars, stopVars>>

\* stop(): loop->stop() for every loop of loops_.
StopLoops(f) ==
    /\ At(f, "stopLoops")
    /\ quit' = [l \in Loops |-> quit[l] \/ l \in 1 .. nLoops]
    /\ wakeup' = [w \in Workers |-> wakeup[w] \/ (w <= nLoops /\ ~InLoop(f, w))]
    /\ Go(f, "beginJoin")
    /\ UNCHANGED <<serverVars, holder, callVars, pending, tasks, connVars, stopVars>>

\* stop(): "for (auto& thread : threads_)" goes over what is there when it begins.
BeginJoin(f) ==
    /\ At(f, "beginJoin")
    /\ joining' = 1 .. nThreads
    /\ Go(f, "join")
    /\ UNCHANGED <<serverVars, holder, callVars, loopVars, connVars, closing>>

\* MUTANT of Join: the threads are left to themselves.
JoinNobody(f) ==
    /\ At(f, "join")
    /\ joining' = {}
    /\ Go(f, "lockConns")
    /\ UNCHANGED <<serverVars, holder, callVars, loopVars, connVars, closing>>

\* stop(): thread->join() for every thread of threads_.
Join(f) ==
    /\ At(f, "join")
    /\ \A w \in joining : at[w] = "ended"
    /\ joining' = {}
    /\ Go(f, "lockConns")
    /\ UNCHANGED <<serverVars, holder, callVars, loopVars, connVars, closing>>

\* stop() on a thread of threads_, after those before it: join() throws, as a thread cannot wait for
\* itself, and nobody catches it.
JoinSelf(f) ==
    /\ ThreadOf(f) \in joining
    /\ \A w \in joining : w < ThreadOf(f) => at[w] = "ended"
    /\ Moves(f, "join", "aborted")

\* stop(): connections_ is locked until it has been cleared.
CloseAll(f) ==
    /\ At(f, "lockConns")
    /\ holder[ConnsMutex] = f
    /\ closing' = connections
    /\ Go(f, "forceClose")
    /\ UNCHANGED <<serverVars, holder, callVars, loopVars, connVars, joining>>

\* stop(): pair.second->forceClose() ...
ForceClose(f) ==
    /\ At(f, "forceClose")
    /\ \E c \in closing :
        /\ closing' = closing \ {c}
        /\ IF state[c] \in Open
           THEN /\ state' = [state EXCEPT ![c] = "DISCONNECTING"]
                /\ Go(f, "forced") /\ Takes(f, c, "forceClose")
           ELSE UNCHANGED <<at, signalVars, callVars, state>>
    /\ UNCHANGED <<serverVars, holder, loopVars, connections, acceptVars, ended, joining>>

\* ... whose forceCloseInLoop() goes to the loop of the connection, or calls handleClose() at once.
Forced(f) ==
    /\ At(f, "forced")
    /\ Unlocking(f)
    /\ IF InLoop(f, home[cur[f]]) /\ state[cur[f]] \in Open
       THEN Go(f, "closed") /\ UNCHANGED <<callVars, loopVars>>
       ELSE /\ Go(f, "forceClose") /\ Returns(f)
            /\ IF InLoop(f, home[cur[f]])
               THEN UNCHANGED loopVars
               ELSE Post(home[cur[f]], Task("forceClose", cur[f]))
    /\ UNCHANGED <<serverVars, connVars, stopVars>>

\* stop(): connections_.clear(), and the unlock.
Clear(f) ==
    /\ At(f, "forceClose") /\ closing = {}
    /\ connections' = {}
    /\ holder' = [holder EXCEPT ![ConnsMutex] = Nobody]
    /\ Go(f, "stopped")
    /\ UNCHANGED <<serverVars, callVars, loopVars, acceptVars, state, ended, stopVars>>

\* The handler returns to what it has interrupted; or the destructor goes on, and the process exits.
Leave(f) == Moves(f, "leave", IF f \in Handlers THEN "off" ELSE "destroyed")

StopStep(f) ==
    \/ Handler(f) \/ Stop(f) \/ StopMain(f) \/ StopLoops(f) \/ BeginJoin(f) \/ Join(f) \/ JoinSelf(f)
    \/ CloseAll(f) \/ ForceClose(f) \/ Forced(f) \/ Clear(f) \/ Leave(f)
-----------------------------------------------------------------------------
FrameStep(f) ==
    \/ Lock(f) \/ Log(f) \/ Remove(f) \/ StopStep(f)
    \/ f \in Threads /\ LoopStep(f)
    \/ f = Main /\ (MainStep \/ Accept \/ Insert \/ Establish \/ Erase \/ Destroy)

\* The process has neither exited nor been aborted.
Running == at[Main] # "exited" /\ \A f \in Frames : at[f] # "aborted"

Next ==
    /\ Running
    /\ \/ \E f \in Frames : FrameStep(f)
       \/ \E t \in Threads : Signal(t)
       \/ \E w \in Workers : Timeout(w)
       \/ \E c \in Leaving : PeerEnds(c)

Spec == Init /\ [][Next]_vars

\* What thread t does, itself or in a handler.
ThreadStep(t) == Running /\ \E f \in Frames : ThreadOf(f) = t /\ FrameStep(f)

\* The threads are scheduled.  The main loop's epoll_wait() returns at the latest with its timeout; the
\* workers do without.
FairSpec == Spec /\ \A t \in Threads : WF_vars(ThreadStep(t))
-----------------------------------------------------------------------------
(* Properties.                                                             *)

\* The connections that have been given to a worker.
GivenTo(w) == {c \in 1 .. accepted : home[c] = w}

\* Connections are spread over the workers one by one, also when next_loop_index_ wraps and while it
\* is negative, for a number of workers that divides 2^32: a power of two.
SpreadEvenly ==
    \A v, w \in 1 .. threadNum :
        IntSpan % threadNum = 0 => Cardinality(GivenTo(v)) <= Cardinality(GivenTo(w)) + 1

\* Those that are in stop(), behind started_.exchange(false), or in what forceClose() calls from there: a
\* handler, or main() in the destructor.
InStop ==
    {f \in Frames :
        \/ at[f] \in {"stopping", "stopMain", "stopLoops", "beginJoin", "join", "lockConns", "forceClose",
                     "stopped", "aborted"}
        \/ back[f] = "forceClose"}

\* stop() does its work once: neither two handlers, on one thread or on two, nor a handler and the
\* destructor are in the middle of it together, whether or not start() is in the middle.
StopsOnce == \A f, g \in InStop : f = g

\* A worker that has been told to stop does not sleep, so that join() can wait for it: it has seen quit_
\* before it entered epoll_wait(), or is woken.  Only a stop() that it runs itself, in a handler, does
\* not wake it.
StoppedWorkerWakes ==
    \A w \in Workers : quit[w] /\ at[w] = "wait" => wakeup[w] \/ \E h \in Handlers : on[h] = w

\* When the process exits every worker thread has been joined: ~EchoServer() destroys no thread that
\* runs, although its own stop() does nothing once another one has begun, and a signal may have
\* stopped the server at any point of start().  The one exception is a stop() that a signal has brought
\* to a worker: main() does not wait for it, and it is not done when the process exits.
ExitJoinsAll ==
    at[Main] = "exited" =>
        \/ \A w \in Workers : at[w] \in {"none", "ended"}
        \/ \E f \in InStop : ThreadOf(f) # Main

\* A handler waits for Logger::mutex_, and the code that it has interrupted holds it.
StuckInLog ==
    \E h \in Handlers, f \in Frames :
        at[h] \in LogPoints /\ holder[LogMutex] = f /\ h < f /\ on[h] = ThreadOf(f)

\* Without workers, stop() waits for connections_mutex_, which it holds itself: forceClose() has run
\* handleClose() and removeConnectionInLoop() at once.
StuckInClose == threadNum = 0 /\ \E f \in Frames : at[f] = "relock"

\* f has begun stop() on the main thread, and has interrupted the main loop where it holds no mutex; the
\* workers have all passed the reset of quit_.
StopsUndisturbed(f) ==
    /\ at[f] = "stopMain" /\ on[f] = Main
    /\ at[Main] \in {"looping", "test", "poll", "swap", "dispatch", "insert", "establish", "established", "new",
                    "run", "closed", "remove", "erase", "destroy", "removed"}
    /\ \A m \in Mutexes, g \in Frames : holder[m] = g => ThreadOf(g) # Main
    /\ \A w \in 1 .. threadNum : at[w] \notin {"none", "threadStarted", "reset"}

\* Such a stop() ends the process, whatever the workers and the queues are at and whatever signals
\* follow, on whichever threads: or a thread gets stuck in one of these two ways, and in the second
\* only without workers.
StopEndsServer ==
    (\E f \in Handlers : StopsUndisturbed(f)) ~> at[Main] = "exited" \/ StuckInLog \/ StuckInClose
-----------------------------------------------------------------------------
(* What the source says of itself, and does not do.                        *)

\* "Wait for the worker threads to end" (echo_server.cpp:105): none runs when the process exits.
WorkersEndFirst == at[Main] = "exited" => \A w \in Workers : at[w] \in {"none", "ended"}

\* "Close all connections" (echo_server.cpp:112): stop() gets through the connections.
StopClosesAll == \A f \in Frames : at[f] = "forceClose" ~> at[f] = "stopped"

\* "Received signal, shutting down server..." (main.cpp:14): the handler gets to its next line.
HandlerGoesOn == \A h \in Handlers : at[h] = "received" ~> at[h] = "handler"
=============================================================================
