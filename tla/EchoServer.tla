----------------------------- MODULE EchoServer -----------------------------
(***************************************************************************)
(* The life of the connections of an EchoServer (src/src/echo_server.cpp): *)
(* the main loop accepts them and takes them out of connections_, worker   *)
(* loops run their handlers, and shared_ptr counts decide when the object  *)
(* and its descriptor go.  The callbacks of a handler and the tasks of     *)
(* establishConnection() and destroyConnection() hold a bare "this".       *)
(*                                                                         *)
(* The execution ends at the first use of a connection that is gone: what  *)
(* the program does after it is undefined.                                 *)
(*                                                                         *)
(* The loops are those of EventLoop, with their batches and task vectors;  *)
(* the data path is that of Connection.  Left out: start() and stop(), and *)
(* what is read and written, which holds no reference across a step.       *)
(***************************************************************************)
EXTENDS Integers, Sequences

CONSTANTS
    NConns,     \* BOUND: connections accepted
    NWorkers,   \* thread_num_
    MaxRemovals \* BOUND: removals queued on the main loop

ASSUME NConnsAssumption == NConns \in Nat
ASSUME NWorkersAssumption == NWorkers \in Nat \ {0}
ASSUME MaxRemovalsAssumption == MaxRemovals \in Nat

Conns == 1 .. NConns
Fds == 1 .. NConns
Workers == 0 .. NWorkers - 1
None == 0

VARIABLES
    accepted,   \* next_conn_id_ - 1
    connections,\* the keys of connections_
    establishing, \* the connection that handleNewConnection() has in hand, or None
    removals,   \* main loop: queued removeConnectionInLoop() tasks
    removing,   \* main loop: the vector doPendingTasks() works through
    removed,    \* main loop: how many of them have run
    state,      \* state_ of each connection
    fd,         \* the descriptor each connection got
    ended,      \* the peer has closed or reset the connection
    sockErr,    \* SO_ERROR is set
    epoll,      \* connections that a loop has registered with its epoll
    running,    \* the worker has published its thread in loop_thread_id_
    handlers,   \* handlers_ of each worker loop: the connection a descriptor's handler calls
    loop,       \* where each worker is
    batch,      \* events of the last epoll_wait() of each worker, not yet dispatched
    current,    \* the handler a worker is in, and the callbacks it has still to make
    tasks,      \* the vector of tasks each worker works through
    pending,    \* tasks queued on each worker loop
    fault       \* a connection was used after it was gone

mainVars == <<accepted, connections, establishing, removals, removing, removed>>
connVars == <<state, fd, ended, sockErr, epoll>>
workerVars == <<running, handlers, loop, batch, current, tasks, pending>>
vars == <<mainVars, connVars, workerVars, fault>>

Callback == {"error", "read", "write"}
Idle == [conn |-> None, calls |-> <<>>]
Events == [conn : Conns, calls : Seq(Callback)]
Elements(s) == {s[i] : i \in DOMAIN s}

TypeOK ==
    /\ accepted \in 0 .. NConns
    /\ connections \subseteq 1 .. accepted /\ epoll \subseteq 1 .. accepted
    /\ ended \subseteq Conns /\ sockErr \subseteq Conns
    /\ establishing \in Conns \cup {None}
    /\ removals \in Seq(Conns) /\ removing \in Seq(Conns) /\ removed \in 0 .. Len(removing)
    /\ state \in [Conns -> {"CONNECTING", "CONNECTED", "DISCONNECTED"}]
    /\ fd \in [Conns -> Fds \cup {None}]
    /\ running \in [Workers -> BOOLEAN]
    /\ handlers \in [Workers -> [Fds -> Conns \cup {None}]]
    /\ loop \in [Workers -> {"unstarted", "poll", "dispatch", "tasks"}]
    /\ batch \in [Workers -> SUBSET Events] /\ current \in [Workers -> Events \cup {Idle}]
    /\ tasks \in [Workers -> Seq([kind : {"establish", "destroy"}, conn : Conns])]
    /\ pending \in [Workers -> Seq([kind : {"establish", "destroy"}, conn : Conns])]
    /\ fault \in BOOLEAN

Init ==
    /\ accepted = 0 /\ connections = {} /\ establishing = None
    /\ removals = <<>> /\ removing = <<>> /\ removed = 0
    /\ state = [c \in Conns |-> "CONNECTING"] /\ fd = [c \in Conns |-> None]
    /\ ended = {} /\ sockErr = {} /\ epoll = {}
    /\ running = [w \in Workers |-> FALSE]
    /\ handlers = [w \in Workers |-> [f \in Fds |-> None]]
    /\ loop = [w \in Workers |-> "unstarted"]
    /\ batch = [w \in Workers |-> {}] /\ current = [w \in Workers |-> Idle]
    /\ tasks = [w \in Workers |-> <<>>] /\ pending = [w \in Workers |-> <<>>]
    /\ fault = FALSE

\* getNextLoop(): round robin.
LoopOf(c) == (c - 1) % NWorkers

\* Some shared_ptr to c is left: the map's, that of handleNewConnection(), or that of a removal.
Alive(c) ==
    \/ c \in connections
    \/ c = establishing
    \/ c \in Elements(removals) \cup Elements(removing)

\* The descriptor of a connection is closed with the object, and the kernel takes it out of epoll.
Open(f) == \E c \in Conns : Alive(c) /\ fd[c] = f
Registered(w) == {c \in epoll : Alive(c) /\ LoopOf(c) = w}

\* The peer closes its side, or resets the connection.
PeerEnds(c) ==
    /\ ~fault
    /\ c <= accepted /\ c \notin ended
    /\ ended' = ended \cup {c}
    /\ sockErr' \in {sockErr, sockErr \cup {c}}
    /\ UNCHANGED <<mainVars, state, fd, epoll, workerVars, fault>>
-----------------------------------------------------------------------------
(* The main thread.                                                        *)

\* handleNewConnection(), up to the insertion in connections_; the descriptor is the lowest free.
Accept ==
    /\ ~fault
    /\ establishing = None /\ removing = <<>> /\ accepted < NConns
    /\ accepted' = accepted + 1
    /\ establishing' = accepted'
    /\ connections' = connections \cup {accepted'}
    /\ \E f \in Fds :
        /\ ~Open(f) /\ \A g \in Fds : g < f => Open(g)
        /\ fd' = [fd EXCEPT ![accepted'] = f]
    /\ UNCHANGED <<removals, removing, removed, state, ended, sockErr, epoll, workerVars, fault>>

\* MUTANT of AddHandler: an entry that is there already is kept, as insert() would.
AddHandlerKeeps(c) ==
    /\ epoll' = epoll \cup {c}
    /\ handlers' = [handlers EXCEPT ![LoopOf(c)][fd[c]] = IF @ = None THEN c ELSE @]

\* EventLoop::addHandler(): EPOLL_CTL_ADD, and handlers_[fd] is assigned.
AddHandler(c) ==
    /\ epoll' = epoll \cup {c}
    /\ handlers' = [handlers EXCEPT ![LoopOf(c)][fd[c]] = c]

\* EventLoop::removeHandler(): EPOLL_CTL_DEL, and the entry of the descriptor is erased.
RemoveHandler(c) ==
    /\ epoll' = epoll \ {c}
    /\ handlers' = [handlers EXCEPT ![LoopOf(c)][fd[c]] = None]

\* The task of establishConnection().
EstablishInLoop(c) ==
    /\ state' = [state EXCEPT ![c] = "CONNECTED"]
    /\ AddHandler(c)

Post(w, kind, c) == pending' = [pending EXCEPT ![w] = Append(@, [kind |-> kind, conn |-> c])]

\* MUTANT of Establish: always on the main thread.
EstablishAtOnce ==
    /\ ~fault /\ establishing # None
    /\ EstablishInLoop(establishing)
    /\ establishing' = None
    /\ UNCHANGED <<accepted, connections, removals, removing, removed, fd, ended, sockErr, running, loop, batch, current, tasks, pending, fault>>

\* establishConnection(): on the main thread itself while the worker has not published its own.
Establish ==
    /\ ~fault
    /\ establishing # None
    /\ IF running[LoopOf(establishing)]
       THEN Post(LoopOf(establishing), "establish", establishing) /\ UNCHANGED <<state, epoll, handlers>>
       ELSE EstablishInLoop(establishing) /\ UNCHANGED pending
    /\ establishing' = None
    /\ UNCHANGED <<accepted, connections, removals, removing, removed, fd, ended, sockErr, running, loop, batch, current, tasks, fault>>

\* doPendingTasks() of the main loop: the swap.
SwapRemovals ==
    /\ ~fault
    /\ establishing = None /\ removing = <<>> /\ removals # <<>>
    /\ removing' = removals
    /\ removals' = <<>>
    /\ UNCHANGED <<accepted, connections, establishing, removed, connVars, workerVars, fault>>

\* MUTANT of RemoveConnectionInLoop: the connection is not destroyed.
RemoveWithoutDestroy ==
    /\ ~fault /\ removed < Len(removing)
    /\ connections' = connections \ {removing[removed + 1]}
    /\ removed' = removed + 1
    /\ UNCHANGED <<accepted, establishing, removals, removing, connVars, workerVars, fault>>

\* MUTANT of RemoveConnectionInLoop: the connection stays in the map.
DestroyWithoutRemove ==
    /\ ~fault /\ removed < Len(removing)
    /\ Post(LoopOf(removing[removed + 1]), "destroy", removing[removed + 1])
    /\ removed' = removed + 1
    /\ UNCHANGED <<accepted, connections, establishing, removals, removing, connVars, running, handlers, loop, batch, current, tasks, fault>>

\* removeConnectionInLoop(): the map lets go of the connection, and destroyConnection() posts.
RemoveConnectionInLoop ==
    /\ ~fault
    /\ removed < Len(removing)
    /\ LET c == removing[removed + 1] IN
        /\ connections' = connections \ {c}
        /\ Post(LoopOf(c), "destroy", c)
    /\ removed' = removed + 1
    /\ UNCHANGED <<accepted, establishing, removals, removing, connVars, running, handlers, loop, batch, current, tasks, fault>>

\* MUTANT of DropRemovals: the tasks are destroyed, the count of those that have run stays.
DropKeepsCount ==
    /\ ~fault /\ removing # <<>> /\ removed = Len(removing)
    /\ removing' = <<>>
    /\ UNCHANGED <<accepted, connections, establishing, removals, removed, connVars, workerVars, fault>>

\* doPendingTasks() of the main loop: the vector and the shared_ptrs its tasks hold are destroyed.
DropRemovals ==
    /\ ~fault
    /\ removing # <<>> /\ removed = Len(removing)
    /\ removing' = <<>>
    /\ removed' = 0
    /\ UNCHANGED <<accepted, connections, establishing, removals, connVars, workerVars, fault>>

MainStep == Establish \/ SwapRemovals \/ RemoveConnectionInLoop \/ DropRemovals
-----------------------------------------------------------------------------
(* A worker thread.                                                        *)

\* run() publishes the thread.
Start(w) ==
    /\ ~fault
    /\ loop[w] = "unstarted"
    /\ running' = [running EXCEPT ![w] = TRUE]
    /\ loop' = [loop EXCEPT ![w] = "poll"]
    /\ UNCHANGED <<mainVars, connVars, handlers, batch, current, tasks, pending, fault>>

\* EventHandler::handleEvents(): the callbacks of an event, with EPOLLOUT in it or not.
Callbacks(c, writable) ==
       (IF c \in sockErr THEN <<"error">> ELSE <<>>)
    \o <<"read">>
    \o (IF writable THEN <<"write">> ELSE <<>>)

\* epoll_wait(): every connection that has ended is readable, the others may be.
Poll(w) ==
    /\ ~fault
    /\ loop[w] = "poll" /\ Len(removals) < MaxRemovals
    /\ \E ready \in SUBSET Registered(w) : \E writable \in SUBSET ready :
        /\ ended \cap Registered(w) \subseteq ready
        /\ ready # {} \/ pending[w] # <<>>
        /\ batch' = [batch EXCEPT ![w] = {[conn |-> c, calls |-> Callbacks(c, c \in writable)] : c \in ready}]
    /\ loop' = [loop EXCEPT ![w] = "dispatch"]
    /\ UNCHANGED <<mainVars, connVars, running, handlers, current, tasks, pending, fault>>

\* EventLoop::handleEvents(): the next event goes to whatever handler its descriptor has.
Dispatch(w) ==
    /\ ~fault
    /\ loop[w] = "dispatch" /\ current[w].calls = <<>>
    /\ \E e \in batch[w] :
        /\ batch' = [batch EXCEPT ![w] = @ \ {e}]
        /\ LET h == handlers[w][fd[e.conn]] IN
            current' = [current EXCEPT ![w] = IF h = None THEN Idle ELSE [conn |-> h, calls |-> e.calls]]
    /\ UNCHANGED <<mainVars, connVars, running, handlers, loop, tasks, pending, fault>>

\* A callback of the current handler, on the connection its lambda captured.
NextCallback(w) ==
    /\ ~fault
    /\ current[w].calls # <<>>
    /\ Alive(current[w].conn)
    /\ current' = [current EXCEPT ![w].calls = Tail(@)]
    /\ UNCHANGED <<running, handlers, loop, batch, tasks, pending, fault>>

\* removeConnection(): a task that holds a shared_ptr goes to the main loop.
RemoveConnection(c) ==
    /\ removals' = Append(removals, c)
    /\ UNCHANGED <<accepted, connections, establishing, removing, removed>>

\* handleError(), or handleRead() that fails.
HandleError(w) ==
    LET c == current[w].conn IN
    /\ NextCallback(w)
    /\ Head(current[w].calls) = "error" \/ (Head(current[w].calls) = "read" /\ c \in sockErr)
    /\ sockErr' = sockErr \ {c}
    /\ RemoveConnection(c)
    /\ UNCHANGED <<state, fd, ended, epoll>>

\* handleRead() at the end of the stream: handleClose().
HandleClose(w) ==
    LET c == current[w].conn IN
    /\ NextCallback(w)
    /\ Head(current[w].calls) = "read" /\ c \in ended /\ c \notin sockErr
    /\ state' = [state EXCEPT ![c] = "DISCONNECTED"]
    /\ RemoveConnection(c)
    /\ UNCHANGED <<fd, ended, sockErr, epoll>>

\* handleRead() with data, or handleWrite(): nothing that outlives the callback.
HandleData(w) ==
    LET c == current[w].conn IN
    /\ NextCallback(w)
    /\ Head(current[w].calls) = "write" \/ (Head(current[w].calls) = "read" /\ c \notin ended \cup sockErr)
    /\ UNCHANGED <<mainVars, connVars>>

\* doPendingTasks(): the swap.
SwapPending(w) ==
    /\ ~fault
    /\ loop[w] = "dispatch" /\ batch[w] = {} /\ current[w].calls = <<>>
    /\ tasks' = [tasks EXCEPT ![w] = pending[w]]
    /\ pending' = [pending EXCEPT ![w] = <<>>]
    /\ loop' = [loop EXCEPT ![w] = IF pending[w] = <<>> THEN "poll" ELSE "tasks"]
    /\ UNCHANGED <<mainVars, connVars, running, handlers, batch, current, fault>>

NextTask(w, kind) ==
    /\ ~fault
    /\ loop[w] = "tasks"
    /\ Head(tasks[w]).kind = kind
    /\ Alive(Head(tasks[w]).conn)
    /\ tasks' = [tasks EXCEPT ![w] = Tail(@)]
    /\ loop' = [loop EXCEPT ![w] = IF Tail(tasks[w]) = <<>> THEN "poll" ELSE "tasks"]
    /\ UNCHANGED <<fd, ended, sockErr, running, batch, current, pending, fault>>

EstablishTask(w) ==
    /\ NextTask(w, "establish")
    /\ EstablishInLoop(Head(tasks[w]).conn)
    /\ UNCHANGED mainVars

\* The task of destroyConnection(), with removeHandler() and close_callback_.
DestroyTask(w) ==
    LET c == Head(tasks[w]).conn IN
    /\ NextTask(w, "destroy")
    /\ IF state[c] = "CONNECTED"
       THEN /\ state' = [state EXCEPT ![c] = "DISCONNECTED"]
            /\ RemoveHandler(c)
            /\ RemoveConnection(c)
       ELSE UNCHANGED <<mainVars, state, epoll, handlers>>

\* A callback or a task on a connection that is gone.
UseAfterFree(w) ==
    /\ ~fault
    /\ \/ current[w].calls # <<>> /\ ~Alive(current[w].conn)
       \/ loop[w] = "tasks" /\ ~Alive(Head(tasks[w]).conn)
    /\ fault' = TRUE
    /\ UNCHANGED <<mainVars, connVars, workerVars>>

WorkerStep(w) ==
    \/ Start(w) \/ Poll(w) \/ Dispatch(w) \/ HandleError(w) \/ HandleClose(w) \/ HandleData(w)
    \/ SwapPending(w) \/ EstablishTask(w) \/ DestroyTask(w) \/ UseAfterFree(w)
-----------------------------------------------------------------------------
Next ==
    \/ Accept \/ MainStep
    \/ \E c \in Conns : PeerEnds(c)
    \/ \E w \in Workers : WorkerStep(w)

Spec == Init /\ [][Next]_vars

FairSpec == Spec /\ WF_vars(MainStep) /\ \A w \in Workers : WF_vars(WorkerStep(w))
-----------------------------------------------------------------------------
(* Properties.                                                             *)

\* An event is dispatched to the connection it is about: the kernel may have reused its
\* descriptor, but the entry in handlers_ has not moved on under a batch.
EventsReachTheirConnection ==
    \A w \in Workers : \A e \in batch[w] : handlers[w][fd[e.conn]] \in {e.conn, None}

\* A connection that is up has its own handler installed, whoever had its descriptor before.
ConnectedHasHandler ==
    \A c \in Conns : Alive(c) /\ state[c] = "CONNECTED" => handlers[LoopOf(c)][fd[c]] = c

\* A connection that is up is in connections_, where stop() would find it, or its
\* destroyConnection() is on the way.
ConnectedIsTracked ==
    \A c \in Conns : Alive(c) /\ state[c] = "CONNECTED" /\ c \notin connections =>
        [kind |-> "destroy", conn |-> c] \in Elements(tasks[LoopOf(c)]) \cup Elements(pending[LoopOf(c)])

\* A closed connection that is still in connections_ has a removal on the main loop that has not begun: none
\* is forgotten there, for whichever reason and however often it has closed.
ClosedAwaitsRemoval ==
    \A c \in connections : state[c] = "DISCONNECTED" =>
        c \in Elements(removals) \cup {removing[i] : i \in removed + 1 .. Len(removing)}

\* A connection that has closed leaves connections_.
ClosedLeavesMap ==
    \A c \in Conns : state[c] = "DISCONNECTED" ~> c \notin connections \/ fault

\* "Smart pointers manage the lifetime" (guide.md): no connection is used after it is gone.
\* False: see the README.
NoUseAfterFree == ~fault
=============================================================================
