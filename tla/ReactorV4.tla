------------------------------ MODULE ReactorV4 -----------------------------
(***************************************************************************)
(* The echo server of Reactor_v4 (EventLoop.cc, TcpConnection.cc,          *)
(* SocketIO.cc, TestTcpServer.cc): the I/O thread accepts, reads lines and *)
(* hands them to the pool, whose threads hand the replies back through the *)
(* pending functors and the eventfd.  The pool's queue is here what        *)
(* ThreadPool shows it to be: bounded, first in first out.                 *)
(*                                                                         *)
(* Abstracted: the text of a line (lines are shorter than the buffer of    *)
(* receive()); how much of a reply the kernel takes at once; peers that    *)
(* reset, and failures of system calls.  The I/O thread of the model ends  *)
(* when it uses a destroyed connection, as nothing is defined then.        *)
(***************************************************************************)
EXTENDS Integers, Sequences, FiniteSets

CONSTANTS
    Workers,    \* the threads of the pool
    Capacity,   \* of the pool's queue
    SockCap,    \* BOUND: replies that fit into the buffers of a connection's two sockets
    NConns,     \* BOUND: connections that are ever made
    MaxLines    \* BOUND: lines that the peers send, all together

ASSUME CapacityAssumption == Capacity \in Nat \ {0} /\ SockCap \in Nat \ {0}
ASSUME BoundsAssumption == NConns \in Nat /\ MaxLines \in Nat

VARIABLES
    made,       \* how many connections the peers have made, in the order of their numbers
    sent,       \* lines that each peer has sent
    tail,       \* whether it has sent the beginning of another: "none", "sent" or, when read, "read"
    eof,        \* the peers that have finished
    unread,     \* how many replies each peer has still to read
    taken,      \* lines read from each connection
    fdOf,       \* the descriptor of each connection, 0 before accept()
    conns,      \* _conns: descriptor to connection
    registered, \* the descriptors of connections in epoll
    io,         \* where the I/O thread is
    cur,        \* the connection whose message it handles
    batch,      \* what is left of the events of epoll_wait()
    queue,      \* the pool's queue of tasks
    worker,     \* where each pool thread is
    task,       \* the task that it runs
    pending,    \* _pendingFunctors
    functors,   \* what is left of the vector doPendingFunctors() swapped out
    wakeups,    \* the counter of _eventfd
    replied     \* history: the lines that have been sent back

peers == <<made, sent, tail, eof, unread>>
ioVars == <<taken, fdOf, conns, registered, io, cur, batch, functors, replied>>
poolVars == <<queue, worker, task>>
vars == <<peers, ioVars, poolVars, pending, wakeups>>

Conns == 1 .. NConns
Fds == 1 .. NConns
Lines == Conns \X (1 .. MaxLines)
NoConn == 0

\* The descriptors of the listening socket and of the eventfd.
Listen == 0
Event == -1

IoPoints == {"wait", "batch", "read", "push", "swap", "functors", "crashed"}
WorkerPoints == {"pop", "post", "wakeup", "release"}

TypeOK ==
    /\ made \in 0 .. NConns
    /\ sent \in [Conns -> 0 .. MaxLines] /\ tail \in [Conns -> {"none", "sent", "read"}]
    /\ unread \in [Conns -> 0 .. SockCap]
    /\ eof \subseteq 1 .. made /\ \A c \in Conns : fdOf[c] # 0 => c <= made
    /\ taken \in [Conns -> 0 .. MaxLines] /\ \A c \in Conns : taken[c] <= sent[c]
    /\ fdOf \in [Conns -> Fds \cup {0}]
    /\ DOMAIN conns \subseteq Fds /\ \A f \in DOMAIN conns : fdOf[conns[f]] = f
    /\ registered \subseteq Fds
    /\ io \in IoPoints /\ cur \in Conns \cup {NoConn}
    /\ batch \subseteq Fds \cup {Listen, Event}
    /\ queue \in Seq(Lines) /\ Len(queue) <= Capacity
    /\ worker \in [Workers -> WorkerPoints]
    /\ DOMAIN task = {w \in Workers : worker[w] # "pop"} /\ \A w \in DOMAIN task : task[w] \in Lines
    /\ pending \in Seq(Lines) /\ functors \in Seq(Lines)
    /\ wakeups \in Nat
    /\ replied \subseteq Lines
-----------------------------------------------------------------------------
Init ==
    /\ made = 0
    /\ sent = [c \in Conns |-> 0] /\ tail = [c \in Conns |-> "none"] /\ eof = {}
    /\ unread = [c \in Conns |-> 0]
    /\ taken = [c \in Conns |-> 0]
    /\ fdOf = [c \in Conns |-> 0]
    /\ conns = <<>> /\ registered = {}
    /\ io = "wait" /\ cur = NoConn /\ batch = {}
    /\ queue = <<>>
    /\ worker = [w \in Workers |-> "pop"] /\ task = <<>>
    /\ pending = <<>> /\ functors = <<>> /\ wakeups = 0
    /\ replied = {}

\* A shared_ptr to the connection is left: in _conns, or in a task that waits or runs.
Alive(c) ==
    \/ \E f \in DOMAIN conns : conns[f] = c
    \/ \E i \in DOMAIN queue : queue[i][1] = c
    \/ \E w \in DOMAIN task : task[w][1] = c

\* The destructor closes the descriptor.
Open == {fdOf[c] : c \in {d \in Conns : fdOf[d] # 0 /\ Alive(d)}}

Readable(c) == taken[c] < sent[c] \/ tail[c] = "sent" \/ c \in eof

Backlog == {c \in 1 .. made : fdOf[c] = 0}
-----------------------------------------------------------------------------
(* Peers.                                                                  *)

Connect ==
    /\ made < NConns
    /\ made' = made + 1
    /\ UNCHANGED <<sent, tail, eof, unread, ioVars, poolVars, pending, wakeups>>

MaySend(c) == c \in (1 .. made) \ eof /\ Cardinality({l \in Lines : l[2] <= sent[l[1]]}) < MaxLines

SendLine(c) ==
    /\ MaySend(c)
    /\ sent' = [sent EXCEPT ![c] = @ + 1]
    /\ tail' = [tail EXCEPT ![c] = "none"]
    /\ UNCHANGED <<made, eof, unread, ioVars, poolVars, pending, wakeups>>

SendPart(c) ==
    /\ MaySend(c) /\ tail[c] = "none"
    /\ tail' = [tail EXCEPT ![c] = "sent"]
    /\ UNCHANGED <<made, sent, eof, unread, ioVars, poolVars, pending, wakeups>>

Finish(c) ==
    /\ c \in (1 .. made) \ eof
    /\ eof' = eof \cup {c}
    /\ UNCHANGED <<made, sent, tail, unread, ioVars, poolVars, pending, wakeups>>

ReadReply(c) ==
    /\ unread[c] > 0
    /\ unread' = [unread EXCEPT ![c] = @ - 1]
    /\ UNCHANGED <<made, sent, tail, eof, ioVars, poolVars, pending, wakeups>>
-----------------------------------------------------------------------------
(* The I/O thread.                                                         *)

\* The handler of an event returns to the loop over the batch.
Return == io' = IF batch' = {} THEN "wait" ELSE "batch"

Poll ==
    /\ io = "wait"
    /\ batch' = {f \in registered : Readable(conns[f])}
                  \cup {Listen : c \in Backlog} \cup {Event : n \in 1 .. wakeups}
    /\ batch' # {}
    /\ io' = "batch"
    /\ UNCHANGED <<peers, taken, fdOf, conns, registered, cur, functors, replied, poolVars, pending, wakeups>>

\* addEpollReadEvent() and delEpollReadEvent().
AddEpollReadEvent(f) == registered' = registered \cup {f}
DelEpollReadEvent(f) == registered' = registered \ {f}

\* Acceptor::accept(): the oldest connection of the backlog gets the lowest descriptor that is free.
Accepts(c, f) ==
    /\ c \in Backlog /\ \A d \in Backlog : c <= d
    /\ f \in Fds \ Open /\ \A g \in Fds \ Open : f <= g

HandleNewConnection ==
    /\ io = "batch" /\ Listen \in batch
    /\ batch' = batch \ {Listen}
    /\ \E c \in Conns, f \in Fds :
        /\ Accepts(c, f)
        /\ fdOf' = [fdOf EXCEPT ![c] = f]
        /\ conns' = [g \in DOMAIN conns \cup {f} |-> IF g \in DOMAIN conns THEN conns[g] ELSE c]
        /\ AddEpollReadEvent(f)
    /\ Return
    /\ UNCHANGED <<peers, taken, cur, functors, replied, poolVars, pending, wakeups>>

\* isClosed(): nothing to read, and nothing will come.
Closed(c) == taken[c] = sent[c] /\ tail[c] = "none" /\ c \in eof

\* MUTANT of HandleClose: epoll is not told of the close.
CloseKeepsWatch ==
    /\ io = "batch"
    /\ \E f \in batch \ {Listen, Event} :
        /\ Closed(conns[f])
        /\ batch' = batch \ {f}
        /\ conns' = [g \in DOMAIN conns \ {f} |-> conns[g]]
    /\ Return
    /\ UNCHANGED <<peers, taken, fdOf, registered, cur, functors, replied, poolVars, pending, wakeups>>

HandleClose ==
    /\ io = "batch"
    /\ \E f \in batch \ {Listen, Event} :
        /\ Closed(conns[f])
        /\ batch' = batch \ {f}
        /\ DelEpollReadEvent(f)
        /\ conns' = [g \in DOMAIN conns \ {f} |-> conns[g]]
    /\ Return
    /\ UNCHANGED <<peers, taken, fdOf, cur, functors, replied, poolVars, pending, wakeups>>

\* handleMessage() of a connection that is not closed calls onMessage() and that readline().
HandleMessage ==
    /\ io = "batch"
    /\ \E f \in batch \ {Listen, Event} :
        /\ ~Closed(conns[f])
        /\ batch' = batch \ {f}
        /\ cur' = conns[f]
    /\ io' = "read"
    /\ UNCHANGED <<peers, taken, fdOf, conns, registered, functors, replied, poolVars, pending, wakeups>>

\* readn(): what readline() has seen is taken out of the socket.
Readn(c) == taken' = [taken EXCEPT ![c] = @ + 1]

\* readline() finds the end of a line.
ReadLine ==
    /\ io = "read"
    /\ taken[cur] < sent[cur]
    /\ Readn(cur)
    /\ io' = "push"
    /\ UNCHANGED <<peers, fdOf, conns, registered, cur, batch, functors, replied, poolVars, pending, wakeups>>

\* readline() takes the beginning of a line and reads on.  When the peer has finished it reads zero
\* bytes for ever: no action follows.
ReadPart ==
    /\ io = "read"
    /\ taken[cur] = sent[cur] /\ tail[cur] = "sent"
    /\ tail' = [tail EXCEPT ![cur] = "read"]
    /\ UNCHANGED <<made, sent, eof, unread, ioVars, poolVars, pending, wakeups>>

\* MUTANT of AddTask: the queue is not tested.
AddTaskUntested ==
    /\ io = "push"
    /\ queue' = Append(queue, <<cur, taken[cur]>>)
    /\ cur' = NoConn
    /\ batch' = batch
    /\ Return
    /\ UNCHANGED <<peers, taken, fdOf, conns, registered, functors, replied, worker, task, pending, wakeups>>

\* MUTANT of AddTask: a full queue drops the task instead of waiting.
AddTaskOrDrop ==
    /\ io = "push"
    /\ queue' = IF Len(queue) < Capacity THEN Append(queue, <<cur, taken[cur]>>) ELSE queue
    /\ cur' = NoConn
    /\ batch' = batch
    /\ Return
    /\ UNCHANGED <<peers, taken, fdOf, conns, registered, functors, replied, worker, task, pending, wakeups>>

\* addTask(), which waits while the queue is full.
AddTask ==
    /\ io = "push"
    /\ Len(queue) < Capacity
    /\ queue' = Append(queue, <<cur, taken[cur]>>)
    /\ cur' = NoConn
    /\ batch' = batch
    /\ Return
    /\ UNCHANGED <<peers, taken, fdOf, conns, registered, functors, replied, worker, task, pending, wakeups>>

\* handleRead() resets the eventfd.
HandleRead ==
    /\ io = "batch" /\ Event \in batch
    /\ batch' = batch \ {Event}
    /\ wakeups' = 0
    /\ io' = "swap"
    /\ UNCHANGED <<peers, taken, fdOf, conns, registered, cur, functors, replied, poolVars, pending>>

\* MUTANT of SwapFunctors: the vector is copied.
CopyFunctors ==
    /\ io = "swap"
    /\ functors' = pending
    /\ batch' = batch
    /\ IF pending = <<>> THEN Return ELSE io' = "functors"
    /\ UNCHANGED <<peers, taken, fdOf, conns, registered, cur, replied, poolVars, pending, wakeups>>

\* doPendingFunctors() swaps the vector out.
SwapFunctors ==
    /\ io = "swap"
    /\ functors' = pending /\ pending' = <<>>
    /\ batch' = batch
    /\ IF pending = <<>> THEN Return ELSE io' = "functors"
    /\ UNCHANGED <<peers, taken, fdOf, conns, registered, cur, replied, poolVars, wakeups>>

\* TcpConnection::send(): writen() blocks while there is no room.
Writen(line) ==
    /\ unread[line[1]] < SockCap
    /\ unread' = [unread EXCEPT ![line[1]] = @ + 1]
    /\ replied' = replied \cup {line}

\* A functor calls send() with the bare this that sendInLoop() has bound.
RunFunctor ==
    /\ io = "functors"
    /\ functors' = Tail(functors)
    /\ batch' = batch
    /\ IF Alive(Head(functors)[1])
       THEN Writen(Head(functors)) /\ (IF functors' = <<>> THEN Return ELSE io' = io)
       ELSE io' = "crashed" /\ UNCHANGED <<unread, replied>>
    /\ UNCHANGED <<made, sent, tail, eof, taken, fdOf, conns, registered, cur, poolVars, pending, wakeups>>

IoStep ==
    \/ Poll
    \/ HandleNewConnection \/ HandleClose \/ HandleMessage \/ HandleRead
    \/ ReadLine \/ ReadPart \/ AddTask
    \/ SwapFunctors \/ RunFunctor
-----------------------------------------------------------------------------
(* The threads of the pool.                                                *)

WorkerTo(w, point) == worker' = [worker EXCEPT ![w] = point]

TakeTask(w) ==
    /\ worker[w] = "pop" /\ queue # <<>>
    /\ queue' = Tail(queue)
    /\ task' = [v \in DOMAIN task \cup {w} |-> IF v = w THEN Head(queue) ELSE task[v]]
    /\ WorkerTo(w, "post")
    /\ UNCHANGED <<peers, ioVars, pending, wakeups>>

\* Task::process(): sendInLoop() and runInLoop().
Post(w) ==
    /\ worker[w] = "post"
    /\ pending' = Append(pending, task[w])
    /\ WorkerTo(w, "wakeup")
    /\ UNCHANGED <<peers, ioVars, queue, task, wakeups>>

\* MUTANT of Wakeup: none when another functor is there, whose thread may think the same.
WakeupUnlessMore(w) ==
    /\ worker[w] = "wakeup"
    /\ wakeups' = IF Len(pending) > 1 THEN wakeups ELSE wakeups + 1
    /\ WorkerTo(w, "release")
    /\ UNCHANGED <<peers, ioVars, queue, task, pending>>

Wakeup(w) ==
    /\ worker[w] = "wakeup"
    /\ wakeups' = wakeups + 1
    /\ WorkerTo(w, "release")
    /\ UNCHANGED <<peers, ioVars, queue, task, pending>>

\* MUTANT of Release: the variable of the task outlives the iteration of doTask().
ReleaseLater(w) ==
    /\ worker[w] = "release"
    /\ WorkerTo(w, "pop")
    /\ UNCHANGED <<peers, ioVars, queue, task, pending, wakeups>>

\* The task is destroyed, and its shared_ptr with it.
Release(w) ==
    /\ worker[w] = "release"
    /\ task' = [v \in DOMAIN task \ {w} |-> task[v]]
    /\ WorkerTo(w, "pop")
    /\ UNCHANGED <<peers, ioVars, queue, pending, wakeups>>

WorkerStep(w) == TakeTask(w) \/ Post(w) \/ Wakeup(w) \/ Release(w)
-----------------------------------------------------------------------------
Next ==
    \/ Connect
    \/ \E c \in Conns : SendLine(c) \/ SendPart(c) \/ Finish(c) \/ ReadReply(c)
    \/ IoStep
    \/ \E w \in Workers : WorkerStep(w)

Spec == Init /\ [][Next]_vars

\* The threads of the server are scheduled; the peers need not do anything.
Fairness == WF_vars(IoStep) /\ \A w \in Workers : WF_vars(WorkerStep(w))

FairSpec == Spec /\ Fairness
-----------------------------------------------------------------------------
\* A reply never waits without a wakeup: the eventfd is readable, about to be written, or has been
\* reset by an I/O thread that has yet to take the functors (wakeup() after the unlock in runInLoop(),
\* doPendingFunctors() after handleRead()).
RepliesSignalled ==
    pending # <<>> => \/ wakeups > 0
                      \/ \E w \in Workers : worker[w] = "wakeup"
                      \/ io = "swap"

\* epoll watches the connections of _conns and no other descriptor, and these are open, although a
\* task may keep a closed connection and its number is given away only after that: an event of the
\* batch always finds its own connection, and insert() never meets an old one.
WatchedIsMapped == registered = DOMAIN conns /\ registered \subseteq Open

\* Where line l is: in the hand of the I/O thread or of a pool thread, in the pool's queue, among the
\* functors, or sent back.
Places(s, l) == {i \in DOMAIN s : s[i] = l}
Holders(l) ==
    UNION {{"queue"} \X Places(queue, l),
           {"pending"} \X Places(pending, l),
           {"functors"} \X Places(functors, l),
           {"worker"} \X {w \in Workers : worker[w] = "post" /\ task[w] = l},
           {"io"} \X {c \in {cur} : io = "push" /\ l = <<c, taken[c]>>},
           {"replied"} \X (replied \cap {l})}

\* Every line that was read is in one place.  None is lost or handled twice (the swap of
\* doPendingFunctors(), the copies of Task).
EachLineOnce ==
    io # "crashed" => \A c \in Conns : \A n \in 1 .. taken[c] : Cardinality(Holders(<<c, n>>)) = 1

\* The I/O thread has read line l and does not hold it any more; the pool has it in the queue or in
\* the hand of a thread; the pool has done with it.
HandedOver(l) == l[2] <= taken[l[1]] /\ ~(io = "push" /\ l = <<cur, taken[cur]>>)
InPool(l) == (\E i \in DOMAIN queue : queue[i] = l) \/ (\E w \in DOMAIN task : task[w] = l)
Finished == {l \in Lines : HandedOver(l) /\ ~InPool(l)}

Pool == INSTANCE TaskPool WITH
    Tasks <- Lines,
    waiting <- queue,
    inHand <- {task[w] : w \in DOMAIN task},
    done <- Finished

\* The pool of this module is the one that ThreadPool implements: the I/O thread adds each line once
\* and waits for room, the pool's threads take the lines in turn, and each is in the hand of one of
\* them until its task is destroyed (addTask(), doTask()).
ImplementsTaskPool == Pool!Spec

\* The I/O thread waits in readline() for the rest of a line, or in writen() for the peer to read.
Held ==
    \/ io = "read" /\ taken[cur] = sent[cur] /\ tail[cur] = "read"
    \/ io = "functors" /\ Alive(Head(functors)[1]) /\ unread[Head(functors)[1]] = SockCap

\* As long as no peer holds the I/O thread for ever in readline() or writen(), a line that was read is sent back:
\* push() blocks the I/O thread on the pool and the pool hands its replies to the I/O thread, but
\* they never wait for each other.
LineAnswered ==
    []<>~Held =>
        \A c \in Conns, n \in 1 .. MaxLines :
            (taken[c] >= n) ~> (<<c, n>> \in replied \/ io = "crashed")

\* On the same condition a connection whose peer has finished is destroyed and its descriptor closed,
\* whatever tasks of it wait in the pool (the shared_ptr of _conns, of Task and of the queue).
ClosedIsDestroyed ==
    []<>~Held =>
        \A c \in Conns : (fdOf[c] # 0 /\ Closed(c)) ~> (~Alive(c) \/ io = "crashed")
-----------------------------------------------------------------------------
\* "Tell the I/O thread to send" (TestTcpServer.cc:39): when it does, the connection is there.
SendsOnLiveConnection == io = "functors" => Alive(Head(functors)[1])
=============================================================================
