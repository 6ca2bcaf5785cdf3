----------------------------- MODULE Connection -----------------------------
(***************************************************************************)
(* One echo_server::Connection (src/src/connection.cpp) on its event loop: *)
(* the handlers that epoll triggers, the tasks posted to the loop, the     *)
(* threads of the application that call send(), shutdown() and             *)
(* forceClose() on it, the socket in the kernel and the peer.              *)
(*                                                                         *)
(* The loop is seen as EventLoop promises it: epoll_wait(), the callbacks  *)
(* of the batch one by one, then the tasks that were queued.  A callback   *)
(* or a task is one step: it reads state_ at most once with an effect, and *)
(* the rest of what it touches belongs to the loop or to the kernel.       *)
(* Somebody holds a shared_ptr to the connection throughout; EchoServer    *)
(* is the module about its lifetime.                                       *)
(*                                                                         *)
(* Abstracted: a byte is its source and its position in what that source   *)
(* sent; write_complete_callback_, which EchoServer leaves empty.          *)
(***************************************************************************)
EXTENDS Integers, Sequences, FiniteSets

CONSTANTS
    Peer,       \* the source of the bytes that the server echoes
    Users,      \* threads of the application, other than the loop's
    MaxBytes,   \* BOUND: bytes the peer sends
    MaxCalls,   \* BOUND: calls of each user
    SndCap      \* BOUND: capacity of the kernel's send buffer

ASSUME PeerAssumption == Peer \notin Users
ASSUME BoundsAssumption == MaxBytes \in Nat /\ MaxCalls \in Nat /\ SndCap \in Nat \ {0}

VARIABLES
    state,      \* state_
    events,     \* handler_->events_: what the connection wants to hear of
    output,     \* output_buffer_
    closed,     \* history: close_callback_ has been called
    epoll,      \* the mask the kernel holds for the descriptor, {} when it holds none
    rcv,        \* bytes in the kernel's receive buffer
    snd,        \* bytes in the kernel's send buffer
    fin,        \* shutdown(SHUT_WR) has been called
    eof,        \* the peer has sent its FIN
    reset,      \* the peer has reset the connection
    sockErr,    \* SO_ERROR is set
    delivered,  \* bytes the peer has received
    sent,       \* how many bytes each source has handed over: the peer, or a user in send()
    loop,       \* where the loop is
    batch,      \* callbacks of the batch that have still to run
    tasks,      \* tasks swapped out and not yet run
    pending,    \* tasks posted to the loop
    removing,   \* removeConnectionInLoop() is queued on the main loop
    user,       \* where each user is in its call
    calls       \* calls begun by each user

connVars == <<state, events, output, closed>>
kernelVars == <<epoll, rcv, snd, fin, eof, reset, sockErr>>
loopVars == <<loop, batch, tasks, pending>>
userVars == <<user, calls>>
vars == <<connVars, kernelVars, delivered, sent, loopVars, removing, userVars>>

Sources == Users \cup {Peer}
Bytes == UNION {{s} \X (1 .. IF s = Peer THEN MaxBytes ELSE MaxCalls) : s \in Sources}
Interests == {"IN", "OUT"}
Task(kind, data) == [kind |-> kind, data |-> data]
Kinds == {"establish", "send", "shutdown", "forceClose", "destroy"}

TypeOK ==
    /\ state \in {"CONNECTING", "CONNECTED", "DISCONNECTING", "DISCONNECTED"}
    /\ events \subseteq Interests /\ epoll \subseteq Interests
    /\ output \in Seq(Bytes) /\ rcv \in Seq(Bytes) /\ snd \in Seq(Bytes) /\ delivered \in Seq(Bytes)
    /\ {closed, fin, eof, reset, sockErr, removing} \subseteq BOOLEAN
    /\ sent \in [Sources -> Nat]
    /\ loop \in {"poll", "dispatch", "tasks"}
    /\ batch \in Seq({"close", "error", "read", "write"})
    /\ tasks \in Seq([kind : Kinds, data : Seq(Bytes)])
    /\ pending \in Seq([kind : Kinds, data : Seq(Bytes)])
    /\ user \in [Users -> {"idle", "send", "shutdown", "forceClose", "postShutdown", "postForceClose"}]
    /\ calls \in [Users -> 0 .. MaxCalls]
    /\ Len(snd) <= SndCap

\* handleNewConnection() has called establishConnection(), from the main thread.
Init ==
    /\ state = "CONNECTING" /\ events = {} /\ output = <<>> /\ closed = FALSE
    /\ epoll = {} /\ rcv = <<>> /\ snd = <<>>
    /\ fin = FALSE /\ eof = FALSE /\ reset = FALSE /\ sockErr = FALSE
    /\ delivered = <<>> /\ sent = [s \in Sources |-> 0]
    /\ loop = "poll" /\ batch = <<>> /\ tasks = <<>> /\ pending = <<Task("establish", <<>>)>>
    /\ removing = FALSE
    /\ user = [u \in Users |-> "idle"] /\ calls = [u \in Users |-> 0]
-----------------------------------------------------------------------------
(* The peer and the network.                                               *)

PeerSends ==
    /\ ~eof /\ ~reset /\ sent[Peer] < MaxBytes
    /\ sent' = [sent EXCEPT ![Peer] = @ + 1]
    /\ rcv' = Append(rcv, <<Peer, sent[Peer] + 1>>)
    /\ UNCHANGED <<connVars, epoll, snd, fin, eof, reset, sockErr, delivered, loopVars, removing, userVars>>

PeerFinishes ==
    /\ ~eof /\ ~reset
    /\ eof' = TRUE
    /\ UNCHANGED <<connVars, epoll, rcv, snd, fin, reset, sockErr, delivered, sent, loopVars, removing, userVars>>

PeerResets ==
    /\ ~reset
    /\ reset' = TRUE
    /\ sockErr' = TRUE
    /\ UNCHANGED <<connVars, epoll, rcv, snd, fin, eof, delivered, sent, loopVars, removing, userVars>>

PeerReceives ==
    /\ ~reset /\ snd # <<>>
    /\ delivered' = Append(delivered, Head(snd))
    /\ snd' = Tail(snd)
    /\ UNCHANGED <<connVars, epoll, rcv, fin, eof, reset, sockErr, sent, loopVars, removing, userVars>>

\* What epoll finds ready: level-triggered, since no handler asks for EPOLLET.
Ready ==
    {e \in {"IN", "OUT", "ERR", "HUP"} :
        \/ e = "IN" /\ (rcv # <<>> \/ eof \/ reset)
        \/ e = "OUT" /\ (Len(snd) < SndCap \/ reset \/ fin)
        \/ e = "ERR" /\ sockErr
        \/ e = "HUP" /\ (reset \/ (fin /\ eof))}

Reported == IF epoll = {} THEN {} ELSE Ready \cap (epoll \cup {"ERR", "HUP"})

\* MUTANT of Taken: no partial write is expected.
TakenWhole(d) == IF reset \/ fin THEN {0} ELSE {Len(d)}

\* How much of d the kernel takes: something, if there is room.
Taken(d) ==
    IF reset \/ fin
    THEN {0}
    ELSE {n \in 0 .. Len(d) : n <= SndCap - Len(snd) /\ (n = 0 => Len(snd) = SndCap)}
-----------------------------------------------------------------------------
(* The connection, on the thread of its loop.                              *)

\* EventLoop::updateHandler(): EPOLL_CTL_MOD, which fails when nothing is registered.
UpdateHandler == epoll' = IF epoll = {} THEN {} ELSE events'

\* MUTANT of DirectWrite: past the backlog.
DirectAlways(d) == Taken(d)

\* sendInLoop(): how much is written directly, which is nothing when there is a backlog.
DirectWrite(d) == IF output = <<>> THEN Taken(d) ELSE {0}

\* MUTANT of WithWriting: the mask is assigned, not added to.
OnlyWriting == {"OUT"}

\* EventHandler::enableReading(), enableWriting(), disableWriting() and disableAll().
WithReading == events \cup {"IN"}
NoEvents == {}
WithoutWriting == events \ {"OUT"}
WithWriting == events \cup {"OUT"}

\* sendInLoop(): what is not written directly joins the backlog.
SendInLoop(d) ==
    IF state # "CONNECTED"
    THEN UNCHANGED <<events, epoll, output, snd, sockErr>>
    ELSE IF output = <<>> /\ (reset \/ fin)             \* EPIPE, ECONNRESET: fault_error
    THEN sockErr' = FALSE /\ UNCHANGED <<events, epoll, output, snd>>
    ELSE \E n \in DirectWrite(d) :
            /\ snd' = snd \o SubSeq(d, 1, n)
            /\ output' = output \o SubSeq(d, n + 1, Len(d))
            /\ events' = IF n < Len(d) THEN WithWriting ELSE events
            /\ IF events' # events THEN UpdateHandler ELSE UNCHANGED epoll
            /\ UNCHANGED sockErr

\* defaultMessageCallback(): all that input_buffer_ holds is sent back, on the loop's own thread.
MessageCallback(d) == SendInLoop(d)

\* MUTANT of ShutdownInLoop: the backlog is not waited for.
ShutdownAtOnce(mask) == fin' = (fin \/ ~reset)

\* shutdownInLoop(), with the mask that its caller leaves.
ShutdownInLoop(mask) == fin' = (fin \/ ("OUT" \notin mask /\ ~reset))

\* handleClose(): the handler stays registered with the loop and with epoll.
HandleClose ==
    /\ state' = "DISCONNECTED"
    /\ events' = NoEvents
    /\ closed' = TRUE
    /\ removing' = TRUE             \* close_callback_: removeConnection()

\* EventHandler::handleEvents(): which callbacks a set of events triggers, in order.
Callbacks(r) ==
    IF "HUP" \in r /\ "IN" \notin r
    THEN <<"close">>
    ELSE    (IF "ERR" \in r THEN <<"error">> ELSE <<>>)
         \o (IF "IN" \in r THEN <<"read">> ELSE <<>>)
         \o (IF "OUT" \in r THEN <<"write">> ELSE <<>>)

\* epoll_wait() returns, for this connection's events or for the wakeup that a task brings.
Poll ==
    /\ loop = "poll"
    /\ Reported # {} \/ pending # <<>>
    /\ batch' = Callbacks(Reported)
    /\ loop' = "dispatch"
    /\ UNCHANGED <<connVars, kernelVars, delivered, sent, tasks, pending, removing, userVars>>

NextCallback(callbacks) ==
    /\ loop = "dispatch" /\ batch # <<>>
    /\ Head(batch) \in callbacks
    /\ batch' = Tail(batch)
    /\ UNCHANGED <<loop, tasks, pending>>

ReadFails == rcv = <<>> /\ (sockErr \/ ~(eof \/ reset))

\* handleRead(), n > 0: the message callback takes what was read out of input_buffer_ and sends
\* it back.
HandleRead ==
    /\ NextCallback({"read"}) /\ rcv # <<>>
    /\ \E n \in 1 .. Len(rcv) :
        /\ rcv' = SubSeq(rcv, n + 1, Len(rcv))
        /\ MessageCallback(SubSeq(rcv, 1, n))
    /\ UNCHANGED <<state, closed, fin, eof, reset, delivered, sent, removing, userVars>>

\* The close callback, or handleRead() with n = 0.
HandleEof ==
    /\ NextCallback({"close", "read"})
    /\ Head(batch) = "read" => rcv = <<>> /\ ~ReadFails
    /\ HandleClose
    /\ UNCHANGED <<output, kernelVars, delivered, sent, userVars>>

\* handleError(), from the error callback or from handleRead() with n < 0: getsockopt() or the
\* read has cleared SO_ERROR, and error_callback_ is removeConnection().
HandleError ==
    /\ NextCallback({"error", "read"})
    /\ Head(batch) = "read" => ReadFails
    /\ sockErr' = FALSE
    /\ removing' = TRUE
    /\ UNCHANGED <<connVars, epoll, rcv, snd, fin, eof, reset, delivered, sent, userVars>>

\* MUTANT of Drained: disableWriting() is missing.
DrainedStaysArmed ==
    /\ UNCHANGED <<events, epoll>>
    /\ IF state = "DISCONNECTING" THEN ShutdownInLoop({}) ELSE UNCHANGED fin

\* MUTANT of Drained: nobody completes a shutdown() that had to wait.
DrainedForgetsShutdown ==
    /\ events' = WithoutWriting
    /\ UpdateHandler
    /\ UNCHANGED fin

\* handleWrite(): the backlog has just gone out.
Drained ==
    /\ events' = WithoutWriting
    /\ UpdateHandler
    /\ IF state = "DISCONNECTING" THEN ShutdownInLoop(events') ELSE UNCHANGED fin

\* MUTANT of AfterRetrieve: one byte too many.
AfterRetrieveMore(n) == SubSeq(output, n + 2, Len(output))

\* Buffer::retrieve(n) on output_buffer_.
AfterRetrieve(n) == SubSeq(output, n + 1, Len(output))

\* MUTANT of HandleWrite: the interest in EPOLLOUT is taken for granted.
HandleWriteUnmasked ==
    /\ NextCallback({"write"})
    /\ \E n \in Taken(output) :
        /\ snd' = snd \o SubSeq(output, 1, n)
        /\ output' = AfterRetrieve(n)
        /\ sockErr' = (sockErr /\ n > 0)
        /\ IF output' = <<>> THEN Drained ELSE UNCHANGED <<events, epoll, fin>>
    /\ UNCHANGED <<state, closed, rcv, eof, reset, delivered, sent, removing, userVars>>

HandleWrite ==
    /\ NextCallback({"write"})
    /\ IF "OUT" \notin events
       THEN UNCHANGED <<events, epoll, output, snd, fin, sockErr>>
       ELSE \E n \in Taken(output) :
            /\ snd' = snd \o SubSeq(output, 1, n)
            /\ output' = AfterRetrieve(n)
            /\ sockErr' = (sockErr /\ n > 0)
            /\ IF output' = <<>> THEN Drained ELSE UNCHANGED <<events, epoll, fin>>
    /\ UNCHANGED <<state, closed, rcv, eof, reset, delivered, sent, removing, userVars>>

\* doPendingTasks(): the swap.
SwapPending ==
    /\ loop = "dispatch" /\ batch = <<>>
    /\ tasks' = pending
    /\ pending' = <<>>
    /\ loop' = IF pending = <<>> THEN "poll" ELSE "tasks"
    /\ UNCHANGED <<connVars, kernelVars, delivered, sent, batch, removing, userVars>>

NextTask(kind) ==
    /\ loop = "tasks"
    /\ Head(tasks).kind = kind
    /\ tasks' = Tail(tasks)
    /\ loop' = IF Tail(tasks) = <<>> THEN "poll" ELSE "tasks"
    /\ UNCHANGED <<batch, pending>>

\* The task of establishConnection().
Establish ==
    /\ NextTask("establish")
    /\ state' = "CONNECTED"
    /\ events' = WithReading
    /\ epoll' = events'             \* addHandler()
    /\ UNCHANGED <<output, closed, rcv, snd, fin, eof, reset, sockErr, delivered, sent, removing, userVars>>

SendTask ==
    /\ NextTask("send")
    /\ SendInLoop(Head(tasks).data)
    /\ UNCHANGED <<state, closed, rcv, fin, eof, reset, delivered, sent, removing, userVars>>

ShutdownTask ==
    /\ NextTask("shutdown")
    /\ ShutdownInLoop(events)
    /\ UNCHANGED <<connVars, epoll, rcv, snd, eof, reset, sockErr, delivered, sent, removing, userVars>>

\* forceCloseInLoop().
ForceCloseTask ==
    /\ NextTask("forceClose")
    /\ IF state \in {"CONNECTED", "DISCONNECTING"} THEN HandleClose ELSE UNCHANGED <<connVars, removing>>
    /\ UNCHANGED <<output, kernelVars, delivered, sent, userVars>>

\* The task of destroyConnection(), with removeHandler().
DestroyTask ==
    /\ NextTask("destroy")
    /\ IF state = "CONNECTED"
       THEN HandleClose /\ epoll' = {}
       ELSE UNCHANGED <<connVars, removing, epoll>>
    /\ UNCHANGED <<output, rcv, snd, fin, eof, reset, sockErr, delivered, sent, userVars>>
-----------------------------------------------------------------------------
(* Other threads.                                                          *)

\* EchoServer::removeConnectionInLoop() on the main loop: destroyConnection().
RemoveConnection ==
    /\ removing
    /\ removing' = FALSE
    /\ pending' = Append(pending, Task("destroy", <<>>))
    /\ UNCHANGED <<connVars, kernelVars, delivered, sent, loop, batch, tasks, userVars>>

\* A user calls send(), shutdown() or forceClose(): the test of state_.
Call(u) ==
    /\ user[u] = "idle" /\ calls[u] < MaxCalls
    /\ calls' = [calls EXCEPT ![u] = @ + 1]
    /\ \E op \in {"send", "shutdown", "forceClose"} :
        user' = [user EXCEPT ![u] =
            IF state = "CONNECTED" \/ (op = "forceClose" /\ state = "DISCONNECTING") THEN op ELSE "idle"]
    /\ UNCHANGED <<connVars, kernelVars, delivered, sent, loopVars, removing>>

\* send() on a thread other than the loop's: post sendInLoop().
PostSend(u) ==
    /\ user[u] = "send"
    /\ sent' = [sent EXCEPT ![u] = @ + 1]
    /\ pending' = Append(pending, Task("send", <<<<u, sent[u] + 1>>>>))
    /\ user' = [user EXCEPT ![u] = "idle"]
    /\ UNCHANGED <<connVars, kernelVars, delivered, loop, batch, tasks, removing, calls>>

\* shutdown(), forceClose(): "state_ = DISCONNECTING", whatever state_ is by now.
SetDisconnecting(u) ==
    /\ user[u] \in {"shutdown", "forceClose"}
    /\ state' = "DISCONNECTING"
    /\ user' = [user EXCEPT ![u] = IF @ = "shutdown" THEN "postShutdown" ELSE "postForceClose"]
    /\ UNCHANGED <<events, output, closed, kernelVars, delivered, sent, loopVars, removing, calls>>

\* shutdown(), forceClose(): post shutdownInLoop() or forceCloseInLoop().
PostDisconnect(u) ==
    /\ user[u] \in {"postShutdown", "postForceClose"}
    /\ pending' = Append(pending,
                         Task(IF user[u] = "postShutdown" THEN "shutdown" ELSE "forceClose", <<>>))
    /\ user' = [user EXCEPT ![u] = "idle"]
    /\ UNCHANGED <<connVars, kernelVars, delivered, sent, loop, batch, tasks, removing, calls>>
-----------------------------------------------------------------------------
LoopStep ==
    \/ Poll \/ HandleRead \/ HandleEof \/ HandleError \/ HandleWrite
    \/ SwapPending \/ Establish \/ SendTask \/ ShutdownTask \/ ForceCloseTask \/ DestroyTask

UserStep(u) == PostSend(u) \/ SetDisconnecting(u) \/ PostDisconnect(u)

PeerStep == PeerSends \/ PeerFinishes \/ PeerResets \/ PeerReceives

Next ==
    \/ LoopStep \/ PeerStep \/ RemoveConnection
    \/ \E u \in Users : Call(u) \/ UserStep(u)

Spec == Init /\ [][Next]_vars

\* Threads that have something to do run; the peer reads what it is sent.
Fairness ==
    /\ WF_vars(LoopStep)
    /\ WF_vars(RemoveConnection)
    /\ WF_vars(PeerReceives)
    /\ \A u \in Users : WF_vars(UserStep(u))

FairSpec == Spec /\ Fairness
-----------------------------------------------------------------------------
(* Properties.                                                             *)

\* What is on its way to the peer, and all that has been sent or is still to be sent, in order.
Transit == snd \o output
Stream == delivered \o Transit

\* The places of the bytes of s.
From(s) == {i \in DOMAIN Stream : Stream[i][1] = s}

\* How far the connection is: closed once and for all when close_callback_ has been called.
Phase ==
    IF closed THEN "closed" ELSE IF state \in {"CONNECTING", "CONNECTED"} THEN "open" ELSE "draining"

\* The pipe that the users of a connection see, of which the kernel's send buffer and the backlog are
\* one part.
Pipe == INSTANCE EchoPipe WITH given <- sent, transit <- Transit, phase <- Phase, broken <- reset

\* What each source sends reaches the peer in order, without a gap or a repetition, however the
\* direct writes of sendInLoop(), the backlog and handleWrite() alternate; it is written as long
\* as the connection is up, and delivered unless the connection is closed or reset.
ImplementsPipe == Pipe!Spec

\* EPOLLOUT is asked for exactly while there is a backlog, and epoll knows it: a backlog is never
\* forgotten and an empty one never makes the loop spin.
WriteArmed ==
    ~closed => ("OUT" \in events <=> output # <<>>) /\ (state # "CONNECTING" => epoll = events)

\* shutdown() lets the backlog go out first: unless the connection was closed, our FIN comes
\* after the last byte of output_buffer_.
FinAfterDrain == fin /\ ~closed => output = <<>>

\* Bytes of s that are waiting in a task of send().
InTasks(s) == {i \in DOMAIN (tasks \o pending) :
                   LET d == (tasks \o pending)[i].data IN d # <<>> /\ d[1][1] = s}

\* When close_callback_ has been called the connection writes nothing more, though epoll goes on
\* reporting its descriptor, the rest of the batch runs, and a shutdown() or a forceClose() that was
\* under way moves state_ back to DISCONNECTING.
ClosedIsSilent == [][closed => Len(snd') <= Len(snd) /\ output' = output]_vars

\* A connection that is up loses nothing: every byte the peer has sent and every byte a user has
\* handed to send() is unread, or in a task, or on its way to the peer in Stream.
ConnectedKeepsAll ==
    state = "CONNECTED" /\ ~reset =>
        \A s \in Sources :
            sent[s] = Cardinality(From(s)) + Cardinality(InTasks(s)) + (IF s = Peer THEN Len(rcv) ELSE 0)

\* A shutdown() is not forgotten while the connection lives: until our FIN is out, either a backlog is to
\* go first, whose end handleWrite() sees, or a task has been posted, or the caller is about to post it.
ShutdownIsPending ==
    state = "DISCONNECTING" /\ ~closed /\ ~reset /\ ~fin =>
        \/ output # <<>>
        \/ \E i \in DOMAIN (tasks \o pending) : (tasks \o pending)[i].kind \in {"shutdown", "forceClose"}
        \/ \E u \in Users : user[u] \in {"postShutdown", "postForceClose"}

\* shutdown() ends in our FIN, unless the connection goes first.
ShutdownSendsFin == state = "DISCONNECTING" ~> fin \/ closed \/ reset

\* When the peer ends its side, the connection is closed.
PeerEndCloses == eof \/ reset ~> closed

\* "shutdown(): graceful close" (README.md): what send() accepted before it goes out before the
\* FIN.  False for a thread other than the loop's: see the README.
GracefulShutdown ==
    fin /\ ~closed /\ ~reset => \A u \in Users : Cardinality(From(u)) = sent[u]
=============================================================================
