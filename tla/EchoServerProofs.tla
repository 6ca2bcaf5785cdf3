--------------------------- MODULE EchoServerProofs --------------------------
(***************************************************************************)
(* Theorems about EchoServer, for every number of connections and workers. *)
(***************************************************************************)
EXTENDS EchoServer, SequenceTheorems, TLAPS

\* What a worker has still to do: the rest of the vector in its hands, and the queue behind it.
Job == [kind : {"establish", "destroy"}, conn : Conns]
Todo(w) == tasks[w] \o pending[w]

\* Nothing names a connection that has not been accepted, and tasks lie with the connection's loop.
MainKnown ==
    /\ establishing \in {None} \cup (1 .. accepted)
    /\ \A c \in Elements(removals) \cup Elements(removing) : c <= accepted
    /\ \A c \in Conns : (fd[c] # None <=> c <= accepted) /\ (c > accepted => state[c] = "CONNECTING")
WorkerKnown ==
    \A w \in Workers : /\ \A f \in Fds : handlers[w][f] <= accepted
                       /\ current[w].conn <= accepted
                       /\ \A e \in batch[w] : e.conn <= accepted
                       /\ \A i \in DOMAIN Todo(w) : Todo(w)[i].conn <= accepted /\ LoopOf(Todo(w)[i].conn) = w

\* Where a thread is tells what it has in its hands.
InPlace(w) ==
    /\ running[w] <=> loop[w] # "unstarted"
    /\ loop[w] # "dispatch" => batch[w] = {} /\ current[w].calls = <<>>
    /\ loop[w] = "tasks" <=> tasks[w] # <<>>
Places ==
    /\ establishing # None => removing = <<>>
    /\ \A w \in Workers : InPlace(w)

Base == TypeOK /\ MainKnown /\ WorkerKnown /\ Places
-----------------------------------------------------------------------------
LEMMA ConstantsTyped ==
    /\ NConns \in Nat /\ NWorkers \in Nat /\ NWorkers > 0
    /\ Conns = 1 .. NConns /\ Fds = 1 .. NConns /\ None = 0
BY NConnsAssumption, NWorkersAssumption DEF Conns, Fds, None

LEMMA LoopTyped == \A c \in Conns : LoopOf(c) \in Workers
<1> SUFFICES ASSUME NEW c \in Conns PROVE LoopOf(c) \in Workers
  OBVIOUS
<1>1. c - 1 \in Int
  BY ConstantsTyped
<1>2. (c - 1) % NWorkers \in 0 .. NWorkers - 1
  BY <1>1, ConstantsTyped
<1> QED
  BY <1>2 DEF LoopOf, Workers

LEMMA ConcatAppend ==
    ASSUME NEW S, NEW s \in Seq(S), NEW t \in Seq(S), NEW e \in S
    PROVE  s \o Append(t, e) = Append(s \o t, e)
<1>1. <<e>> \in Seq(S)
  OBVIOUS
<1>2. s \o t \in Seq(S)
  BY ConcatProperties
<1>3. Append(t, e) = t \o <<e>> /\ Append(s \o t, e) = (s \o t) \o <<e>>
  BY <1>2, AppendIsConcat
<1>4. s \o (t \o <<e>>) = (s \o t) \o <<e>>
  BY <1>1, ConcatAssociative
<1> QED
  BY <1>3, <1>4

LEMMA Parts ==
    TypeOK => /\ \A w \in Workers : tasks[w] \in Seq(Job) /\ pending[w] \in Seq(Job) /\ Todo(w) \in Seq(Job)
              /\ removals \in Seq(Conns) /\ removing \in Seq(Conns)
<1> SUFFICES ASSUME TypeOK
             PROVE  /\ \A w \in Workers : tasks[w] \in Seq(Job) /\ pending[w] \in Seq(Job) /\ Todo(w) \in Seq(Job)
                    /\ removals \in Seq(Conns) /\ removing \in Seq(Conns)
  OBVIOUS
<1>1. ASSUME NEW w \in Workers PROVE tasks[w] \in Seq(Job) /\ pending[w] \in Seq(Job)
  BY DEF TypeOK, Job
<1>2. ASSUME NEW w \in Workers PROVE Todo(w) \in Seq(Job)
  BY <1>1, ConcatProperties DEF Todo
<1> QED
  BY <1>1, <1>2 DEF TypeOK

\* What Post() and the end of a task do to Todo.
LEMMA Posted ==
    ASSUME TypeOK, NEW w \in Workers, NEW kind \in {"establish", "destroy"}, NEW c \in Conns,
           Post(w, kind, c), UNCHANGED tasks
    PROVE  /\ pending' \in [Workers -> Seq(Job)]
           /\ \A v \in Workers : Todo(v)' = IF v = w THEN Append(Todo(v), [kind |-> kind, conn |-> c]) ELSE Todo(v)
<1>1. [kind |-> kind, conn |-> c] \in Job
  BY DEF Job
<1>2. pending \in [Workers -> Seq(Job)] /\ pending' = [pending EXCEPT ![w] = Append(pending[w], [kind |-> kind, conn |-> c])]
  BY DEF TypeOK, Post, Job
<1>3. pending' \in [Workers -> Seq(Job)]
  BY <1>1, <1>2
<1>4. ASSUME NEW v \in Workers
      PROVE  Todo(v)' = IF v = w THEN Append(Todo(v), [kind |-> kind, conn |-> c]) ELSE Todo(v)
  <2>1. CASE v # w
    BY <1>2, <2>1 DEF Todo
  <2>2. CASE v = w
    <3>1. pending'[w] = Append(pending[w], [kind |-> kind, conn |-> c])
      BY <1>2
    <3>2. tasks[w] \in Seq(Job) /\ pending[w] \in Seq(Job)
      BY Parts
    <3>3. tasks[w] \o Append(pending[w], [kind |-> kind, conn |-> c]) = Append(tasks[w] \o pending[w], [kind |-> kind, conn |-> c])
      <4>1. ASSUME NEW s \in Seq(Job), NEW t \in Seq(Job), NEW j \in Job
            PROVE  s \o Append(t, j) = Append(s \o t, j)
        BY ConcatAppend
      <4> QED
        BY <1>1, <3>2, <4>1
    <3> QED
      BY <2>2, <3>1, <3>3 DEF Todo
  <2> QED
    BY <2>1, <2>2
<1> QED
  BY <1>3, <1>4

LEMMA TaskDone ==
    ASSUME Base, NEW w \in Workers, NEW kind, NextTask(w, kind)
    PROVE  /\ tasks' \in [Workers -> Seq(Job)] /\ UNCHANGED pending
           /\ Todo(w) # <<>> /\ Head(tasks[w]) = Todo(w)[1] /\ Head(tasks[w]) \in Job
           /\ Todo(w)[1].kind = kind /\ Alive(Todo(w)[1].conn) /\ LoopOf(Todo(w)[1].conn) = w
           /\ Todo(w)[1].conn \in Conns
           /\ \A v \in Workers : Todo(v)' = IF v = w THEN Tail(Todo(v)) ELSE Todo(v)
<1>1. /\ tasks[w] # <<>> /\ tasks[w] \in Seq(Job) /\ pending[w] \in Seq(Job)
      /\ tasks \in [Workers -> Seq(Job)]
      /\ tasks' = [tasks EXCEPT ![w] = Tail(tasks[w])] /\ UNCHANGED pending
  BY Parts DEF Base, Places, InPlace, TypeOK, NextTask, Job
<1>2. Tail(tasks[w]) \in Seq(Job) /\ Head(tasks[w]) \in Job
  BY <1>1
<1>3. /\ Todo(w) # <<>> /\ Head(tasks[w]) = Todo(w)[1] /\ 1 \in DOMAIN Todo(w)
      /\ Tail(tasks[w]) \o pending[w] = Tail(Todo(w))
  BY <1>1, SMTT(30) DEF Todo
<1>4. LoopOf(Todo(w)[1].conn) = w
  BY <1>3 DEF Base, WorkerKnown
<1> QED
  BY <1>1, <1>2, <1>3, <1>4 DEF NextTask, Todo, Job

LEMMA BaseInit == Init => Base
<1> SUFFICES ASSUME Init PROVE Base
  OBVIOUS
<1> USE ConstantsTyped
<1>1. TypeOK
  <2>1. tasks \in [Workers -> Seq(Job)] /\ pending \in [Workers -> Seq(Job)]
    BY DEF Init
  <2>2. handlers \in [Workers -> [Fds -> Conns \cup {None}]] /\ state \in [Conns -> {"CONNECTING", "CONNECTED", "DISCONNECTED"}]
    BY DEF Init
  <2>3. batch \in [Workers -> SUBSET Events] /\ current \in [Workers -> Events \cup {Idle}]
    BY DEF Init
  <2>4. removals \in Seq(Conns) /\ removing \in Seq(Conns) /\ removed \in 0 .. Len(removing)
    BY DEF Init
  <2>5. fd \in [Conns -> Fds \cup {None}] /\ running \in [Workers -> BOOLEAN]
        /\ loop \in [Workers -> {"unstarted", "poll", "dispatch", "tasks"}]
    BY DEF Init
  <2>6. /\ accepted \in 0 .. NConns /\ connections \subseteq 1 .. accepted /\ epoll \subseteq 1 .. accepted
        /\ ended \subseteq Conns /\ sockErr \subseteq Conns /\ establishing \in Conns \cup {None}
    BY DEF Init
  <2>7. fault \in BOOLEAN
    BY DEF Init
  <2> QED
    BY <2>1, <2>2, <2>3, <2>4, <2>5, <2>6, <2>7 DEF TypeOK, Job
<1>2. \A w \in Workers : Todo(w) = <<>> /\ tasks[w] = <<>>
  BY DEF Init, Todo
<1>3. MainKnown
  BY DEF Init, MainKnown, Elements
<1>4. WorkerKnown
  BY <1>2 DEF Init, WorkerKnown, Idle
<1>5. Places
  BY <1>2 DEF Init, Places, InPlace, Idle
<1> QED
  BY <1>1, <1>3, <1>4, <1>5 DEF Base
-----------------------------------------------------------------------------
(* Base is kept by the main thread and the peers.                          *)

\* Steps that leave the workers alone.
LEMMA WorkersKept ==
    ASSUME Base, UNCHANGED workerVars, accepted' \in Nat, accepted <= accepted'
    PROVE  WorkerKnown' /\ \A w \in Workers : InPlace(w)'
<1> USE ConstantsTyped
<1>1. accepted \in Nat /\ UNCHANGED <<running, handlers, loop, batch, current, tasks, pending>>
  BY DEF Base, TypeOK, workerVars
<1>2. \A w \in Workers : Todo(w)' = Todo(w)
  BY <1>1 DEF Todo
<1>3. WorkerKnown'
  <2> SUFFICES ASSUME NEW w \in Workers
               PROVE  /\ \A f \in Fds : handlers[w][f] <= accepted'
                      /\ current[w].conn <= accepted'
                      /\ \A e \in batch[w] : e.conn <= accepted'
                      /\ \A i \in DOMAIN Todo(w) : Todo(w)[i].conn <= accepted' /\ LoopOf(Todo(w)[i].conn) = w
    BY <1>1, <1>2 DEF WorkerKnown
  <2>1. \A f \in Fds : handlers[w][f] \in Nat /\ handlers[w][f] <= accepted
    BY DEF Base, TypeOK, WorkerKnown
  <2>2. current[w].conn \in Nat /\ current[w].conn <= accepted
    BY DEF Base, TypeOK, WorkerKnown, Events, Idle
  <2>3. \A e \in batch[w] : e.conn \in Nat /\ e.conn <= accepted
    BY DEF Base, TypeOK, WorkerKnown, Events
  <2>4. \A i \in DOMAIN Todo(w) : Todo(w)[i].conn \in Nat /\ Todo(w)[i].conn <= accepted /\ LoopOf(Todo(w)[i].conn) = w
    <3>1. Todo(w) \in Seq(Job)
      BY Parts DEF Base
    <3>2. \A i \in DOMAIN Todo(w) : Todo(w)[i] \in Job
      BY <3>1
    <3> QED
      BY <3>2 DEF Base, WorkerKnown, Job
  <2> QED
    BY <1>1, <2>1, <2>2, <2>3, <2>4
<1> QED
  BY <1>1, <1>3 DEF Base, Places, InPlace

LEMMA BaseMain ==
    ASSUME Base, \/ Accept \/ SwapRemovals \/ DropRemovals \/ UNCHANGED vars
                 \/ \E c \in Conns : PeerEnds(c)
                 \/ \E w \in Workers : UseAfterFree(w)
    PROVE  Base'
<1> USE ConstantsTyped
<1>a. TypeOK /\ MainKnown /\ WorkerKnown /\ Places
  BY DEF Base
<1>b. accepted \in 0 .. NConns
  BY <1>a DEF TypeOK
<1>0. TypeOK /\ MainKnown /\ WorkerKnown /\ Places /\ accepted \in Nat
  BY <1>a, <1>b
<1>1. UNCHANGED workerVars
  BY DEF Accept, SwapRemovals, DropRemovals, vars, PeerEnds, UseAfterFree
<1>2. accepted' \in 0 .. NConns /\ accepted <= accepted'
  <2>1. UNCHANGED accepted \/ (accepted' = accepted + 1 /\ accepted < NConns)
    BY DEF Accept, SwapRemovals, DropRemovals, vars, mainVars, PeerEnds, UseAfterFree
  <2> QED
    BY <1>b, <2>1
<1>3. UNCHANGED <<running, handlers, loop, batch, current, tasks, pending>>
  BY <1>1 DEF workerVars
<1>4. /\ connections' \subseteq 1 .. accepted' /\ epoll' \subseteq 1 .. accepted'
      /\ ended' \subseteq Conns /\ sockErr' \subseteq Conns
      /\ state' = state
      /\ fd' \in [Conns -> Fds \cup {None}]
      /\ fault' \in BOOLEAN
      /\ establishing' \in {None} \cup (1 .. accepted')
      /\ removals' \in Seq(Conns) /\ removing' \in Seq(Conns) /\ removed' \in 0 .. Len(removing')
      /\ establishing' # None => removing' = <<>>
      /\ \A c \in Elements(removals') \cup Elements(removing') : c <= accepted'
      /\ \A c \in Conns : fd'[c] # None <=> c <= accepted'
  <2>1. CASE Accept
    <3>1. accepted' = accepted + 1 /\ accepted < NConns /\ establishing' = accepted' /\ removing = <<>>
      BY <2>1 DEF Accept
    <3>2. PICK f \in Fds : fd' = [fd EXCEPT ![accepted'] = f]
      BY <2>1 DEF Accept
    <3>3. accepted' \in Conns /\ \A c \in Conns : c <= accepted' <=> c <= accepted \/ c = accepted'
      BY <1>0, <3>1
    <3>4. \A c \in Conns : fd'[c] # None <=> c <= accepted'
      <4>1. fd \in [Conns -> Fds \cup {None}] /\ f # None
        BY <1>0 DEF TypeOK
      <4>2. \A c \in Conns : fd[c] # None <=> c <= accepted
        BY <1>0 DEF MainKnown
      <4>3. \A c \in Conns : fd'[c] = IF c = accepted' THEN f ELSE fd[c]
        BY <3>2, <3>3, <4>1
      <4> QED
        BY <3>3, <4>1, <4>2, <4>3
    <3>5. \A c \in Elements(removals) \cup Elements(removing) : c <= accepted'
      <4>1. \A c \in Elements(removals) \cup Elements(removing) : c \in Nat /\ c <= accepted
        BY <1>0, Parts, SMTT(30) DEF MainKnown, Elements
      <4> QED
        BY <1>0, <3>1, <4>1
    <3>6. fd' \in [Conns -> Fds \cup {None}]
      BY <1>0, <3>2, <3>3 DEF TypeOK
    <3>7. UNCHANGED <<removals, removing, removed, state, ended, sockErr, epoll, fault>> /\ connections' = connections \cup {accepted'}
      BY <2>1 DEF Accept
    <3>8. 1 .. accepted \subseteq 1 .. accepted'
      BY <1>0, <3>1
    <3> QED
      BY <1>0, <3>1, <3>4, <3>5, <3>6, <3>7, <3>8 DEF TypeOK
  <2>2. CASE SwapRemovals
    <3>1. removing' = removals /\ removals' = <<>> /\ removing = <<>> /\ establishing = None
          /\ UNCHANGED <<accepted, connections, establishing, removed, state, fd, ended, sockErr, epoll, fault>>
      BY <2>2 DEF SwapRemovals, connVars
    <3>2. Elements(<<>>) = {} /\ removed = 0
      BY <1>0, <3>1 DEF Elements, TypeOK
    <3> QED
      BY <1>0, <3>1, <3>2 DEF TypeOK, MainKnown
  <2>3. CASE DropRemovals
    <3>1. removing' = <<>> /\ removed' = 0 /\ UNCHANGED <<accepted, connections, establishing, removals, state, fd, ended, sockErr, epoll, fault>>
      BY <2>3 DEF DropRemovals, connVars
    <3>2. Elements(<<>>) = {}
      BY DEF Elements
    <3> QED
      BY <1>0, <3>1, <3>2 DEF TypeOK, MainKnown
  <2>4. CASE UNCHANGED vars
    BY <1>0, <2>4 DEF vars, mainVars, connVars, TypeOK, MainKnown, Places, InPlace
  <2>5. ASSUME NEW c \in Conns, PeerEnds(c) PROVE <1>4
    BY <1>0, <2>5 DEF PeerEnds, mainVars, TypeOK, MainKnown, Places, InPlace
  <2>6. ASSUME NEW w \in Workers, UseAfterFree(w) PROVE <1>4
    BY <1>0, <2>6 DEF UseAfterFree, mainVars, connVars, TypeOK, MainKnown, Places, InPlace
  <2> QED
    BY <2>1, <2>2, <2>3, <2>4, <2>5, <2>6
<1>5. TypeOK'
  <2>1. /\ accepted' \in 0 .. NConns /\ establishing' \in Conns \cup {None}
        /\ state' \in [Conns -> {"CONNECTING", "CONNECTED", "DISCONNECTED"}]
    BY <1>0, <1>2, <1>4 DEF TypeOK
  <2>2. /\ running' \in [Workers -> BOOLEAN]
        /\ handlers' \in [Workers -> [Fds -> Conns \cup {None}]]
        /\ loop' \in [Workers -> {"unstarted", "poll", "dispatch", "tasks"}]
        /\ batch' \in [Workers -> SUBSET Events] /\ current' \in [Workers -> Events \cup {Idle}]
        /\ tasks' \in [Workers -> Seq([kind : {"establish", "destroy"}, conn : Conns])]
        /\ pending' \in [Workers -> Seq([kind : {"establish", "destroy"}, conn : Conns])]
    BY <1>0, <1>3 DEF TypeOK
  <2> QED
    BY <1>4, <2>1, <2>2 DEF TypeOK
<1>6. MainKnown'
  <2>1. \A c \in Conns : c > accepted' => state'[c] = "CONNECTING"
    BY <1>0, <1>2, <1>4 DEF MainKnown
  <2> QED
    BY <1>4, <2>1 DEF MainKnown
<1> QED
  BY <1>0, <1>1, <1>2, <1>4, <1>5, <1>6, WorkersKept, SMTT(30) DEF Base, Places, InPlace
-----------------------------------------------------------------------------
(* Base is kept by the workers, and by the main thread when it hands over. *)

States == {"CONNECTING", "CONNECTED", "DISCONNECTED"}

MainTyped ==
    /\ accepted \in 0 .. NConns
    /\ connections \subseteq 1 .. accepted /\ epoll \subseteq 1 .. accepted
    /\ ended \subseteq Conns /\ sockErr \subseteq Conns
    /\ establishing \in Conns \cup {None}
    /\ removals \in Seq(Conns) /\ removing \in Seq(Conns) /\ removed \in 0 .. Len(removing)
    /\ state \in [Conns -> States]
    /\ fd \in [Conns -> Fds \cup {None}]
    /\ fault \in BOOLEAN

WorkerTyped ==
    /\ running \in [Workers -> BOOLEAN]
    /\ handlers \in [Workers -> [Fds -> Conns \cup {None}]]
    /\ loop \in [Workers -> {"unstarted", "poll", "dispatch", "tasks"}]
    /\ batch \in [Workers -> SUBSET Events] /\ current \in [Workers -> Events \cup {Idle}]
    /\ tasks \in [Workers -> Seq(Job)] /\ pending \in [Workers -> Seq(Job)]

LEMMA TypeParts == TypeOK <=> MainTyped /\ WorkerTyped
BY DEF TypeOK, MainTyped, WorkerTyped, States, Job

\* A connection that is alive has been accepted, and has a descriptor.
LEMMA AliveAccepted ==
    ASSUME Base, NEW c \in Conns, Alive(c)
    PROVE  c \in 1 .. accepted /\ fd[c] \in Fds
<1>1. accepted \in Nat /\ connections \subseteq 1 .. accepted /\ fd \in [Conns -> Fds \cup {None}]
  BY ConstantsTyped DEF Base, TypeOK
<1>2. c \in Nat /\ c > 0 /\ c # None
  BY ConstantsTyped
<1>3. c <= accepted
  BY <1>1, <1>2, ConstantsTyped DEF Base, MainKnown, Alive
<1>4. fd[c] # None
  BY <1>3 DEF Base, MainKnown
<1> QED
  BY <1>1, <1>2, <1>3, <1>4

\* removeConnection() of a connection that is alive.
LEMMA RemovalKnown ==
    ASSUME Base, NEW c \in Conns, Alive(c), RemoveConnection(c)
    PROVE  /\ removals' \in Seq(Conns) /\ Elements(removals') = Elements(removals) \cup {c}
           /\ \A d \in Elements(removals') \cup Elements(removing') : d <= accepted'
           /\ UNCHANGED <<accepted, connections, establishing, removing, removed>>
<1>1. removals \in Seq(Conns) /\ removals' = Append(removals, c) /\ UNCHANGED <<accepted, connections, establishing, removing, removed>>
  BY DEF Base, TypeOK, RemoveConnection
<1>2. removals' \in Seq(Conns) /\ Elements(removals') = Elements(removals) \cup {c}
  <2>1. DOMAIN removals' = 1 .. Len(removals) + 1 /\ DOMAIN removals = 1 .. Len(removals) /\ Len(removals) \in Nat
    BY <1>1
  <2>2. \A i \in 1 .. Len(removals) : removals'[i] = removals[i]
    BY <1>1
  <2>3. removals'[Len(removals) + 1] = c
    BY <1>1
  <2>4. removals' \in Seq(Conns)
    BY <1>1
  <2> QED
    BY <2>1, <2>2, <2>3, <2>4 DEF Elements
<1>3. c <= accepted
  BY AliveAccepted, ConstantsTyped
<1> QED
  BY <1>1, <1>2, <1>3 DEF Base, MainKnown

\* addHandler() and removeHandler() change the entry of one descriptor.
LEMMA HandlerSet ==
    ASSUME Base, NEW c \in Conns, c \in 1 .. accepted, EstablishInLoop(c)
    PROVE  /\ state' \in [Conns -> States] /\ epoll' = epoll \cup {c} /\ epoll' \subseteq 1 .. accepted
           /\ \A d \in Conns : state'[d] = IF d = c THEN "CONNECTED" ELSE state[d]
           /\ handlers' \in [Workers -> [Fds -> Conns \cup {None}]]
           /\ \A v \in Workers : \A f \in Fds :
                 handlers'[v][f] = IF v = LoopOf(c) /\ f = fd[c] THEN c ELSE handlers[v][f]
<1>1. LoopOf(c) \in Workers /\ fd[c] \in Fds
  <2>1. fd[c] # None
    BY ConstantsTyped DEF Base, MainKnown
  <2> QED
    BY <2>1, LoopTyped DEF Base, TypeOK
<1>2. /\ state \in [Conns -> States] /\ epoll \subseteq 1 .. accepted
      /\ handlers \in [Workers -> [Fds -> Conns \cup {None}]]
  BY DEF Base, TypeOK, States
<1>3. /\ state' = [state EXCEPT ![c] = "CONNECTED"] /\ epoll' = epoll \cup {c}
      /\ handlers' = [handlers EXCEPT ![LoopOf(c)][fd[c]] = c]
  BY DEF EstablishInLoop, AddHandler
<1>4. state' \in [Conns -> States] /\ \A d \in Conns : state'[d] = IF d = c THEN "CONNECTED" ELSE state[d]
  BY <1>2, <1>3 DEF States
<1> QED
  BY <1>1, <1>2, <1>3, <1>4

LEMMA HandlerErased ==
    ASSUME Base, NEW c \in Conns, c \in 1 .. accepted, RemoveHandler(c)
    PROVE  /\ epoll' = epoll \ {c} /\ epoll' \subseteq 1 .. accepted
           /\ handlers' \in [Workers -> [Fds -> Conns \cup {None}]]
           /\ \A v \in Workers : \A f \in Fds :
                 handlers'[v][f] = IF v = LoopOf(c) /\ f = fd[c] THEN None ELSE handlers[v][f]
<1>1. LoopOf(c) \in Workers /\ fd[c] \in Fds
  <2>1. fd[c] # None
    BY ConstantsTyped DEF Base, MainKnown
  <2> QED
    BY <2>1, LoopTyped DEF Base, TypeOK
<1>2. epoll \subseteq 1 .. accepted /\ handlers \in [Workers -> [Fds -> Conns \cup {None}]]
  BY DEF Base, TypeOK
<1>3. epoll' = epoll \ {c} /\ handlers' = [handlers EXCEPT ![LoopOf(c)][fd[c]] = None]
  BY DEF RemoveHandler
<1> QED
  BY <1>1, <1>2, <1>3

\* A callback of the current handler is over.
LEMMA CallbackDone ==
    ASSUME Base, NEW w \in Workers, NextCallback(w)
    PROVE  /\ current[w].conn \in Conns /\ Alive(current[w].conn) /\ loop[w] = "dispatch"
           /\ WorkerTyped' /\ UNCHANGED <<running, handlers, loop, batch, tasks, pending>>
           /\ \A v \in Workers : /\ current'[v].conn = current[v].conn
                                 /\ v # w => current'[v] = current[v]
<1>1. /\ current[w].calls # <<>> /\ Alive(current[w].conn)
      /\ current' = [current EXCEPT ![w] = [current[w] EXCEPT !.calls = Tail(current[w].calls)]]
      /\ UNCHANGED <<running, handlers, loop, batch, tasks, pending, fault>>
  BY DEF NextCallback
<1>2. loop[w] = "dispatch"
  BY <1>1 DEF Base, Places, InPlace
<1>3. current \in [Workers -> Events \cup {Idle}] /\ current[w] \in Events
  BY <1>1 DEF Base, TypeOK, Idle
<1>4. current[w].conn \in Conns /\ Tail(current[w].calls) \in Seq(Callback)
  BY <1>1, <1>3 DEF Events
<1>5. [current[w] EXCEPT !.calls = Tail(current[w].calls)] \in Events
  BY <1>3, <1>4 DEF Events
<1>6. current' \in [Workers -> Events \cup {Idle}]
  BY <1>1, <1>3, <1>5
<1>7. \A v \in Workers : current'[v].conn = current[v].conn /\ (v # w => current'[v] = current[v])
  BY <1>1, <1>3 DEF Events
<1>8. WorkerTyped'
  <2>1. WorkerTyped
    BY TypeParts DEF Base
  <2> QED
    BY <1>1, <1>6, <2>1 DEF WorkerTyped
<1> QED
  BY <1>1, <1>2, <1>4, <1>7, <1>8

\* WorkerKnown and Places once more, of steps that give the workers nothing new.
LEMMA WorkersKnown ==
    ASSUME Base, UNCHANGED accepted,
           \A v \in Workers : /\ \A f \in Fds : handlers'[v][f] = handlers[v][f] \/ handlers'[v][f] <= accepted
                              /\ current'[v].conn = current[v].conn \/ current'[v].conn <= accepted
                              /\ \A e \in batch'[v] : e \in batch[v] \/ e.conn <= accepted,
           \A v \in Workers : \/ Todo(v)' = Todo(v)
                              \/ Todo(v) # <<>> /\ Todo(v)' = Tail(Todo(v))
                              \/ \E j \in Job : /\ Todo(v)' = Append(Todo(v), j)
                                                /\ j.conn <= accepted /\ LoopOf(j.conn) = v
    PROVE  WorkerKnown'
<1> SUFFICES ASSUME NEW v \in Workers
             PROVE  /\ \A f \in Fds : handlers'[v][f] <= accepted
                    /\ current'[v].conn <= accepted
                    /\ \A e \in batch'[v] : e.conn <= accepted
                    /\ \A i \in DOMAIN Todo(v)' : Todo(v)'[i].conn <= accepted /\ LoopOf(Todo(v)'[i].conn) = v
  BY DEF WorkerKnown, LoopOf
<1>1. /\ \A f \in Fds : handlers[v][f] <= accepted
      /\ current[v].conn <= accepted
      /\ \A e \in batch[v] : e.conn <= accepted
      /\ \A i \in DOMAIN Todo(v) : Todo(v)[i].conn <= accepted /\ LoopOf(Todo(v)[i].conn) = v
  BY DEF Base, WorkerKnown
<1>2. Todo(v) \in Seq(Job)
  BY Parts DEF Base
<1>3. \A i \in DOMAIN Todo(v)' : Todo(v)'[i].conn <= accepted /\ LoopOf(Todo(v)'[i].conn) = v
  <2>1. CASE Todo(v)' = Todo(v)
    BY <1>1, <2>1
  <2>2. CASE Todo(v) # <<>> /\ Todo(v)' = Tail(Todo(v))
    <3>1. \A i \in DOMAIN Todo(v)' : i + 1 \in DOMAIN Todo(v) /\ Todo(v)'[i] = Todo(v)[i + 1]
      BY <1>2, <2>2
    <3> QED
      BY <1>1, <3>1
  <2>3. ASSUME NEW j \in Job, Todo(v)' = Append(Todo(v), j), j.conn <= accepted, LoopOf(j.conn) = v
        PROVE <1>3
    <3>1. \A i \in DOMAIN Todo(v)' : Todo(v)'[i] = j \/ (i \in DOMAIN Todo(v) /\ Todo(v)'[i] = Todo(v)[i])
      BY <1>2, <2>3
    <3> QED
      BY <1>1, <2>3, <3>1
  <2> QED
    BY <2>1, <2>2, <2>3
<1> QED
  BY <1>1, <1>3

LEMMA PlacesKept ==
    ASSUME Base, UNCHANGED <<establishing, removing, loop, batch, running, tasks, current>>
    PROVE  Places'
BY DEF Base, Places, InPlace

LEMMA BaseEstablish == ASSUME Base, Establish PROVE Base'
<1> DEFINE c == establishing
<1>1. c \in Conns /\ c \in 1 .. accepted /\ LoopOf(c) \in Workers /\ Alive(c)
  BY LoopTyped, ConstantsTyped DEF Establish, Base, TypeOK, MainKnown, Alive
<1>2. MainTyped /\ WorkerTyped /\ MainKnown /\ WorkerKnown /\ Places
  BY TypeParts DEF Base
<1>3. /\ establishing' = None
      /\ UNCHANGED <<accepted, connections, removals, removing, removed, fd, ended, sockErr, running, loop, batch, current, tasks, fault>>
  BY DEF Establish
<1>4. /\ state' \in [Conns -> States] /\ epoll' \subseteq 1 .. accepted
      /\ \A d \in Conns : d > accepted => state'[d] = "CONNECTING"
      /\ handlers' \in [Workers -> [Fds -> Conns \cup {None}]] /\ pending' \in [Workers -> Seq(Job)]
      /\ \A v \in Workers : /\ \A f \in Fds : handlers'[v][f] = handlers[v][f] \/ handlers'[v][f] <= accepted
                            /\ Todo(v)' = Todo(v) \/ \E j \in Job : /\ Todo(v)' = Append(Todo(v), j)
                                                                   /\ j.conn <= accepted /\ LoopOf(j.conn) = v
  <2>1. CASE running[LoopOf(c)]
    <3>1. Post(LoopOf(c), "establish", c) /\ UNCHANGED <<state, epoll, handlers>>
      BY <2>1 DEF Establish
    <3>2. /\ pending' \in [Workers -> Seq(Job)]
          /\ \A v \in Workers : Todo(v)' = IF v = LoopOf(c) THEN Append(Todo(v), [kind |-> "establish", conn |-> c]) ELSE Todo(v)
      BY <1>1, <1>3, <3>1, Posted DEF Base
    <3>3. [kind |-> "establish", conn |-> c] \in Job /\ c <= accepted
      BY <1>1, <1>2 DEF Job, MainTyped
    <3> QED
      BY <1>2, <3>1, <3>2, <3>3 DEF MainTyped, WorkerTyped, MainKnown
  <2>2. CASE ~running[LoopOf(c)]
    <3>1. EstablishInLoop(c) /\ UNCHANGED pending
      BY <2>2 DEF Establish
    <3>2. \A v \in Workers : Todo(v)' = Todo(v)
      BY <1>3, <3>1 DEF Todo
    <3>3. c <= accepted /\ \A d \in Conns : d > accepted => d # c
      BY <1>1, ConstantsTyped DEF Base, TypeOK
    <3>4. /\ state' \in [Conns -> States] /\ epoll' \subseteq 1 .. accepted
          /\ \A d \in Conns : state'[d] = IF d = c THEN "CONNECTED" ELSE state[d]
          /\ handlers' \in [Workers -> [Fds -> Conns \cup {None}]]
          /\ \A v \in Workers : \A f \in Fds :
                 handlers'[v][f] = IF v = LoopOf(c) /\ f = fd[c] THEN c ELSE handlers[v][f]
      BY <1>1, <3>1, HandlerSet
    <3>5. \A d \in Conns : d > accepted => state'[d] = "CONNECTING"
      BY <1>2, <3>3, <3>4 DEF MainKnown
    <3>6. pending' \in [Workers -> Seq(Job)]
      BY <1>2, <3>1 DEF WorkerTyped
    <3> QED
      BY <3>2, <3>3, <3>4, <3>5, <3>6
  <2> QED
    BY <2>1, <2>2
<1>5. TypeOK'
  <2>1. MainTyped'
    BY <1>2, <1>3, <1>4 DEF MainTyped
  <2>2. WorkerTyped'
    BY <1>2, <1>3, <1>4 DEF WorkerTyped
  <2>3. TypeOK' <=> MainTyped' /\ WorkerTyped'
    BY DEF TypeOK, MainTyped, WorkerTyped, States, Job
  <2> QED
    BY <2>1, <2>2, <2>3
<1>6. MainKnown'
  BY <1>2, <1>3, <1>4 DEF MainKnown
<1>7. WorkerKnown'
  BY <1>3, <1>4, WorkersKnown
<1>8. Places'
  BY <1>2, <1>3 DEF Places, InPlace
<1> QED
  BY <1>5, <1>6, <1>7, <1>8 DEF Base

LEMMA BaseRemove == ASSUME Base, RemoveConnectionInLoop PROVE Base'
<1> DEFINE c == removing[removed + 1]
<1>0. MainTyped /\ WorkerTyped /\ MainKnown /\ WorkerKnown /\ Places
  BY TypeParts DEF Base
<1>1. c \in Conns /\ c \in Elements(removing) /\ removed + 1 \in 0 .. Len(removing)
  <2>1. removing \in Seq(Conns) /\ removed \in Nat /\ removed < Len(removing)
    BY <1>0 DEF RemoveConnectionInLoop, MainTyped
  <2>2. removed + 1 \in DOMAIN removing
    BY <2>1
  <2> QED
    BY <2>1, <2>2 DEF Elements
<1>2. c <= accepted /\ LoopOf(c) \in Workers
  BY <1>0, <1>1, LoopTyped DEF MainKnown
<1>3. /\ Post(LoopOf(c), "destroy", c) /\ connections' = connections \ {c} /\ removed' = removed + 1
      /\ UNCHANGED <<accepted, establishing, removals, removing, state, fd, ended, sockErr, epoll, running, handlers, loop, batch, current, tasks, fault>>
  BY DEF RemoveConnectionInLoop, connVars
<1>4. /\ pending' \in [Workers -> Seq(Job)]
      /\ \A v \in Workers : Todo(v)' = IF v = LoopOf(c) THEN Append(Todo(v), [kind |-> "destroy", conn |-> c]) ELSE Todo(v)
  BY <1>1, <1>2, <1>3, Posted DEF Base
<1>5. MainTyped' /\ WorkerTyped' /\ MainKnown' /\ Places'
  BY <1>0, <1>1, <1>3, <1>4 DEF MainTyped, WorkerTyped, MainKnown, Places, InPlace
<1>6. [kind |-> "destroy", conn |-> c] \in Job
  BY <1>1 DEF Job
<1>7. WorkerKnown'
  BY <1>2, <1>3, <1>4, <1>6, WorkersKnown
<1> QED
  BY <1>5, <1>7 DEF Base, TypeOK, MainTyped, WorkerTyped, States, Job

\* The swap of doPendingTasks() changes hands, and nothing is lost by it.
LEMMA TodoSwapped ==
    ASSUME Base, NEW w \in Workers, SwapPending(w)
    PROVE  \A v \in Workers : Todo(v)' = Todo(v)
<1>1. /\ loop[w] = "dispatch" /\ tasks' = [tasks EXCEPT ![w] = pending[w]] /\ pending' = [pending EXCEPT ![w] = <<>>]
  BY DEF SwapPending
<1>2. WorkerTyped /\ InPlace(w)
  BY TypeParts DEF Base, Places
<1>3. tasks[w] = <<>> /\ pending[w] \in Seq(Job)
  BY <1>1, <1>2 DEF InPlace, WorkerTyped
<1> SUFFICES ASSUME NEW v \in Workers PROVE Todo(v)' = Todo(v)
  OBVIOUS
<1>4. CASE v # w
  <2>1. tasks'[v] = tasks[v] /\ pending'[v] = pending[v]
    BY <1>1, <1>2, <1>4 DEF WorkerTyped
  <2> QED
    BY <2>1 DEF Todo
<1>5. CASE v = w
  <2>1. tasks'[w] = pending[w] /\ pending'[w] = <<>>
    BY <1>1, <1>2 DEF WorkerTyped
  <2>2. pending[w] \o <<>> = <<>> \o pending[w]
    BY <1>3, ConcatEmptySeq
  <2> QED
    BY <1>3, <1>5, <2>1, <2>2 DEF Todo
<1> QED
  BY <1>4, <1>5

LEMMA BaseTurn ==
    ASSUME Base, NEW w \in Workers, Start(w) \/ Poll(w) \/ Dispatch(w) \/ SwapPending(w)
    PROVE  Base'
<1>0. MainTyped /\ WorkerTyped /\ MainKnown /\ WorkerKnown /\ Places
  BY TypeParts DEF Base
<1>1. UNCHANGED <<mainVars, connVars, handlers, fault>>
  BY DEF Start, Poll, Dispatch, SwapPending
<1>2. MainTyped' /\ MainKnown'
  BY <1>0, <1>1 DEF mainVars, connVars, MainTyped, MainKnown
<1>3. CASE Start(w)
  <2>1. /\ running' = [running EXCEPT ![w] = TRUE] /\ loop[w] = "unstarted" /\ loop' = [loop EXCEPT ![w] = "poll"]
        /\ UNCHANGED <<batch, current, tasks, pending>>
    BY <1>3 DEF Start
  <2>2. WorkerTyped' /\ Places'
    BY <1>0, <1>1, <2>1 DEF WorkerTyped, Places, InPlace, mainVars
  <2>3. \A v \in Workers : Todo(v)' = Todo(v)
    BY <2>1 DEF Todo
  <2>4. WorkerKnown'
    BY <1>1, <2>1, <2>3, WorkersKnown DEF mainVars
  <2> QED
    BY <1>2, <2>2, <2>4 DEF Base, TypeOK, MainTyped, WorkerTyped, States, Job
<1>4. CASE Poll(w)
  <2>0. PICK ready \in SUBSET Registered(w) : \E writable \in SUBSET ready :
            batch' = [batch EXCEPT ![w] = {[conn |-> c, calls |-> Callbacks(c, c \in writable)] : c \in ready}]
    BY <1>4 DEF Poll
  <2>1. PICK writable \in SUBSET ready :
            batch' = [batch EXCEPT ![w] = {[conn |-> c, calls |-> Callbacks(c, c \in writable)] : c \in ready}]
    BY <2>0
  <2>2. /\ loop[w] = "poll" /\ loop' = [loop EXCEPT ![w] = "dispatch"] /\ UNCHANGED <<running, current, tasks, pending>>
    BY <1>4 DEF Poll
  <2>3. ASSUME NEW c \in ready
        PROVE  c \in Conns /\ c <= accepted /\ [conn |-> c, calls |-> Callbacks(c, c \in writable)] \in Events
    <3>1. c \in 1 .. accepted /\ c \in Conns
      BY <1>0, ConstantsTyped DEF Registered, MainTyped
    <3>2. Callbacks(c, c \in writable) \in Seq(Callback)
      <4>1. "error" \in Callback /\ "read" \in Callback /\ "write" \in Callback
        BY DEF Callback
      <4> DEFINE e == IF c \in sockErr THEN <<"error">> ELSE <<>>
                 o == IF c \in writable THEN <<"write">> ELSE <<>>
      <4>2. e \in Seq(Callback) /\ <<"read">> \in Seq(Callback) /\ o \in Seq(Callback)
        BY <4>1
      <4>3. e \o <<"read">> \in Seq(Callback)
        BY <4>2, ConcatProperties
      <4>4. (e \o <<"read">>) \o o \in Seq(Callback)
        BY <4>2, <4>3, ConcatProperties
      <4> QED
        BY <4>4 DEF Callbacks
    <3> QED
      BY <3>1, <3>2 DEF Events
  <2>4. batch' \in [Workers -> SUBSET Events] /\ \A v \in Workers : \A e \in batch'[v] : e \in batch[v] \/ e.conn <= accepted
    BY <1>0, <2>1, <2>3 DEF WorkerTyped
  <2>5. WorkerTyped'
    BY <1>0, <1>1, <2>2, <2>4 DEF WorkerTyped
  <2>6. Places'
    <3>1. \A v \in Workers : v # w => loop'[v] = loop[v] /\ batch'[v] = batch[v]
      BY <1>0, <2>1, <2>2 DEF WorkerTyped
    <3>2. loop'[w] = "dispatch"
      BY <1>0, <2>2 DEF WorkerTyped
    <3> QED
      BY <1>0, <1>1, <2>2, <3>1, <3>2 DEF Places, InPlace, mainVars
  <2>7. \A v \in Workers : Todo(v)' = Todo(v)
    BY <2>2 DEF Todo
  <2>8. WorkerKnown'
    BY <1>1, <2>2, <2>4, <2>7, WorkersKnown DEF mainVars
  <2> QED
    BY <1>2, <2>5, <2>6, <2>8 DEF Base, TypeOK, MainTyped, WorkerTyped, States, Job
<1>5. CASE Dispatch(w)
  <2>1. PICK e \in batch[w] :
          /\ batch' = [batch EXCEPT ![w] = @ \ {e}]
          /\ current' = [current EXCEPT ![w] = IF handlers[w][fd[e.conn]] = None THEN Idle
                                               ELSE [conn |-> handlers[w][fd[e.conn]], calls |-> e.calls]]
    BY <1>5 DEF Dispatch
  <2>2. loop[w] = "dispatch" /\ UNCHANGED <<running, loop, tasks, pending>>
    BY <1>5 DEF Dispatch
  <2>3. e \in Events /\ fd[e.conn] \in Fds
    <3>1. e \in Events /\ e.conn \in Conns /\ e.conn <= accepted
      BY <1>0 DEF WorkerTyped, WorkerKnown, Events
    <3> QED
      BY <1>0, <3>1 DEF MainTyped, MainKnown
  <2>4. batch' \in [Workers -> SUBSET Events] /\ \A v \in Workers : batch'[v] \subseteq batch[v] /\ (v # w => batch'[v] = batch[v])
    BY <1>0, <2>1 DEF WorkerTyped
  <2>5. /\ current' \in [Workers -> Events \cup {Idle}]
        /\ \A v \in Workers : /\ v # w => current'[v] = current[v]
                              /\ current'[v].conn = current[v].conn \/ current'[v].conn <= accepted
    <3> DEFINE h == handlers[w][fd[e.conn]]
    <3>1. h \in Conns \cup {None} /\ h <= accepted
      BY <1>0, <2>3 DEF WorkerTyped, WorkerKnown
    <3>2. CASE h = None
      <4>1. Idle.conn <= accepted
        BY <3>1, <3>2 DEF Idle
      <4> QED
        BY <1>0, <2>1, <3>2, <4>1 DEF WorkerTyped
    <3>3. CASE h # None
      <4>1. [conn |-> h, calls |-> e.calls] \in Events
        BY <2>3, <3>1, <3>3 DEF Events
      <4> QED
        BY <1>0, <2>1, <3>1, <3>3, <4>1 DEF WorkerTyped
    <3> QED
      BY <3>2, <3>3
  <2>6. WorkerTyped'
    BY <1>0, <1>1, <2>2, <2>4, <2>5 DEF WorkerTyped
  <2>7. Places'
    BY <1>0, <1>1, <2>2, <2>4, <2>5 DEF Places, InPlace, mainVars
  <2>8. \A v \in Workers : Todo(v)' = Todo(v)
    BY <2>2 DEF Todo
  <2>9. WorkerKnown'
    BY <1>1, <2>4, <2>5, <2>8, WorkersKnown DEF mainVars
  <2> QED
    BY <1>2, <2>6, <2>7, <2>9 DEF Base, TypeOK, MainTyped, WorkerTyped, States, Job
<1>6. CASE SwapPending(w)
  <2>1. /\ loop[w] = "dispatch" /\ batch[w] = {} /\ current[w].calls = <<>>
        /\ tasks' = [tasks EXCEPT ![w] = pending[w]] /\ pending' = [pending EXCEPT ![w] = <<>>]
        /\ loop' = [loop EXCEPT ![w] = IF pending[w] = <<>> THEN "poll" ELSE "tasks"]
        /\ UNCHANGED <<running, batch, current>>
    BY <1>6 DEF SwapPending
  <2>2. tasks[w] = <<>> /\ pending[w] \in Seq(Job)
    BY <1>0, <2>1 DEF Places, InPlace, WorkerTyped
  <2>3. WorkerTyped'
    <3>1. tasks' \in [Workers -> Seq(Job)] /\ pending' \in [Workers -> Seq(Job)]
      BY <1>0, <2>1, <2>2 DEF WorkerTyped
    <3>2. loop' \in [Workers -> {"unstarted", "poll", "dispatch", "tasks"}]
      BY <1>0, <2>1 DEF WorkerTyped
    <3> QED
      BY <1>0, <1>1, <2>1, <3>1, <3>2 DEF WorkerTyped
  <2>4. Places'
    <3>1. \A v \in Workers : v # w => loop'[v] = loop[v] /\ tasks'[v] = tasks[v]
      BY <1>0, <2>1 DEF WorkerTyped
    <3>2. loop'[w] = (IF pending[w] = <<>> THEN "poll" ELSE "tasks") /\ tasks'[w] = pending[w]
      BY <1>0, <2>1 DEF WorkerTyped
    <3> QED
      BY <1>0, <1>1, <2>1, <3>1, <3>2 DEF Places, InPlace, mainVars
  <2>5. \A v \in Workers : Todo(v)' = Todo(v)
    BY <1>6, TodoSwapped
  <2>6. WorkerKnown'
    BY <1>1, <2>1, <2>5, WorkersKnown DEF mainVars
  <2> QED
    BY <1>2, <2>3, <2>4, <2>6 DEF Base, TypeOK, MainTyped, WorkerTyped, States, Job
<1> QED
  BY <1>3, <1>4, <1>5, <1>6

LEMMA BaseCallback ==
    ASSUME Base, NEW w \in Workers, HandleError(w) \/ HandleClose(w) \/ HandleData(w)
    PROVE  Base'
<1> DEFINE c == current[w].conn
<1>0. MainTyped /\ WorkerTyped /\ MainKnown /\ WorkerKnown /\ Places
  BY TypeParts DEF Base
<1>1. NextCallback(w)
  BY DEF HandleError, HandleClose, HandleData
<1>2. /\ c \in Conns /\ Alive(c) /\ loop[w] = "dispatch"
      /\ WorkerTyped' /\ UNCHANGED <<running, handlers, loop, batch, tasks, pending>>
      /\ \A v \in Workers : current'[v].conn = current[v].conn /\ (v # w => current'[v] = current[v])
  BY <1>1, CallbackDone
<1>3. c \in 1 .. accepted
  BY <1>2, AliveAccepted
<1>4. UNCHANGED <<accepted, connections, establishing, removing, removed, fd, ended, epoll, fault>>
  BY <1>1 DEF NextCallback, HandleError, HandleClose, HandleData, RemoveConnection, mainVars, connVars
<1>5. removals' \in Seq(Conns) /\ \A d \in Elements(removals') \cup Elements(removing) : d <= accepted
  <2>1. CASE RemoveConnection(c)
    BY <1>2, <2>1, RemovalKnown DEF RemoveConnection
  <2>2. CASE removals' = removals
    BY <1>0, <2>2 DEF MainTyped, MainKnown
  <2> QED
    BY <2>1, <2>2 DEF HandleError, HandleClose, HandleData, mainVars
<1>6. /\ state' \in [Conns -> States] /\ sockErr' \subseteq Conns
      /\ \A d \in Conns : d > accepted => state'[d] = "CONNECTING"
  <2>1. CASE HandleClose(w)
    <3>1. state' = [state EXCEPT ![c] = "DISCONNECTED"] /\ sockErr' = sockErr
      BY <2>1 DEF HandleClose
    <3>2. \A d \in Conns : d > accepted => d # c
      BY <1>0, <1>3, ConstantsTyped DEF MainTyped
    <3> QED
      BY <1>0, <1>2, <3>1, <3>2 DEF MainTyped, MainKnown, States
  <2>2. CASE HandleError(w) \/ HandleData(w)
    <3>1. state' = state /\ sockErr' \subseteq sockErr
      BY <2>2 DEF HandleError, HandleData, connVars
    <3> QED
      BY <1>0, <3>1 DEF MainTyped, MainKnown
  <2> QED
    BY <2>1, <2>2
<1>7. MainTyped' /\ MainKnown'
  BY <1>0, <1>4, <1>5, <1>6 DEF MainTyped, MainKnown
<1>8. Places'
  BY <1>0, <1>2, <1>4 DEF Places, InPlace
<1>9. WorkerKnown'
  <2>1. \A v \in Workers : Todo(v)' = Todo(v)
    BY <1>2 DEF Todo
  <2> QED
    BY <1>2, <1>4, <2>1, WorkersKnown
<1> QED
  BY <1>2, <1>7, <1>8, <1>9 DEF Base, TypeOK, MainTyped, WorkerTyped, States, Job

LEMMA BaseTask ==
    ASSUME Base, NEW w \in Workers, EstablishTask(w) \/ DestroyTask(w)
    PROVE  Base'
<1> DEFINE c == Head(tasks[w]).conn
<1>0. MainTyped /\ WorkerTyped /\ MainKnown /\ WorkerKnown /\ Places
  BY TypeParts DEF Base
<1>1. PICK kind : NextTask(w, kind)
  BY DEF EstablishTask, DestroyTask
<1>2. /\ tasks' \in [Workers -> Seq(Job)] /\ UNCHANGED pending
      /\ c \in Conns /\ Alive(c) /\ Todo(w) # <<>>
      /\ \A v \in Workers : Todo(v)' = IF v = w THEN Tail(Todo(v)) ELSE Todo(v)
  BY <1>1, TaskDone
<1>3. c \in 1 .. accepted
  BY <1>2, AliveAccepted
<1>4. /\ loop[w] = "tasks" /\ tasks' = [tasks EXCEPT ![w] = Tail(tasks[w])]
      /\ loop' = [loop EXCEPT ![w] = IF Tail(tasks[w]) = <<>> THEN "poll" ELSE "tasks"]
      /\ UNCHANGED <<fd, ended, sockErr, running, batch, current, pending, fault>>
  BY <1>1 DEF NextTask
<1>5. UNCHANGED <<accepted, connections, establishing, removing, removed>>
  BY DEF EstablishTask, DestroyTask, RemoveConnection, mainVars
<1>6. removals' \in Seq(Conns) /\ \A d \in Elements(removals') \cup Elements(removing) : d <= accepted
  <2>1. CASE RemoveConnection(c)
    BY <1>2, <2>1, RemovalKnown DEF RemoveConnection
  <2>2. CASE removals' = removals
    BY <1>0, <2>2 DEF MainTyped, MainKnown
  <2> QED
    BY <2>1, <2>2 DEF EstablishTask, DestroyTask, mainVars
<1>7. /\ state' \in [Conns -> States] /\ epoll' \subseteq 1 .. accepted
      /\ \A d \in Conns : d > accepted => state'[d] = "CONNECTING"
      /\ handlers' \in [Workers -> [Fds -> Conns \cup {None}]]
      /\ \A v \in Workers : \A f \in Fds : handlers'[v][f] = handlers[v][f] \/ handlers'[v][f] <= accepted
  <2>1. \A d \in Conns : d > accepted => d # c
    BY <1>0, <1>3, ConstantsTyped DEF MainTyped
  <2>2. c <= accepted /\ None <= accepted
    BY <1>0, <1>3, ConstantsTyped DEF MainTyped
  <2>3. CASE EstablishInLoop(c)
    <3>1. /\ state' \in [Conns -> States] /\ epoll' \subseteq 1 .. accepted
          /\ \A d \in Conns : state'[d] = IF d = c THEN "CONNECTED" ELSE state[d]
          /\ handlers' \in [Workers -> [Fds -> Conns \cup {None}]]
          /\ \A v \in Workers : \A f \in Fds :
                 handlers'[v][f] = IF v = LoopOf(c) /\ f = fd[c] THEN c ELSE handlers[v][f]
      BY <1>2, <1>3, <2>3, HandlerSet
    <3> QED
      BY <1>0, <2>1, <2>2, <3>1 DEF MainKnown
  <2>4. CASE state' = [state EXCEPT ![c] = "DISCONNECTED"] /\ RemoveHandler(c)
    <3>1. /\ epoll' \subseteq 1 .. accepted
          /\ handlers' \in [Workers -> [Fds -> Conns \cup {None}]]
          /\ \A v \in Workers : \A f \in Fds :
                 handlers'[v][f] = IF v = LoopOf(c) /\ f = fd[c] THEN None ELSE handlers[v][f]
      BY <1>2, <1>3, <2>4, HandlerErased
    <3> QED
      BY <1>0, <1>2, <2>1, <2>2, <2>4, <3>1 DEF MainTyped, MainKnown, States
  <2>5. CASE UNCHANGED <<state, epoll, handlers>>
    BY <1>0, <2>5 DEF MainTyped, WorkerTyped, MainKnown
  <2> QED
    BY <2>3, <2>4, <2>5 DEF EstablishTask, DestroyTask
<1>8. MainTyped' /\ MainKnown'
  BY <1>0, <1>4, <1>5, <1>6, <1>7 DEF MainTyped, MainKnown
<1>9. WorkerTyped'
  BY <1>0, <1>2, <1>4, <1>7 DEF WorkerTyped
<1>10. Places'
  <2>1. \A v \in Workers : v # w => loop'[v] = loop[v] /\ tasks'[v] = tasks[v]
    BY <1>0, <1>4 DEF WorkerTyped
  <2>2. loop'[w] = (IF Tail(tasks[w]) = <<>> THEN "poll" ELSE "tasks") /\ tasks'[w] = Tail(tasks[w])
    BY <1>0, <1>4 DEF WorkerTyped
  <2>3. UNCHANGED <<running, batch, current>>
    BY <1>4
  <2>4. InPlace(w)'
    <3>1. InPlace(w)
      BY <1>0 DEF Places
    <3>2. running[w] /\ batch[w] = {} /\ current[w].calls = <<>>
      BY <1>4, <3>1 DEF InPlace
    <3>3. loop'[w] # "unstarted" /\ (loop'[w] = "tasks" <=> tasks'[w] # <<>>)
      BY <2>2
    <3> QED
      BY <2>3, <3>2, <3>3 DEF InPlace
  <2>5. ASSUME NEW v \in Workers, v # w PROVE InPlace(v)'
    <3>1. InPlace(v)
      BY <1>0 DEF Places
    <3> QED
      BY <2>1, <2>3, <2>5, <3>1 DEF InPlace
  <2>6. establishing' # None => removing' = <<>>
    BY <1>0, <1>5 DEF Places
  <2> QED
    BY <2>4, <2>5, <2>6 DEF Places
<1>11. WorkerKnown'
  BY <1>2, <1>4, <1>5, <1>7, WorkersKnown
<1> QED
  BY <1>8, <1>9, <1>10, <1>11 DEF Base, TypeOK, MainTyped, WorkerTyped, States, Job

LEMMA BaseStep == Base /\ [Next]_vars => Base'
BY BaseMain, BaseEstablish, BaseRemove, BaseTurn, BaseCallback, BaseTask DEF Next, MainStep, WorkerStep
-----------------------------------------------------------------------------
(* Descriptors and handlers.                                               *)

\* Two connections that are alive never have the same descriptor.
FdUnique ==
    \A c, d \in Conns : Alive(c) /\ Alive(d) /\ c # d => fd[c] # fd[d]

\* A connection that is up, or registered with epoll, has its own handler.
Installed ==
    \A c \in Conns : Alive(c) /\ (state[c] = "CONNECTED" \/ c \in epoll) => handlers[LoopOf(c)][fd[c]] = c

\* No connection comes back to life.
LEMMA AliveBefore ==
    ASSUME Base, [Next]_vars, NEW c \in Conns, Alive(c)'
    PROVE  Alive(c) \/ (Accept /\ c = accepted')
<1>0. c # None
  BY ConstantsTyped
<1>1. CASE UNCHANGED <<connections, establishing, removals, removing>>
  BY <1>1 DEF Alive
<1>2. CASE Accept
  BY <1>2 DEF Accept, Alive
<1>3. CASE Establish
  BY <1>0, <1>3 DEF Establish, Alive
<1>4. CASE SwapRemovals
  BY <1>4 DEF SwapRemovals, Alive, Elements
<1>5. CASE RemoveConnectionInLoop
  BY <1>5 DEF RemoveConnectionInLoop, Alive
<1>6. CASE DropRemovals
  BY <1>6 DEF DropRemovals, Alive, Elements
<1>7. ASSUME NEW w \in Workers, HandleError(w) \/ HandleClose(w) \/ HandleData(w) PROVE Alive(c)
  <2>1. current[w].conn \in Conns /\ Alive(current[w].conn)
    BY <1>7, CallbackDone DEF HandleError, HandleClose, HandleData
  <2>2. CASE RemoveConnection(current[w].conn)
    <3>1. Elements(removals') = Elements(removals) \cup {current[w].conn} /\ UNCHANGED <<connections, establishing, removing>>
      BY <2>1, <2>2, RemovalKnown
    <3> QED
      BY <2>1, <3>1 DEF Alive
  <2>3. CASE UNCHANGED mainVars
    BY <1>1, <1>0, <2>3 DEF mainVars, Alive
  <2> QED
    BY <1>7, <2>2, <2>3 DEF HandleError, HandleClose, HandleData
<1>8. ASSUME NEW w \in Workers, EstablishTask(w) \/ DestroyTask(w) PROVE Alive(c)
  <2>1. Head(tasks[w]).conn \in Conns /\ Alive(Head(tasks[w]).conn)
    BY <1>8, TaskDone DEF EstablishTask, DestroyTask
  <2>2. CASE RemoveConnection(Head(tasks[w]).conn)
    <3>1. Elements(removals') = Elements(removals) \cup {Head(tasks[w]).conn} /\ UNCHANGED <<connections, establishing, removing>>
      BY <2>1, <2>2, RemovalKnown
    <3> QED
      BY <2>1, <3>1 DEF Alive
  <2>3. CASE UNCHANGED mainVars
    BY <2>3 DEF mainVars, Alive
  <2> QED
    BY <1>8, <2>2, <2>3 DEF EstablishTask, DestroyTask
<1>9. CASE \/ \E d \in Conns : PeerEnds(d)
           \/ \E w \in Workers : Start(w) \/ Poll(w) \/ Dispatch(w) \/ SwapPending(w) \/ UseAfterFree(w)
           \/ UNCHANGED vars
  BY <1>1, <1>9 DEF PeerEnds, Start, Poll, Dispatch, SwapPending, UseAfterFree, vars, mainVars
<1> QED
  BY <1>2, <1>3, <1>4, <1>5, <1>6, <1>7, <1>8, <1>9 DEF Next, MainStep, WorkerStep

\* Descriptors are given once, by accept().
LEMMA FdGiven ==
    ASSUME Base, [Next]_vars
    PROVE  \/ UNCHANGED fd /\ UNCHANGED accepted
           \/ /\ Accept /\ accepted' \in Conns /\ accepted' = accepted + 1
              /\ \E f \in Fds : ~Open(f) /\ fd' = [fd EXCEPT ![accepted'] = f]
<1>1. CASE Accept
  <2>1. accepted' = accepted + 1 /\ accepted < NConns /\ accepted \in Nat
    BY <1>1 DEF Accept, Base, TypeOK
  <2>2. accepted' \in Conns
    BY <2>1, ConstantsTyped
  <2>3. PICK f \in Fds : ~Open(f) /\ fd' = [fd EXCEPT ![accepted'] = f]
    BY <1>1 DEF Accept
  <2> QED
    BY <1>1, <2>1, <2>2, <2>3
<1>2. CASE Establish \/ SwapRemovals \/ RemoveConnectionInLoop \/ DropRemovals \/ UNCHANGED vars \/ \E c \in Conns : PeerEnds(c)
  BY <1>2 DEF Establish, SwapRemovals, RemoveConnectionInLoop, DropRemovals, vars, mainVars, connVars, PeerEnds
<1>3. CASE \E w \in Workers : Start(w) \/ Poll(w) \/ Dispatch(w) \/ SwapPending(w) \/ UseAfterFree(w)
  BY <1>3 DEF Start, Poll, Dispatch, SwapPending, UseAfterFree, mainVars, connVars
<1>4. CASE \E w \in Workers : HandleError(w) \/ HandleClose(w) \/ HandleData(w)
  BY <1>4 DEF HandleError, HandleClose, HandleData, RemoveConnection, mainVars, connVars
<1>5. CASE \E w \in Workers : EstablishTask(w) \/ DestroyTask(w)
  BY <1>5 DEF EstablishTask, DestroyTask, NextTask, RemoveConnection, mainVars
<1> QED
  BY <1>1, <1>2, <1>3, <1>4, <1>5 DEF Next, MainStep, WorkerStep

LEMMA AcceptGives == Base /\ Accept => fd' # fd
<1> SUFFICES ASSUME Base, Accept PROVE fd' # fd
  OBVIOUS
<1>1. accepted' = accepted + 1 /\ accepted < NConns /\ accepted \in Nat /\ fd \in [Conns -> Fds \cup {None}]
  BY DEF Accept, Base, TypeOK
<1>2. accepted' \in Conns /\ ~(accepted' <= accepted)
  BY <1>1, ConstantsTyped
<1>3. fd[accepted'] = None
  BY <1>2 DEF Base, MainKnown
<1>4. PICK f \in Fds : fd' = [fd EXCEPT ![accepted'] = f]
  BY DEF Accept
<1>5. fd'[accepted'] = f /\ f # None
  BY <1>1, <1>2, <1>4, ConstantsTyped
<1> QED
  BY <1>3, <1>5

LEMMA FdUniqueStep ==
    ASSUME Base, FdUnique, [Next]_vars
    PROVE  FdUnique'
<1> SUFFICES ASSUME NEW c \in Conns, NEW d \in Conns, Alive(c)', Alive(d)', c # d PROVE fd'[c] # fd'[d]
  BY DEF FdUnique
<1>1. CASE UNCHANGED accepted /\ UNCHANGED fd
  <2>1. ~Accept
    BY <1>1, ConstantsTyped DEF Accept, Base, TypeOK
  <2>2. Alive(c) /\ Alive(d)
    BY <2>1, AliveBefore
  <2> QED
    BY <1>1, <2>2 DEF FdUnique
<1>2. ASSUME accepted' \in Conns, NEW f \in Fds, ~Open(f), fd' = [fd EXCEPT ![accepted'] = f] PROVE fd'[c] # fd'[d]
  <2>1. fd \in [Conns -> Fds \cup {None}]
    BY DEF Base, TypeOK
  <2>2. \A b \in Conns : fd'[b] = IF b = accepted' THEN f ELSE fd[b]
    BY <1>2, <2>1
  <2>3. \A b \in Conns : Alive(b) => fd[b] # f
    BY <1>2 DEF Open
  <2>4. (c = accepted' \/ Alive(c)) /\ (d = accepted' \/ Alive(d))
    BY AliveBefore
  <2> QED
    BY <2>2, <2>3, <2>4 DEF FdUnique
<1> QED
  BY <1>1, <1>2, FdGiven

\* How a step changes what Installed is about: it may take a connection down, or it changes the
\* handler of one connection, whose loop has no events in hand.
HandlersChanged ==
    \/ UNCHANGED <<handlers, epoll>> /\ \A c \in Conns : state'[c] = "CONNECTED" => state[c] = "CONNECTED"
    \/ \E c \in Conns : /\ Alive(c) /\ batch[LoopOf(c)] = {} /\ UNCHANGED <<batch, fd>>
                        /\ \/ EstablishInLoop(c)
                           \/ RemoveHandler(c) /\ state' = [state EXCEPT ![c] = "DISCONNECTED"]

LEMMA HandlersChange ==
    ASSUME Base, [Next]_vars
    PROVE  HandlersChanged
<1> USE DEF HandlersChanged
<1>1. CASE Establish
  <2>1. establishing \in Conns /\ Alive(establishing) /\ LoopOf(establishing) \in Workers
    BY <1>1, LoopTyped DEF Establish, Base, TypeOK, Alive
  <2>2. CASE running[LoopOf(establishing)]
    BY <1>1, <2>2 DEF Establish
  <2>3. CASE ~running[LoopOf(establishing)]
    <3>1. EstablishInLoop(establishing) /\ UNCHANGED <<batch, fd>>
      BY <1>1, <2>3 DEF Establish
    <3>2. InPlace(LoopOf(establishing))
      BY <2>1 DEF Base, Places
    <3>3. batch[LoopOf(establishing)] = {}
      BY <2>3, <3>2 DEF InPlace
    <3> QED
      BY <2>1, <3>1, <3>3
  <2> QED
    BY <2>2, <2>3
<1>2. ASSUME NEW w \in Workers, EstablishTask(w) \/ DestroyTask(w) PROVE HandlersChanged
  <2>1. LoopOf(Head(tasks[w]).conn) = w /\ Head(tasks[w]).conn \in Conns /\ Alive(Head(tasks[w]).conn)
    BY <1>2, TaskDone DEF EstablishTask, DestroyTask
  <2>2. loop[w] = "tasks" /\ UNCHANGED <<batch, fd>>
    BY <1>2 DEF EstablishTask, DestroyTask, NextTask
  <2>3. InPlace(w)
    BY DEF Base, Places
  <2>4. batch[w] = {}
    BY <2>2, <2>3 DEF InPlace
  <2> QED
    BY <1>2, <2>1, <2>2, <2>4 DEF EstablishTask, DestroyTask
<1>3. CASE Accept \/ SwapRemovals \/ RemoveConnectionInLoop \/ DropRemovals \/ UNCHANGED vars \/ \E c \in Conns : PeerEnds(c)
  BY <1>3 DEF Accept, SwapRemovals, RemoveConnectionInLoop, DropRemovals, vars, workerVars, connVars, PeerEnds
<1>4. CASE \E w \in Workers : Start(w) \/ Poll(w) \/ Dispatch(w) \/ SwapPending(w) \/ UseAfterFree(w)
  BY <1>4 DEF Start, Poll, Dispatch, SwapPending, UseAfterFree, workerVars, connVars
<1>5. CASE \E w \in Workers : HandleError(w) \/ HandleData(w)
  BY <1>5 DEF HandleError, HandleData, NextCallback, connVars
<1>6. ASSUME NEW w \in Workers, HandleClose(w) PROVE HandlersChanged
  <2>1. state' = [state EXCEPT ![current[w].conn] = "DISCONNECTED"] /\ UNCHANGED <<handlers, epoll>>
    BY <1>6 DEF HandleClose, NextCallback
  <2>2. state \in [Conns -> States]
    BY DEF Base, TypeOK, States
  <2> QED
    BY <2>1, <2>2
<1> QED
  BY <1>1, <1>2, <1>3, <1>4, <1>5, <1>6 DEF Next, MainStep, WorkerStep

LEMMA InstalledStep ==
    ASSUME Base, FdUnique, Installed, [Next]_vars
    PROVE  Installed'
<1> SUFFICES ASSUME NEW c \in Conns, Alive(c)', state'[c] = "CONNECTED" \/ c \in epoll'
             PROVE  handlers'[LoopOf(c)][fd'[c]] = c
  BY DEF Installed, LoopOf
<1>0. LoopOf(c) \in Workers
  BY LoopTyped
<1>1. CASE UNCHANGED <<handlers, epoll>> /\ \A d \in Conns : state'[d] = "CONNECTED" => state[d] = "CONNECTED"
  <2>1. state[c] = "CONNECTED" \/ c \in epoll
    BY <1>1
  <2>2. c <= accepted /\ accepted \in Nat
    <3>1. epoll \subseteq 1 .. accepted /\ accepted \in Nat
      BY DEF Base, TypeOK
    <3>2. c > accepted => state[c] = "CONNECTING"
      BY DEF Base, MainKnown
    <3> QED
      BY <2>1, <3>1, <3>2, ConstantsTyped
  <2>3. Alive(c) /\ fd'[c] = fd[c]
    <3>1. Accept => accepted' = accepted + 1
      BY DEF Accept
    <3>2. Alive(c)
      BY <2>2, <3>1, AliveBefore, ConstantsTyped
    <3>3. fd \in [Conns -> Fds \cup {None}]
      BY DEF Base, TypeOK
    <3>4. CASE UNCHANGED fd
      BY <3>2, <3>4
    <3>5. ASSUME NEW f \in Fds, accepted' = accepted + 1, fd' = [fd EXCEPT ![accepted'] = f] PROVE fd'[c] = fd[c]
      <4>1. c # accepted'
        BY <2>2, <3>5, ConstantsTyped
      <4> QED
        BY <3>3, <3>5, <4>1
    <3> QED
      BY <3>2, <3>4, <3>5, FdGiven
  <2> QED
    BY <1>1, <2>1, <2>3 DEF Installed
<1>2. ASSUME NEW d \in Conns, Alive(d), UNCHANGED fd, EstablishInLoop(d) PROVE handlers'[LoopOf(c)][fd'[c]] = c
  <2>1. d \in 1 .. accepted /\ fd[d] \in Fds
    BY <1>2, AliveAccepted
  <2>2. /\ epoll' = epoll \cup {d}
        /\ \A b \in Conns : state'[b] = IF b = d THEN "CONNECTED" ELSE state[b]
        /\ \A v \in Workers : \A f \in Fds :
                 handlers'[v][f] = IF v = LoopOf(d) /\ f = fd[d] THEN d ELSE handlers[v][f]
    BY <1>2, <2>1, HandlerSet
  <2>3. CASE c = d
    BY <1>0, <1>2, <2>1, <2>2, <2>3
  <2>4. CASE c # d
    <3>1. Alive(c)
      <4>1. ~Accept
        BY <1>2, AcceptGives
      <4> QED
        BY <4>1, AliveBefore
    <3>2. fd[c] # fd[d] /\ handlers[LoopOf(c)][fd[c]] = c /\ fd[c] \in Fds
      BY <1>2, <2>2, <2>4, <3>1, AliveAccepted DEF FdUnique, Installed
    <3> QED
      BY <1>0, <1>2, <2>2, <3>2
  <2> QED
    BY <2>3, <2>4
<1>3. ASSUME NEW d \in Conns, Alive(d), UNCHANGED fd, RemoveHandler(d), state' = [state EXCEPT ![d] = "DISCONNECTED"]
      PROVE  handlers'[LoopOf(c)][fd'[c]] = c
  <2>1. d \in 1 .. accepted /\ fd[d] \in Fds
    BY <1>3, AliveAccepted
  <2>2. /\ epoll' = epoll \ {d}
        /\ \A v \in Workers : \A f \in Fds :
                 handlers'[v][f] = IF v = LoopOf(d) /\ f = fd[d] THEN None ELSE handlers[v][f]
    BY <1>3, <2>1, HandlerErased
  <2>3. state \in [Conns -> States]
    BY DEF Base, TypeOK, States
  <2>4. c # d /\ (state[c] = "CONNECTED" \/ c \in epoll)
    BY <1>3, <2>2, <2>3
  <2>5. Alive(c)
    <3>1. CASE ~Accept
      BY <3>1, AliveBefore
    <3>2. CASE Accept
      <4>1. accepted' = accepted + 1 /\ epoll \subseteq 1 .. accepted /\ accepted \in Nat
        BY <3>2 DEF Accept, Base, TypeOK
      <4>2. c > accepted => state[c] = "CONNECTING"
        BY DEF Base, MainKnown
      <4>3. c # accepted'
        BY <2>4, <4>1, <4>2, ConstantsTyped
      <4> QED
        BY <4>3, AliveBefore
    <3> QED
      BY <3>1, <3>2
  <2>6. fd[c] # fd[d] /\ handlers[LoopOf(c)][fd[c]] = c /\ fd[c] \in Fds
    BY <1>3, <2>4, <2>5, AliveAccepted DEF FdUnique, Installed
  <2> QED
    BY <1>0, <1>3, <2>2, <2>6
<1> QED
  BY <1>1, <1>2, <1>3, HandlersChange DEF HandlersChanged

LEMMA EventsStep ==
    ASSUME Base, Installed, EventsReachTheirConnection, [Next]_vars
    PROVE  EventsReachTheirConnection'
<1> SUFFICES ASSUME NEW w \in Workers, NEW e \in batch'[w]
             PROVE  handlers'[w][fd'[e.conn]] \in {e.conn, None}
  BY DEF EventsReachTheirConnection
<1>a. accepted \in Nat /\ fd \in [Conns -> Fds \cup {None}] /\ batch \in [Workers -> SUBSET Events]
  BY DEF Base, TypeOK
<1>1. ASSUME e \in batch[w] PROVE e.conn \in Conns /\ e.conn <= accepted /\ fd[e.conn] \in Fds /\ fd'[e.conn] = fd[e.conn]
  <2>1. e.conn \in Conns /\ e.conn <= accepted
    BY <1>1 DEF Base, TypeOK, WorkerKnown, Events
  <2>2. fd[e.conn] \in Fds
    BY <1>a, <2>1 DEF Base, MainKnown
  <2>3. ASSUME NEW f \in Fds, accepted' = accepted + 1, fd' = [fd EXCEPT ![accepted'] = f] PROVE fd'[e.conn] = fd[e.conn]
    <3>1. e.conn # accepted'
      BY <1>a, <2>1, <2>3, ConstantsTyped
    <3> QED
      BY <1>a, <2>3, <3>1
  <2> QED
    BY <2>1, <2>2, <2>3, FdGiven
<1>2. CASE batch'[w] \subseteq batch[w]
  <2>1. e \in batch[w] /\ handlers[w][fd[e.conn]] \in {e.conn, None}
    BY <1>2 DEF EventsReachTheirConnection
  <2>2. e.conn \in Conns /\ fd[e.conn] \in Fds /\ fd'[e.conn] = fd[e.conn]
    BY <1>1, <2>1
  <2>3. CASE UNCHANGED handlers
    BY <2>1, <2>2, <2>3
  <2>4. ASSUME NEW c \in Conns, Alive(c), batch[LoopOf(c)] = {}, EstablishInLoop(c) \/ RemoveHandler(c)
        PROVE  handlers'[w][fd'[e.conn]] \in {e.conn, None}
    <3>1. w # LoopOf(c)
      BY <2>1, <2>4
    <3>2. c \in 1 .. accepted
      BY <2>4, AliveAccepted
    <3>3. handlers'[w][fd[e.conn]] = handlers[w][fd[e.conn]]
      <4>1. CASE EstablishInLoop(c)
        BY <2>2, <3>1, <3>2, <4>1, HandlerSet
      <4>2. CASE RemoveHandler(c)
        BY <2>2, <3>1, <3>2, <4>2, HandlerErased
      <4> QED
        BY <2>4, <4>1, <4>2
    <3> QED
      BY <2>1, <2>2, <3>3
  <2> QED
    BY <2>3, <2>4, HandlersChange DEF HandlersChanged
<1>3. CASE Poll(w)
  <2>1. UNCHANGED <<handlers, fd>>
    BY <1>3 DEF Poll, connVars
  <2>2. e.conn \in Registered(w)
    BY <1>3, <1>a DEF Poll
  <2>3. e.conn \in epoll /\ Alive(e.conn) /\ LoopOf(e.conn) = w
    BY <2>2 DEF Registered
  <2>4. e.conn \in Conns
    <3>1. accepted \in 0 .. NConns /\ epoll \subseteq 1 .. accepted
      BY DEF Base, TypeOK
    <3>2. 1 .. accepted \subseteq Conns
      BY <3>1, ConstantsTyped
    <3> QED
      BY <2>3, <3>1, <3>2
  <2> QED
    BY <2>1, <2>3, <2>4 DEF Installed
<1>4. batch'[w] \subseteq batch[w] \/ Poll(w)
  <2>1. CASE UNCHANGED batch
    BY <2>1
  <2>2. ASSUME NEW v \in Workers, Poll(v) \/ Dispatch(v) PROVE <1>4
    <3>1. CASE v = w /\ Poll(v)
      BY <3>1
    <3>2. CASE v # w \/ Dispatch(v)
      <4>1. CASE Dispatch(v)
        <5>1. PICK x \in batch[v] : batch' = [batch EXCEPT ![v] = batch[v] \ {x}]
          BY <4>1 DEF Dispatch
        <5> QED
          BY <1>a, <5>1
      <4>2. CASE Poll(v) /\ v # w
        <5>1. PICK S : batch' = [batch EXCEPT ![v] = S]
          BY <4>2 DEF Poll
        <5> QED
          BY <1>a, <4>2, <5>1
      <4> QED
        BY <2>2, <3>2, <4>1, <4>2
    <3> QED
      BY <2>2, <3>1, <3>2
  <2>3. CASE Accept \/ Establish \/ SwapRemovals \/ RemoveConnectionInLoop \/ DropRemovals \/ UNCHANGED vars \/ \E c \in Conns : PeerEnds(c)
    BY <2>1, <2>3 DEF Accept, Establish, SwapRemovals, RemoveConnectionInLoop, DropRemovals, vars, workerVars, PeerEnds
  <2>4. CASE \E v \in Workers : Start(v) \/ SwapPending(v) \/ UseAfterFree(v)
    BY <2>1, <2>4 DEF Start, SwapPending, UseAfterFree, workerVars
  <2>5. CASE \E v \in Workers : HandleError(v) \/ HandleClose(v) \/ HandleData(v) \/ EstablishTask(v) \/ DestroyTask(v)
    BY <2>1, <2>5 DEF HandleError, HandleClose, HandleData, NextCallback, EstablishTask, DestroyTask, NextTask
  <2> QED
    BY <2>2, <2>3, <2>4, <2>5 DEF Next, MainStep, WorkerStep
<1> QED
  BY <1>2, <1>3, <1>4
-----------------------------------------------------------------------------
(* Where a connection that is up can be found.                             *)

Task(kind, c) == [kind |-> kind, conn |-> c]
Has(w, job) == \E i \in DOMAIN Todo(w) : Todo(w)[i] = job
Once(w) ==
    \A i, k \in DOMAIN Todo(w) : Todo(w)[i].kind = "establish" /\ Todo(w)[i] = Todo(w)[k] => i = k

\* A connection that has still to be established, by the main thread or by its loop.
ToEstablish(c) == \E w \in Workers : Has(w, Task("establish", c))
Fresh(c) == c = establishing \/ ToEstablish(c)

\* It is in connections_ and nobody removes it: no handler calls it yet, no callback is on its way.
Untouched(c) ==
    /\ c \in connections /\ c \notin Elements(removals) \cup Elements(removing)
    /\ state[c] = "CONNECTING"
    /\ \A w \in Workers : current[w].conn # c /\ \A f \in Fds : handlers[w][f] # c

FreshUntouched ==
    \A c \in Conns : /\ Fresh(c) => Untouched(c)
                     /\ c = establishing => ~ToEstablish(c)
EstablishedOnce == \A w \in Workers : Once(w)
Tracked ==
    \A c \in Conns : Alive(c) /\ state[c] = "CONNECTED" /\ c \notin connections => Has(LoopOf(c), Task("destroy", c))

TrackInv == FreshUntouched /\ EstablishedOnce /\ Tracked

LEMMA TodoAppended ==
    ASSUME NEW w, Todo(w) \in Seq(Job), NEW job \in Job, Todo(w)' = Append(Todo(w), job)
    PROVE  /\ \A x : Has(w, x)' <=> Has(w, x) \/ x = job
           /\ Once(w) /\ (job.kind = "establish" => ~Has(w, job)) => Once(w)'
<1>1. /\ DOMAIN Todo(w) = 1 .. Len(Todo(w)) /\ DOMAIN Todo(w)' = 1 .. Len(Todo(w)) + 1 /\ Len(Todo(w)) \in Nat
      /\ \A i \in DOMAIN Todo(w) : Todo(w)'[i] = Todo(w)[i]
      /\ Todo(w)'[Len(Todo(w)) + 1] = job
  OBVIOUS
<1>2. \A i \in DOMAIN Todo(w)' : i \in DOMAIN Todo(w) \/ i = Len(Todo(w)) + 1
  BY <1>1
<1>3. DOMAIN Todo(w) \subseteq DOMAIN Todo(w)' /\ Len(Todo(w)) + 1 \in DOMAIN Todo(w)'
  BY <1>1
<1>4. \A x : Has(w, x)' <=> Has(w, x) \/ x = job
  BY <1>1, <1>2, <1>3 DEF Has
<1>5. Once(w) /\ (job.kind = "establish" => ~Has(w, job)) => Once(w)'
  BY <1>1, <1>2 DEF Once, Has
<1> QED
  BY <1>4, <1>5

LEMMA TodoTail ==
    ASSUME NEW w, Todo(w) \in Seq(Job), Todo(w) # <<>>, Todo(w)' = Tail(Todo(w))
    PROVE  /\ \A x : (Has(w, x)' => Has(w, x)) /\ (Has(w, x) => Has(w, x)' \/ x = Todo(w)[1])
           /\ Once(w) => Once(w)'
           /\ \A x : Once(w) /\ x = Todo(w)[1] /\ x.kind = "establish" => ~Has(w, x)'
<1>1. /\ DOMAIN Todo(w) = 1 .. Len(Todo(w)) /\ DOMAIN Todo(w)' = 1 .. Len(Todo(w)) - 1 /\ Len(Todo(w)) \in Nat
      /\ \A i \in DOMAIN Todo(w)' : Todo(w)'[i] = Todo(w)[i + 1]
  OBVIOUS
<1>2. /\ \A i \in DOMAIN Todo(w)' : i + 1 \in DOMAIN Todo(w) /\ i + 1 # 1
      /\ \A i \in DOMAIN Todo(w) : i = 1 \/ (i - 1 \in DOMAIN Todo(w)' /\ (i - 1) + 1 = i)
      /\ 1 \in DOMAIN Todo(w)
      /\ \A i, k \in DOMAIN Todo(w)' : i + 1 = k + 1 => i = k
  BY <1>1
<1>3. ASSUME NEW x, Has(w, x)' PROVE Has(w, x)
  BY <1>1, <1>2, <1>3 DEF Has
<1>4. ASSUME NEW x, Has(w, x) PROVE Has(w, x)' \/ x = Todo(w)[1]
  <2>1. PICK i \in DOMAIN Todo(w) : Todo(w)[i] = x
    BY <1>4 DEF Has
  <2>2. CASE i = 1
    BY <2>1, <2>2
  <2>3. CASE i # 1
    <3>1. i - 1 \in DOMAIN Todo(w)' /\ Todo(w)'[i - 1] = x
      BY <1>1, <1>2, <2>1, <2>3
    <3> QED
      BY <3>1 DEF Has
  <2> QED
    BY <2>2, <2>3
<1>5. ASSUME Once(w) PROVE Once(w)'
  BY <1>1, <1>2, <1>5 DEF Once
<1>6. ASSUME NEW x, Once(w), x = Todo(w)[1], x.kind = "establish", Has(w, x)' PROVE FALSE
  <2>1. PICK i \in DOMAIN Todo(w)' : Todo(w)'[i] = x
    BY <1>6 DEF Has
  <2> QED
    BY <1>1, <1>2, <1>6, <2>1 DEF Once
<1> QED
  BY <1>3, <1>4, <1>5, <1>6

LEMMA TodoSame ==
    ASSUME NEW w, Todo(w)' = Todo(w)
    PROVE  (\A x : Has(w, x)' <=> Has(w, x)) /\ (Once(w)' <=> Once(w))
BY DEF Has, Once

\* Steps that hand nothing over: TrackInv is kept when they leave the fresh connections untouched.
LEMMA QuietStep ==
    ASSUME TrackInv, UNCHANGED <<establishing, connections>>,
           \A w \in Workers : Todo(w)' = Todo(w),
           \A c \in Conns : Fresh(c) => Untouched(c)',
           \A c \in Conns : (state'[c] = "CONNECTED" => state[c] = "CONNECTED") /\ (Alive(c)' => Alive(c))
    PROVE  TrackInv'
<1>1. \A w \in Workers : (\A x : Has(w, x)' <=> Has(w, x)) /\ (Once(w)' <=> Once(w))
  BY TodoSame
<1>2. \A c : (ToEstablish(c)' <=> ToEstablish(c)) /\ (Fresh(c)' <=> Fresh(c))
  BY <1>1 DEF ToEstablish, Fresh
<1>3. FreshUntouched'
  BY <1>2 DEF TrackInv, FreshUntouched
<1>4. EstablishedOnce'
  BY <1>1 DEF TrackInv, EstablishedOnce
<1>5. Tracked'
  <2> SUFFICES ASSUME NEW c \in Conns, Alive(c)', state'[c] = "CONNECTED", c \notin connections'
               PROVE  Has(LoopOf(c), Task("destroy", c))'
    BY DEF Tracked, LoopOf, Task
  <2>1. Has(LoopOf(c), Task("destroy", c))
    BY DEF TrackInv, Tracked
  <2> QED
    BY <1>1, <2>1, LoopTyped
<1> QED
  BY <1>3, <1>4, <1>5 DEF TrackInv

LEMMA TrackQuiet ==
    ASSUME Base, TrackInv, [Next]_vars,
           \/ SwapRemovals \/ DropRemovals \/ UNCHANGED vars
           \/ \E c \in Conns : PeerEnds(c)
           \/ \E w \in Workers : \/ Start(w) \/ Poll(w) \/ Dispatch(w) \/ SwapPending(w) \/ UseAfterFree(w)
                                 \/ HandleError(w) \/ HandleClose(w) \/ HandleData(w)
    PROVE  TrackInv'
<1>0. WorkerTyped /\ MainTyped
  BY TypeParts DEF Base
<1>a. \A c \in Conns : Fresh(c) => Untouched(c)
  BY DEF TrackInv, FreshUntouched
<1>1. UNCHANGED <<establishing, connections, handlers>>
  BY DEF SwapRemovals, DropRemovals, vars, mainVars, workerVars, PeerEnds, Start, Poll, Dispatch, SwapPending, UseAfterFree,
         HandleError, HandleClose, HandleData, NextCallback, RemoveConnection
<1>2. \A w \in Workers : Todo(w)' = Todo(w)
  <2>1. CASE UNCHANGED <<tasks, pending>>
    BY <2>1 DEF Todo
  <2>2. CASE \E w \in Workers : SwapPending(w)
    BY <2>2, TodoSwapped
  <2> QED
    BY <2>1, <2>2 DEF SwapRemovals, DropRemovals, vars, workerVars, PeerEnds, Start, Poll, Dispatch, UseAfterFree,
         HandleError, HandleClose, HandleData, NextCallback
<1>3. ~Accept
  <2>1. accepted' = accepted
    BY DEF SwapRemovals, DropRemovals, vars, mainVars, PeerEnds, Start, Poll, Dispatch, SwapPending, UseAfterFree,
         HandleError, HandleClose, HandleData, RemoveConnection
  <2>2. accepted \in Nat
    BY <1>0 DEF MainTyped
  <2> QED
    BY <2>1, <2>2 DEF Accept
<1>4. \A c \in Conns : Alive(c)' => Alive(c)
  BY <1>3, AliveBefore
<1>5. /\ \A c \in Conns : Fresh(c) => c \notin Elements(removals') \cup Elements(removing') /\ state'[c] = state[c]
      /\ \A c \in Conns : state'[c] = "CONNECTED" => state[c] = "CONNECTED"
  <2>1. CASE SwapRemovals
    <3>1. removing = <<>> /\ removing' = removals /\ removals' = <<>> /\ UNCHANGED state
      BY <2>1 DEF SwapRemovals, connVars
    <3> QED
      BY <1>a, <3>1 DEF Untouched, Elements
  <2>2. CASE DropRemovals
    <3>1. removing' = <<>> /\ UNCHANGED <<removals, state>>
      BY <2>2 DEF DropRemovals, connVars
    <3> QED
      BY <1>a, <3>1 DEF Untouched, Elements
  <2>3. ASSUME NEW w \in Workers, HandleError(w) \/ HandleClose(w) \/ HandleData(w) PROVE <1>5
    <3>1. current[w].conn \in Conns /\ Alive(current[w].conn)
      BY <2>3, CallbackDone DEF HandleError, HandleClose, HandleData
    <3>2. Elements(removals') \subseteq Elements(removals) \cup {current[w].conn} /\ UNCHANGED removing
      <4>1. CASE RemoveConnection(current[w].conn)
        BY <3>1, <4>1, RemovalKnown
      <4>2. CASE UNCHANGED mainVars
        BY <4>2 DEF mainVars
      <4> QED
        BY <2>3, <4>1, <4>2 DEF HandleError, HandleClose, HandleData
    <3>3. state' = state \/ state' = [state EXCEPT ![current[w].conn] = "DISCONNECTED"]
      BY <2>3 DEF HandleError, HandleClose, HandleData, connVars
    <3>4. \A c \in Conns : Fresh(c) => c # current[w].conn
      BY <1>a DEF Untouched
    <3> QED
      BY <1>0, <1>a, <3>2, <3>3, <3>4 DEF Untouched, MainTyped
  <2>4. CASE UNCHANGED <<removals, removing, state>>
    BY <1>a, <2>4 DEF Untouched
  <2> QED
    BY <2>1, <2>2, <2>3, <2>4 DEF vars, mainVars, connVars, PeerEnds, Start, Poll, Dispatch, SwapPending, UseAfterFree
<1>6. \A c \in Conns : Fresh(c) => \A w \in Workers : current'[w].conn # c
  <2>1. ASSUME NEW v \in Workers, Dispatch(v) PROVE <1>6
    <3>1. PICK e \in batch[v] :
            current' = [current EXCEPT ![v] = IF handlers[v][fd[e.conn]] = None THEN Idle
                                              ELSE [conn |-> handlers[v][fd[e.conn]], calls |-> e.calls]]
      BY <2>1 DEF Dispatch
    <3>2. fd[e.conn] \in Fds
      <4>1. e.conn \in Conns /\ e.conn <= accepted
        BY <1>0 DEF WorkerTyped, Base, WorkerKnown, Events
      <4> QED
        BY <1>0, <4>1 DEF MainTyped, Base, MainKnown
    <3>3. Idle.conn = None /\ None \notin Conns
      BY ConstantsTyped DEF Idle
    <3>4. current'[v].conn = handlers[v][fd[e.conn]]
      BY <1>0, <3>1, <3>3 DEF WorkerTyped
    <3>5. \A w \in Workers : w # v => current'[w] = current[w]
      BY <1>0, <3>1 DEF WorkerTyped
    <3> QED
      BY <1>a, <3>2, <3>4, <3>5 DEF Untouched
  <2>2. ASSUME NEW w \in Workers, HandleError(w) \/ HandleClose(w) \/ HandleData(w) PROVE <1>6
    <3>1. \A v \in Workers : current'[v].conn = current[v].conn
      BY <2>2, CallbackDone DEF HandleError, HandleClose, HandleData
    <3> QED
      BY <1>a, <3>1 DEF Untouched
  <2>3. CASE UNCHANGED current
    BY <1>a, <2>3 DEF Untouched
  <2> QED
    BY <2>1, <2>2, <2>3 DEF SwapRemovals, DropRemovals, vars, workerVars, PeerEnds, Start, Poll, SwapPending, UseAfterFree
<1>7. \A c \in Conns : Fresh(c) => Untouched(c)'
  BY <1>a, <1>1, <1>5, <1>6 DEF Untouched
<1> QED
  BY <1>1, <1>2, <1>4, <1>5, <1>7, QuietStep

LEMMA TrackAccept == ASSUME Base, TrackInv, Accept, [Next]_vars PROVE TrackInv'
<1>0. WorkerTyped /\ MainTyped
  BY TypeParts DEF Base
<1>a. accepted \in Nat /\ accepted + 1 \in Conns
  BY <1>0, ConstantsTyped DEF Accept, MainTyped
<1>b. PICK n \in Conns : n = accepted + 1
  BY <1>a
<1>1. /\ accepted' = n /\ establishing' = n /\ connections' = connections \cup {n} /\ establishing = None
      /\ UNCHANGED <<removals, removing, state, handlers, current, tasks, pending>>
  BY <1>b DEF Accept, workerVars
<1>2. \A w : (\A x : Has(w, x)' <=> Has(w, x)) /\ (Once(w)' <=> Once(w))
  BY <1>1, TodoSame DEF Todo
<1>3. \A c : ToEstablish(c)' <=> ToEstablish(c)
  BY <1>2 DEF ToEstablish
<1>4. ~ToEstablish(n)
  <2> SUFFICES ASSUME NEW w \in Workers, NEW i \in DOMAIN Todo(w), Todo(w)[i] = Task("establish", n) PROVE FALSE
    BY DEF ToEstablish, Has
  <2>1. Todo(w)[i].conn <= accepted
    BY DEF Base, WorkerKnown
  <2> QED
    BY <1>a, <1>b, <2>1 DEF Task
<1>5. Untouched(n)'
  <2>1. ~(n <= accepted)
    BY <1>a, <1>b
  <2>2. n \notin Elements(removals) \cup Elements(removing)
    BY <2>1 DEF Base, MainKnown
  <2>3. state[n] = "CONNECTING"
    BY <1>a, <1>b DEF Base, MainKnown
  <2>4. \A w \in Workers : current[w].conn # n /\ \A f \in Fds : handlers[w][f] # n
    BY <2>1 DEF Base, WorkerKnown
  <2> QED
    BY <1>1, <2>2, <2>3, <2>4 DEF Untouched
<1>6. \A c \in Conns : Untouched(c) => Untouched(c)'
  BY <1>1 DEF Untouched
<1>7. FreshUntouched'
  BY <1>1, <1>3, <1>4, <1>5, <1>6 DEF TrackInv, FreshUntouched, Fresh
<1>8. EstablishedOnce'
  BY <1>2 DEF TrackInv, EstablishedOnce
<1>9. Tracked'
  <2> SUFFICES ASSUME NEW c \in Conns, Alive(c)', state'[c] = "CONNECTED", c \notin connections'
               PROVE  Has(LoopOf(c), Task("destroy", c))'
    BY DEF Tracked, LoopOf, Task
  <2>1. Alive(c) /\ state[c] = "CONNECTED" /\ c \notin connections
    BY <1>1, AliveBefore
  <2> QED
    BY <1>2, <2>1 DEF TrackInv, Tracked
<1> QED
  BY <1>7, <1>8, <1>9 DEF TrackInv

LEMMA TrackEstablish == ASSUME Base, TrackInv, Establish, [Next]_vars PROVE TrackInv'
<1>0. WorkerTyped /\ MainTyped
  BY TypeParts DEF Base
<1>a. PICK n \in Conns : n = establishing
  BY <1>0 DEF Establish, MainTyped
<1>b. LoopOf(n) \in Workers /\ n \in 1 .. accepted /\ n # None
  BY <1>a, LoopTyped, ConstantsTyped DEF Base, MainKnown
<1>1. establishing' = None /\ UNCHANGED <<connections, removals, removing, current, tasks, accepted>>
  BY DEF Establish
<1>2. Untouched(n) /\ ~ToEstablish(n) /\ Alive(n)
  BY <1>a DEF TrackInv, FreshUntouched, Fresh, Alive
<1>3. ~Accept
  BY <1>0, <1>1 DEF Accept, MainTyped
<1>4. \A c \in Conns : Alive(c)' => Alive(c)
  BY <1>3, AliveBefore
<1>5. \A w \in Workers : Todo(w) \in Seq(Job)
  BY Parts DEF Base
<1>6. \A c \in Conns : c # establishing' /\ (c = establishing <=> c = n)
  BY <1>1, <1>a, ConstantsTyped
<1>7. CASE running[LoopOf(n)]
  <2>1. Post(LoopOf(n), "establish", n) /\ UNCHANGED <<state, epoll, handlers>>
    BY <1>7, <1>a DEF Establish
  <2>2. \A v \in Workers : Todo(v)' = IF v = LoopOf(n) THEN Append(Todo(v), Task("establish", n)) ELSE Todo(v)
    BY <1>1, <1>b, <2>1, Posted DEF Base, Task
  <2>3. Task("establish", n) \in Job /\ Task("establish", n).kind = "establish"
    BY DEF Task, Job
  <2>4. /\ \A x : Has(LoopOf(n), x)' <=> Has(LoopOf(n), x) \/ x = Task("establish", n)
        /\ Once(LoopOf(n))'
    <3>1. ~Has(LoopOf(n), Task("establish", n)) /\ Once(LoopOf(n))
      BY <1>2, <1>b DEF ToEstablish, TrackInv, EstablishedOnce
    <3>2. PICK w \in Workers : w = LoopOf(n)
      BY <1>b
    <3>3. Todo(w)' = Append(Todo(w), Task("establish", n))
      BY <2>2, <3>2
    <3>4. (\A x : Has(w, x)' <=> Has(w, x) \/ x = Task("establish", n)) /\ Once(w)'
      BY <1>5, <2>3, <3>1, <3>2, <3>3, TodoAppended
    <3> QED
      BY <3>2, <3>4
  <2>5. \A v \in Workers : v # LoopOf(n) => (\A x : Has(v, x)' <=> Has(v, x)) /\ (Once(v)' <=> Once(v))
    BY <2>2, TodoSame
  <2>6. \A c : Task("establish", c) = Task("establish", n) => c = n
    BY DEF Task
  <2>7. \A c \in Conns : ToEstablish(c)' <=> ToEstablish(c) \/ c = n
    BY <1>b, <2>4, <2>5, <2>6 DEF ToEstablish
  <2>8. \A c \in Conns : Untouched(c) => Untouched(c)'
    BY <1>1, <2>1 DEF Untouched
  <2>9. FreshUntouched'
    BY <1>2, <1>6, <2>7, <2>8 DEF TrackInv, FreshUntouched, Fresh
  <2>10. EstablishedOnce'
    BY <2>4, <2>5 DEF TrackInv, EstablishedOnce
  <2>11. Tracked'
    <3> SUFFICES ASSUME NEW c \in Conns, Alive(c)', state'[c] = "CONNECTED", c \notin connections'
                 PROVE  Has(LoopOf(c), Task("destroy", c))'
      BY DEF Tracked, LoopOf, Task
    <3>1. Has(LoopOf(c), Task("destroy", c)) /\ LoopOf(c) \in Workers
      BY <1>1, <1>4, <2>1, LoopTyped DEF TrackInv, Tracked
    <3>2. CASE LoopOf(c) = LoopOf(n)
      BY <2>4, <3>1, <3>2
    <3>3. CASE LoopOf(c) # LoopOf(n)
      BY <2>5, <3>1, <3>3
    <3> QED
      BY <3>2, <3>3
  <2> QED
    BY <2>9, <2>10, <2>11 DEF TrackInv
<1>8. CASE ~running[LoopOf(n)]
  <2>1. EstablishInLoop(n) /\ UNCHANGED pending
    BY <1>8, <1>a DEF Establish
  <2>2. /\ \A d \in Conns : state'[d] = IF d = n THEN "CONNECTED" ELSE state[d]
        /\ \A v \in Workers : \A f \in Fds : handlers'[v][f] = IF v = LoopOf(n) /\ f = fd[n] THEN n ELSE handlers[v][f]
    BY <1>b, <2>1, HandlerSet
  <2>3. \A w : (\A x : Has(w, x)' <=> Has(w, x)) /\ (Once(w)' <=> Once(w))
    BY <1>1, <2>1, TodoSame DEF Todo
  <2>4. \A c : ToEstablish(c)' <=> ToEstablish(c)
    BY <2>3 DEF ToEstablish
  <2>5. \A c \in Conns : c # n /\ Untouched(c) => Untouched(c)'
    BY <1>1, <2>2 DEF Untouched
  <2>6. FreshUntouched'
    BY <1>2, <1>6, <2>4, <2>5 DEF TrackInv, FreshUntouched, Fresh
  <2>7. EstablishedOnce'
    BY <2>3 DEF TrackInv, EstablishedOnce
  <2>8. Tracked'
    <3> SUFFICES ASSUME NEW c \in Conns, Alive(c)', state'[c] = "CONNECTED", c \notin connections'
                 PROVE  Has(LoopOf(c), Task("destroy", c))'
      BY DEF Tracked, LoopOf, Task
    <3>1. c # n
      BY <1>1, <1>2 DEF Untouched
    <3>2. Has(LoopOf(c), Task("destroy", c))
      BY <1>1, <1>4, <2>2, <3>1 DEF TrackInv, Tracked
    <3> QED
      BY <2>3, <3>2
  <2> QED
    BY <2>6, <2>7, <2>8 DEF TrackInv
<1> QED
  BY <1>7, <1>8

LEMMA TrackRemove == ASSUME Base, TrackInv, RemoveConnectionInLoop, [Next]_vars PROVE TrackInv'
<1>0. WorkerTyped /\ MainTyped
  BY TypeParts DEF Base
<1>a. PICK n \in Conns : n = removing[removed + 1] /\ n \in Elements(removing)
  <2>1. removing \in Seq(Conns) /\ removed \in Nat /\ removed < Len(removing)
    BY <1>0 DEF RemoveConnectionInLoop, MainTyped
  <2>2. removed + 1 \in DOMAIN removing
    BY <2>1
  <2> QED
    BY <2>1, <2>2 DEF Elements
<1>b. LoopOf(n) \in Workers
  BY LoopTyped
<1>1. /\ Post(LoopOf(n), "destroy", n) /\ connections' = connections \ {n}
      /\ UNCHANGED <<establishing, removals, removing, state, handlers, current, tasks, accepted>>
  BY <1>a DEF RemoveConnectionInLoop, connVars
<1>2. \A v \in Workers : Todo(v)' = IF v = LoopOf(n) THEN Append(Todo(v), Task("destroy", n)) ELSE Todo(v)
  BY <1>1, <1>b, Posted DEF Base, Task
<1>3. Task("destroy", n) \in Job /\ Task("destroy", n).kind = "destroy" /\ \A c : Task("establish", c) # Task("destroy", n)
  BY DEF Task, Job
<1>4. /\ \A x : Has(LoopOf(n), x)' <=> Has(LoopOf(n), x) \/ x = Task("destroy", n)
      /\ Once(LoopOf(n)) => Once(LoopOf(n))'
  <2>1. PICK w \in Workers : w = LoopOf(n)
    BY <1>b
  <2>2. Todo(w)' = Append(Todo(w), Task("destroy", n)) /\ Todo(w) \in Seq(Job)
    BY <1>2, <2>1, Parts DEF Base
  <2>3. (\A x : Has(w, x)' <=> Has(w, x) \/ x = Task("destroy", n)) /\ (Once(w) => Once(w)')
    BY <1>3, <2>2, TodoAppended
  <2> QED
    BY <2>1, <2>3
<1>5. \A v \in Workers : v # LoopOf(n) => (\A x : Has(v, x)' <=> Has(v, x)) /\ (Once(v)' <=> Once(v))
  BY <1>2, TodoSame
<1>6. \A c : (ToEstablish(c)' <=> ToEstablish(c)) /\ (Fresh(c)' <=> Fresh(c))
  BY <1>1, <1>3, <1>4, <1>5 DEF ToEstablish, Fresh
<1>7. \A c \in Conns : Untouched(c) => c # n /\ Untouched(c)'
  BY <1>1, <1>a DEF Untouched
<1>8. FreshUntouched'
  BY <1>1, <1>6, <1>7 DEF TrackInv, FreshUntouched
<1>9. EstablishedOnce'
  BY <1>4, <1>5 DEF TrackInv, EstablishedOnce
<1>10. Tracked'
  <2> SUFFICES ASSUME NEW c \in Conns, Alive(c)', state'[c] = "CONNECTED", c \notin connections'
               PROVE  Has(LoopOf(c), Task("destroy", c))'
    BY DEF Tracked, LoopOf, Task
  <2>1. CASE c = n
    BY <1>4, <2>1
  <2>2. CASE c # n
    <3>1. Alive(c)
      <4>1. ~Accept
        BY <1>0, <1>1 DEF Accept, MainTyped
      <4> QED
        BY <4>1, AliveBefore
    <3>2. Has(LoopOf(c), Task("destroy", c)) /\ LoopOf(c) \in Workers
      BY <1>1, <2>2, <3>1, LoopTyped DEF TrackInv, Tracked
    <3>3. CASE LoopOf(c) = LoopOf(n)
      BY <1>4, <3>2, <3>3
    <3>4. CASE LoopOf(c) # LoopOf(n)
      BY <1>5, <3>2, <3>4
    <3> QED
      BY <3>3, <3>4
  <2> QED
    BY <2>1, <2>2
<1> QED
  BY <1>8, <1>9, <1>10 DEF TrackInv

\* The task at the head of a worker's vector is gone after NextTask().
LEMMA TrackTaskDone ==
    ASSUME Base, TrackInv, NEW w \in Workers, NEW kind, NextTask(w, kind), NEW n \in Conns, n = Head(tasks[w]).conn
    PROVE  /\ Todo(w)[1] = Task(kind, n) /\ Has(w, Task(kind, n)) /\ LoopOf(n) = w /\ Alive(n)
           /\ \A v \in Workers : \A x : /\ Has(v, x)' => Has(v, x)
                                        /\ Has(v, x) => Has(v, x)' \/ (v = w /\ x = Task(kind, n))
           /\ EstablishedOnce'
           /\ kind = "establish" => ~ToEstablish(n)'
<1>1. /\ Todo(w) # <<>> /\ Todo(w)[1] \in Job /\ Todo(w)[1].kind = kind /\ Todo(w)[1].conn = n
      /\ Alive(n) /\ LoopOf(n) = w
      /\ \A v \in Workers : Todo(v)' = IF v = w THEN Tail(Todo(v)) ELSE Todo(v)
  BY TaskDone
<1>2. Todo(w)[1] = Task(kind, n)
  BY <1>1 DEF Task, Job
<1>3. Todo(w) \in Seq(Job)
  BY Parts DEF Base
<1>4. 1 \in DOMAIN Todo(w)
  BY <1>1, <1>3
<1>5. Has(w, Task(kind, n))
  BY <1>2, <1>4 DEF Has
<1>6. Once(w)
  BY DEF TrackInv, EstablishedOnce
<1>7. Todo(w)' = Tail(Todo(w))
  BY <1>1
<1>8. /\ \A x : (Has(w, x)' => Has(w, x)) /\ (Has(w, x) => Has(w, x)' \/ x = Todo(w)[1])
      /\ Once(w)'
      /\ \A x : x = Todo(w)[1] /\ x.kind = "establish" => ~Has(w, x)'
  BY <1>1, <1>3, <1>6, <1>7, TodoTail
<1>9. \A v \in Workers : v # w => (\A x : Has(v, x)' <=> Has(v, x)) /\ (Once(v)' <=> Once(v))
  BY <1>1, TodoSame
<1>10. EstablishedOnce'
  BY <1>8, <1>9 DEF TrackInv, EstablishedOnce
<1>11. \A v \in Workers : \A x : /\ Has(v, x)' => Has(v, x)
                                 /\ Has(v, x) => Has(v, x)' \/ (v = w /\ x = Task(kind, n))
  BY <1>2, <1>8, <1>9
<1>12. ASSUME kind = "establish" PROVE ~ToEstablish(n)'
  <2>1. ~Has(w, Task("establish", n))'
    BY <1>2, <1>8, <1>12 DEF Task
  <2>2. ASSUME NEW v \in Workers, v # w PROVE ~Has(v, Task("establish", n))
    <3> SUFFICES ASSUME NEW i \in DOMAIN Todo(v), Todo(v)[i] = Task("establish", n) PROVE FALSE
      BY DEF Has
    <3>1. LoopOf(Todo(v)[i].conn) = v /\ Todo(v)[i].conn = n
      BY DEF Base, WorkerKnown, Task
    <3> QED
      BY <1>1, <2>2, <3>1
  <2>3. \A v \in Workers : ~Has(v, Task("establish", n))'
    BY <1>9, <2>1, <2>2
  <2> QED
    BY <2>3 DEF ToEstablish, Task
<1> QED
  BY <1>1, <1>2, <1>5, <1>10, <1>11, <1>12

LEMMA TrackTask ==
    ASSUME Base, TrackInv, NEW w \in Workers, EstablishTask(w) \/ DestroyTask(w), [Next]_vars
    PROVE  TrackInv'
<1>0. WorkerTyped /\ MainTyped
  BY TypeParts DEF Base
<1>a. PICK n \in Conns : n = Head(tasks[w]).conn
  BY TaskDone DEF EstablishTask, DestroyTask
<1>b. PICK kind \in {"establish", "destroy"} : NextTask(w, kind) /\ (EstablishTask(w) <=> kind = "establish")
  <2>1. EstablishTask(w) => Head(tasks[w]).kind = "establish"
    BY DEF EstablishTask, NextTask
  <2>2. DestroyTask(w) => Head(tasks[w]).kind = "destroy"
    BY DEF DestroyTask, NextTask
  <2> QED
    BY <2>1, <2>2 DEF EstablishTask, DestroyTask
<1>1. /\ Has(w, Task(kind, n)) /\ LoopOf(n) = w /\ Alive(n)
      /\ \A v \in Workers : \A x : /\ Has(v, x)' => Has(v, x)
                                   /\ Has(v, x) => Has(v, x)' \/ (v = w /\ x = Task(kind, n))
      /\ EstablishedOnce'
      /\ kind = "establish" => ~ToEstablish(n)'
  BY <1>a, <1>b, TrackTaskDone
<1>2. \A c : ToEstablish(c)' => ToEstablish(c)
  BY <1>1 DEF ToEstablish
<1>3. n \in 1 .. accepted
  BY <1>1, AliveAccepted
<1>4. UNCHANGED <<establishing, connections, removing, current, accepted>>
  BY DEF EstablishTask, DestroyTask, NextTask, RemoveConnection, mainVars
<1>5. \A c \in Conns : Alive(c)' => Alive(c)
  <2>1. ~Accept
    BY <1>0, <1>4 DEF Accept, MainTyped
  <2> QED
    BY <2>1, AliveBefore
<1>6. /\ FreshUntouched'
      /\ \A c \in Conns : state'[c] = "CONNECTED" /\ c \notin connections => state[c] = "CONNECTED" /\ Task("destroy", c) # Task(kind, n)
  <2>1. CASE kind = "establish"
    <3>1. EstablishInLoop(n) /\ UNCHANGED removals
      BY <1>a, <1>b, <2>1 DEF EstablishTask, mainVars
    <3>2. /\ \A d \in Conns : state'[d] = IF d = n THEN "CONNECTED" ELSE state[d]
          /\ \A v \in Workers : \A f \in Fds : handlers'[v][f] = IF v = LoopOf(n) /\ f = fd[n] THEN n ELSE handlers[v][f]
      BY <1>3, <3>1, HandlerSet
    <3>3. ToEstablish(n)
      BY <1>1, <2>1 DEF ToEstablish
    <3>4. Untouched(n) /\ n # establishing
      BY <3>3 DEF TrackInv, FreshUntouched, Fresh
    <3>5. ~ToEstablish(n)'
      BY <1>1, <2>1
    <3>6. \A c \in Conns : c # n /\ Untouched(c) => Untouched(c)'
      BY <1>4, <3>1, <3>2 DEF Untouched
    <3>7. ~Fresh(n)'
      BY <1>4, <3>4, <3>5 DEF Fresh
    <3>8. FreshUntouched'
      <4> SUFFICES ASSUME NEW c \in Conns
                   PROVE  /\ Fresh(c)' => Untouched(c)'
                          /\ c = establishing' => ~ToEstablish(c)'
        BY DEF FreshUntouched
      <4>1. Fresh(c)' => Fresh(c) /\ c # n
        BY <1>2, <1>4, <3>7 DEF Fresh
      <4> QED
        BY <1>2, <1>4, <3>6, <4>1 DEF TrackInv, FreshUntouched
    <3>9. n \in connections
      BY <3>4 DEF Untouched
    <3>10. \A c : Task("destroy", c) # Task(kind, n)
      BY <2>1 DEF Task
    <3> QED
      BY <3>2, <3>8, <3>9, <3>10
  <2>2. CASE kind = "destroy" /\ state[n] = "CONNECTED"
    <3>1. state' = [state EXCEPT ![n] = "DISCONNECTED"] /\ RemoveHandler(n) /\ RemoveConnection(n)
      BY <1>a, <1>b, <2>2 DEF DestroyTask
    <3>2. Elements(removals') = Elements(removals) \cup {n}
      BY <1>1, <3>1, RemovalKnown
    <3>3. \A v \in Workers : \A f \in Fds : handlers'[v][f] = IF v = LoopOf(n) /\ f = fd[n] THEN None ELSE handlers[v][f]
      BY <1>3, <3>1, HandlerErased
    <3>4. \A d \in Conns : state'[d] = IF d = n THEN "DISCONNECTED" ELSE state[d]
      BY <1>0, <3>1 DEF MainTyped
    <3>5. \A c \in Conns : Untouched(c) => Untouched(c)'
      <4> SUFFICES ASSUME NEW c \in Conns, Untouched(c) PROVE Untouched(c)'
        OBVIOUS
      <4>1. c # n /\ c # None
        BY <2>2, ConstantsTyped DEF Untouched
      <4> QED
        BY <1>4, <3>2, <3>3, <3>4, <4>1 DEF Untouched
    <3>6. FreshUntouched'
      BY <1>2, <1>4, <3>5 DEF TrackInv, FreshUntouched, Fresh
    <3>7. \A c : c # n => Task("destroy", c) # Task(kind, n)
      BY DEF Task
    <3> QED
      BY <3>4, <3>6, <3>7
  <2>3. CASE kind = "destroy" /\ state[n] # "CONNECTED"
    <3>1. UNCHANGED <<removals, state, handlers>>
      BY <1>a, <1>b, <2>3 DEF DestroyTask, mainVars
    <3>2. \A c \in Conns : Untouched(c) => Untouched(c)'
      BY <1>4, <3>1 DEF Untouched
    <3>3. FreshUntouched'
      BY <1>2, <1>4, <3>2 DEF TrackInv, FreshUntouched, Fresh
    <3>4. \A c : c # n => Task("destroy", c) # Task(kind, n)
      BY DEF Task
    <3> QED
      BY <2>3, <3>1, <3>3, <3>4
  <2> QED
    BY <2>1, <2>2, <2>3
<1>7. Tracked'
  <2> SUFFICES ASSUME NEW c \in Conns, Alive(c)', state'[c] = "CONNECTED", c \notin connections'
               PROVE  Has(LoopOf(c), Task("destroy", c))'
    BY DEF Tracked, LoopOf, Task
  <2>1. state[c] = "CONNECTED" /\ Alive(c) /\ c \notin connections /\ Task("destroy", c) # Task(kind, n)
    BY <1>4, <1>5, <1>6
  <2>2. Has(LoopOf(c), Task("destroy", c))
    BY <2>1 DEF TrackInv, Tracked
  <2> QED
    BY <1>1, <2>1, <2>2, LoopTyped
<1> QED
  BY <1>1, <1>6, <1>7 DEF TrackInv

LEMMA TrackStep == ASSUME Base, TrackInv, [Next]_vars PROVE TrackInv'
BY TrackQuiet, TrackAccept, TrackEstablish, TrackRemove, TrackTask DEF Next, MainStep, WorkerStep
-----------------------------------------------------------------------------
(* The theorems.                                                           *)

ServerInv == Base /\ FdUnique /\ Installed /\ EventsReachTheirConnection /\ TrackInv

LEMMA ServerInit == Init => ServerInv
<1> SUFFICES ASSUME Init PROVE ServerInv
  OBVIOUS
<1>1. Base
  BY BaseInit
<1>2. \A c \in Conns : ~Alive(c) /\ c # None
  BY ConstantsTyped DEF Init, Alive, Elements
<1>3. \A w \in Workers : Todo(w) = <<>> /\ batch[w] = {}
  BY DEF Init, Todo
<1>4. \A w \in Workers : Once(w) /\ \A x : ~Has(w, x)
  BY <1>3 DEF Once, Has
<1>5. FdUnique /\ Installed
  BY <1>2 DEF FdUnique, Installed
<1>6. EventsReachTheirConnection
  BY <1>3 DEF EventsReachTheirConnection
<1>7. TrackInv
  BY <1>2, <1>4 DEF TrackInv, FreshUntouched, EstablishedOnce, Tracked, Fresh, ToEstablish, Init
<1> QED
  BY <1>1, <1>5, <1>6, <1>7 DEF ServerInv

LEMMA ServerInvariant == Spec => []ServerInv
<1>1. Init => ServerInv
  BY ServerInit
<1>2. ServerInv /\ [Next]_vars => ServerInv'
  BY BaseStep, FdUniqueStep, InstalledStep, EventsStep, TrackStep DEF ServerInv
<1> QED
  BY <1>1, <1>2, PTL DEF Spec

\* TypeOK, for every number of connections, workers and removals.
THEOREM ServerTypeCorrect == Spec => []TypeOK
<1>1. ServerInv => TypeOK
  BY DEF ServerInv, Base
<1> QED
  BY <1>1, ServerInvariant, PTL

\* An event of a batch is dispatched to the connection it is about, or to nobody: no entry of
\* handlers_ is given to another connection while its loop has events in hand.
THEOREM EventsAreNotMisdirected == Spec => []EventsReachTheirConnection
<1>1. ServerInv => EventsReachTheirConnection
  BY DEF ServerInv
<1> QED
  BY <1>1, ServerInvariant, PTL

\* A connection that is up has its own handler: the reuse of its descriptor's number takes nothing
\* from it, since a descriptor is reused only when the connection that had it is gone.
THEOREM HandlerInstalled == Spec => []ConnectedHasHandler
<1>1. ServerInv => ConnectedHasHandler
  BY DEF ServerInv, Installed, ConnectedHasHandler
<1> QED
  BY <1>1, ServerInvariant, PTL

\* A connection that is up is in connections_, or its destroyConnection() is queued on its loop.
THEOREM ConnectedTracked == Spec => []ConnectedIsTracked
<1>1. ASSUME ServerInv PROVE ConnectedIsTracked
  <2> SUFFICES ASSUME NEW c \in Conns, Alive(c), state[c] = "CONNECTED", c \notin connections
               PROVE  [kind |-> "destroy", conn |-> c] \in Elements(tasks[LoopOf(c)]) \cup Elements(pending[LoopOf(c)])
    BY DEF ConnectedIsTracked
  <2>1. PICK w \in Workers : w = LoopOf(c)
    BY LoopTyped
  <2>2. PICK i \in DOMAIN Todo(w) : Todo(w)[i] = Task("destroy", c)
    BY <1>1, <2>1 DEF ServerInv, TrackInv, Tracked, Has
  <2>3. tasks[w] \in Seq(Job) /\ pending[w] \in Seq(Job)
    BY <1>1, Parts DEF ServerInv, Base
  <2>4. CASE i <= Len(tasks[w])
    <3>1. i \in DOMAIN tasks[w] /\ Todo(w)[i] = tasks[w][i]
      BY <2>2, <2>3, <2>4 DEF Todo
    <3> QED
      BY <2>1, <2>2, <3>1 DEF Elements, Task
  <2>5. CASE i > Len(tasks[w])
    <3>1. ASSUME NEW s \in Seq(Job), NEW t \in Seq(Job), NEW k \in DOMAIN (s \o t), k > Len(s)
          PROVE  k - Len(s) \in DOMAIN t /\ (s \o t)[k] = t[k - Len(s)]
      <4>1. /\ s \o t \in Seq(Job) /\ Len(s \o t) = Len(s) + Len(t)
            /\ \A j \in 1 .. Len(s) + Len(t) : (s \o t)[j] = IF j <= Len(s) THEN s[j] ELSE t[j - Len(s)]
        BY ConcatProperties
      <4>2. k \in 1 .. Len(s) + Len(t) /\ Len(s) \in Nat /\ Len(t) \in Nat /\ DOMAIN t = 1 .. Len(t)
        BY <4>1, LenProperties
      <4>3. k - Len(s) \in 1 .. Len(t) /\ ~(k <= Len(s))
        BY <3>1, <4>2
      <4> QED
        BY <4>1, <4>2, <4>3
    <3>2. i \in DOMAIN (tasks[w] \o pending[w]) /\ Todo(w)[i] = (tasks[w] \o pending[w])[i]
      BY <2>2 DEF Todo
    <3>3. i - Len(tasks[w]) \in DOMAIN pending[w] /\ Todo(w)[i] = pending[w][i - Len(tasks[w])]
      BY <2>3, <2>5, <3>1, <3>2
    <3> QED
      BY <2>1, <2>2, <3>3 DEF Elements, Task
  <2> QED
    BY <2>2, <2>3, <2>4, <2>5 DEF Todo
<1>2. ServerInv => ConnectedIsTracked
  BY <1>1
<1> QED
  BY <1>2, ServerInvariant, PTL
-----------------------------------------------------------------------------
\* The connections whose removal has not begun.
ToRemove == Elements(removals) \cup {removing[i] : i \in removed + 1 .. Len(removing)}

LEMMA RemovalAdded ==
    ASSUME Base, NEW c \in Conns, RemoveConnection(c)
    PROVE  ToRemove' = ToRemove \cup {c} /\ connections' = connections
<1>1. removals \in Seq(Conns)
  BY Parts DEF Base
<1>2. Elements(Append(removals, c)) = Elements(removals) \cup {c}
  <2>1. /\ Len(Append(removals, c)) = Len(removals) + 1 /\ Len(removals) \in Nat
        /\ \A i \in 1 .. Len(removals) : Append(removals, c)[i] = removals[i]
        /\ Append(removals, c)[Len(removals) + 1] = c
    BY <1>1, AppendProperties, LenProperties
  <2>2. DOMAIN Append(removals, c) = 1 .. Len(removals) + 1 /\ DOMAIN removals = 1 .. Len(removals)
    BY <1>1, <2>1, AppendProperties, LenProperties
  <2> QED
    BY <2>1, <2>2 DEF Elements
<1>3. UNCHANGED <<connections, removing, removed>> /\ removals' = Append(removals, c)
  BY DEF RemoveConnection
<1> QED
  BY <1>2, <1>3 DEF ToRemove, Elements

LEMMA AwaitsStep == ASSUME ServerInv, ClosedAwaitsRemoval, [Next]_vars PROVE ClosedAwaitsRemoval'
<1>0. Base /\ \A c \in connections : state[c] = "DISCONNECTED" => c \in ToRemove
  BY DEF ServerInv, ClosedAwaitsRemoval, ToRemove
<1>1. /\ removals \in Seq(Conns) /\ removing \in Seq(Conns) /\ removed \in 0 .. Len(removing)
      /\ connections \subseteq Conns /\ accepted \in Nat /\ accepted <= NConns
      /\ state \in [Conns -> {"CONNECTING", "CONNECTED", "DISCONNECTED"}]
  BY <1>0, ConstantsTyped, Parts DEF Base, TypeOK
<1> SUFFICES ASSUME NEW c \in connections', state'[c] = "DISCONNECTED"
             PROVE  c \in ToRemove'
  BY DEF ClosedAwaitsRemoval, ToRemove
<1>2. CASE UNCHANGED <<connections, removals, removing, removed, state>>
  BY <1>0, <1>2 DEF ToRemove, Elements
<1>3. CASE Accept
  <2>1. UNCHANGED <<removals, removing, removed, state>> /\ connections' = connections \cup {accepted + 1} /\ accepted < NConns
    BY <1>3 DEF Accept, connVars
  <2>2. accepted + 1 \in Conns /\ state[accepted + 1] = "CONNECTING"
    BY <1>0, <1>1, <2>1, ConstantsTyped DEF Base, MainKnown
  <2> QED
    BY <1>0, <2>1, <2>2 DEF ToRemove, Elements
<1>4. CASE Establish
  <2>1. UNCHANGED <<connections, removals, removing, removed>> /\ (state' = state \/ state' = [state EXCEPT ![establishing] = "CONNECTED"])
    BY <1>4 DEF Establish, EstablishInLoop
  <2>2. state[c] = "DISCONNECTED" /\ c \in connections
    BY <1>1, <2>1
  <2> QED
    BY <1>0, <2>1, <2>2 DEF ToRemove, Elements
<1>5. CASE SwapRemovals
  <2>1. removing = <<>> /\ removing' = removals /\ removed' = removed /\ connections' = connections /\ state' = state
    BY <1>5 DEF SwapRemovals, connVars
  <2>2. removed = 0 /\ Len(removing) = 0
    BY <1>1, <2>1
  <2>3. c \in Elements(removals)
    BY <1>0, <2>1, <2>2 DEF ToRemove
  <2>4. DOMAIN removals = 1 .. Len(removals)
    BY <1>1
  <2> QED
    BY <2>1, <2>2, <2>3, <2>4 DEF ToRemove, Elements
<1>6. CASE RemoveConnectionInLoop
  <2>1. /\ connections' = connections \ {removing[removed + 1]} /\ removed' = removed + 1
        /\ UNCHANGED <<removals, removing, state>>
    BY <1>6 DEF RemoveConnectionInLoop, connVars
  <2>2. c \in ToRemove /\ c # removing[removed + 1]
    BY <1>0, <2>1
  <2>3. \A i \in removed + 1 .. Len(removing) : i = removed + 1 \/ i \in removed' + 1 .. Len(removing)
    BY <1>1, <2>1
  <2> QED
    BY <2>1, <2>2, <2>3 DEF ToRemove, Elements
<1>7. CASE DropRemovals
  <2>1. removed = Len(removing) /\ UNCHANGED <<connections, removals, state>>
    BY <1>7 DEF DropRemovals, connVars
  <2>2. removed + 1 .. Len(removing) = {}
    BY <1>1, <2>1
  <2> QED
    BY <1>0, <2>1, <2>2 DEF ToRemove, Elements
<1>8. ASSUME NEW w \in Workers, HandleError(w) \/ HandleClose(w) \/ DestroyTask(w) PROVE c \in ToRemove'
  <2>1. CASE HandleError(w) \/ HandleClose(w)
    <3>1. current[w].conn \in Conns
      <4>1. current[w].calls # <<>> /\ current[w] \in Events \cup {Idle}
        BY <1>0, <2>1 DEF HandleError, HandleClose, NextCallback, Base, TypeOK
      <4> QED
        BY <4>1 DEF Events, Idle
    <3>2. RemoveConnection(current[w].conn)
      BY <2>1 DEF HandleError, HandleClose
    <3>3. state' = state \/ state' = [state EXCEPT ![current[w].conn] = "DISCONNECTED"]
      BY <2>1 DEF HandleError, HandleClose
    <3> QED
      BY <1>0, <1>1, <3>1, <3>2, <3>3, RemovalAdded
  <2>2. CASE DestroyTask(w)
    <3>1. Head(tasks[w]).conn \in Conns
      <4>1. tasks[w] \in Seq(Job) /\ tasks[w] # <<>>
        BY <1>0, <2>2, Parts DEF DestroyTask, NextTask, Base, Places, InPlace
      <4>2. Head(tasks[w]) \in Job
        BY <4>1, HeadTailProperties
      <4> QED
        BY <4>2 DEF Job
    <3>2. CASE UNCHANGED <<mainVars, state>>
      BY <1>2, <3>2 DEF mainVars
    <3>3. CASE RemoveConnection(Head(tasks[w]).conn) /\ state' = [state EXCEPT ![Head(tasks[w]).conn] = "DISCONNECTED"]
      BY <1>0, <1>1, <3>1, <3>3, RemovalAdded
    <3> QED
      BY <2>2, <3>2, <3>3 DEF DestroyTask
  <2> QED
    BY <1>8, <2>1, <2>2
<1>9. ASSUME NEW w \in Workers, EstablishTask(w) PROVE c \in ToRemove'
  <2>1. UNCHANGED <<connections, removals, removing, removed>> /\ state' = [state EXCEPT ![Head(tasks[w]).conn] = "CONNECTED"]
    BY <1>9 DEF EstablishTask, EstablishInLoop, mainVars
  <2>2. state[c] = "DISCONNECTED" /\ c \in connections
    BY <1>1, <2>1
  <2> QED
    BY <1>0, <2>1, <2>2 DEF ToRemove, Elements
<1>10. ASSUME NEW w \in Workers, WorkerStep(w) PROVE c \in ToRemove'
  <2>1. CASE Start(w) \/ Poll(w) \/ Dispatch(w) \/ HandleData(w) \/ SwapPending(w) \/ UseAfterFree(w)
    BY <1>2, <2>1 DEF Start, Poll, Dispatch, HandleData, SwapPending, UseAfterFree, mainVars, connVars
  <2> QED
    BY <1>8, <1>9, <1>10, <2>1 DEF WorkerStep
<1>11. CASE (\E d \in Conns : PeerEnds(d)) \/ UNCHANGED vars
  BY <1>2, <1>11 DEF PeerEnds, vars, mainVars, connVars
<1> QED
  BY <1>3, <1>4, <1>5, <1>6, <1>7, <1>10, <1>11 DEF Next, MainStep

\* A closed connection does not stay in connections_ for want of a removal: the safety part of ClosedLeavesMap.
THEOREM ClosedAreRemoved == Spec => []ClosedAwaitsRemoval
<1>1. Init => ClosedAwaitsRemoval
  BY DEF Init, ClosedAwaitsRemoval
<1>2. ServerInv /\ ClosedAwaitsRemoval /\ [Next]_vars => ClosedAwaitsRemoval'
  BY AwaitsStep
<1> QED
  BY <1>1, <1>2, ServerInvariant, PTL DEF Spec
=============================================================================
